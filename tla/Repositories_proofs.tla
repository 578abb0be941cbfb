------------------------- MODULE Repositories_proofs -------------------------
(***************************************************************************)
(* The four stores, for any names, times, statuses and versions and any    *)
(* sequence of calls: PostgreSQL and the memory hold the same records, but *)
(* for the last ping an Upsert forgets, as long as a store is given no     *)
(* value that PostgreSQL's columns do not take; so the reads agree, with   *)
(* every order of equal times for the lists, and so do the errors.         *)
(***************************************************************************)
EXTENDS Repositories, FiniteSetTheorems, TLAPS

SnapshotRows  == [name : Names, at : Times, status : Statuses \cup {"active"}]
ConnectorRows == [name : Names, status : Statuses, ping : Times \cup {NoPing}]

\* The table rows holds the records of the map f, each under its name.
Stored(rows, f) ==
    /\ f \in [DOMAIN f -> SnapshotRows]
    /\ IsFiniteSet(DOMAIN f)
    /\ \A n \in DOMAIN f : f[n].name = n
    /\ rows = {f[n] : n \in DOMAIN f}

\* What the memory has in the place of a row, where names in gone have lost
\* their ping.
Seen(r, gone) == [r EXCEPT !.ping = IF r.name \in gone THEN NoPing ELSE @]

\* The same for connectors: one row for a name, and its record.
Kept(rows, f, gone) ==
    /\ rows \subseteq ConnectorRows
    /\ f \in [DOMAIN f -> ConnectorRows]
    /\ \A r \in rows : r.name \in DOMAIN f /\ f[r.name] = Seen(r, gone)
    /\ \A n \in DOMAIN f : \E r \in rows : r.name = n
    /\ \A r, s \in rows : r.name = s.name => r = s

RepositoryInv ==
    /\ pg = [snapshots |-> pg.snapshots, connectors |-> pg.connectors,
             logs |-> pg.logs, versions |-> pg.versions]
    /\ mem = [snapshots |-> mem.snapshots, connectors |-> mem.connectors,
              logs |-> mem.logs, versions |-> mem.versions]
    /\ "snapshots" \in refused \/ Stored(pg.snapshots, mem.snapshots)
    /\ "connectors" \in refused \/ Kept(pg.connectors, mem.connectors, cleared)
    /\ AnswersAgree

-----------------------------------------------------------------------------
(* The calls of the snapshot store.                                         *)

\* The row of a name is its record, and there is none if there is no record.
LEMMA StoredNamed ==
    ASSUME NEW rows, NEW f, Stored(rows, f), NEW n
    PROVE  Named(rows, n) = IF n \in DOMAIN f THEN {f[n]} ELSE {}
  BY DEF Stored, Named

\* INSERT, and the assignment to the map; a name that is taken is an error.
LEMMA StoredCreate ==
    ASSUME NEW rows, NEW f, Stored(rows, f), NEW n \in Names, NEW t \in Times
    PROVE  Stored(PgSnapshotCreate(rows, n, t), MemSnapshotCreate(f, n, t))
<1> DEFINE r == [name |-> n, at |-> t, status |-> "active"]
           g == With(f, n, r)
<1>1. CASE n \in DOMAIN f
  BY <1>1, StoredNamed DEF PgSnapshotCreate, MemSnapshotCreate
<1>2. CASE n \notin DOMAIN f
  <2>1. PgSnapshotCreate(rows, n, t) = rows \cup {r} /\ MemSnapshotCreate(f, n, t) = g
    BY <1>2, StoredNamed DEF PgSnapshotCreate, MemSnapshotCreate
  <2>2. /\ DOMAIN g = DOMAIN f \cup {n} /\ g[n] = r
        /\ \A x \in DOMAIN f : g[x] = f[x]
        /\ g = [x \in DOMAIN g |-> g[x]]
    BY <1>2 DEF With
  <2>3. r \in SnapshotRows
    BY DEF SnapshotRows
  <2>4. IsFiniteSet(DOMAIN g)
    BY <2>2, FS_AddElement DEF Stored
  <2> HIDE DEF g
  <2>5. g \in [DOMAIN g -> SnapshotRows]
    BY <2>2, <2>3 DEF Stored
  <2>6. \A x \in DOMAIN g : g[x].name = x
    BY <2>2 DEF Stored
  <2>7. rows \cup {r} = {g[x] : x \in DOMAIN g}
    BY <2>2 DEF Stored
  <2>8. QED
    BY <2>1, <2>4, <2>5, <2>6, <2>7 DEF Stored
<1>3. QED
  BY <1>1, <1>2

\* DELETE, and delete().
LEMMA StoredDelete ==
    ASSUME NEW rows, NEW f, Stored(rows, f), NEW n
    PROVE  Stored(PgDelete(rows, n), MemDelete(f, n))
<1> DEFINE g == Without(f, n)
<1>1. /\ DOMAIN g = DOMAIN f \ {n} /\ \A x \in DOMAIN g : g[x] = f[x]
      /\ g = [x \in DOMAIN g |-> g[x]]
  BY DEF Without
<1>2. IsFiniteSet(DOMAIN g)
  BY <1>1, FS_RemoveElement DEF Stored
<1> HIDE DEF g
<1>3. g \in [DOMAIN g -> SnapshotRows]
  BY <1>1 DEF Stored
<1>4. PgDelete(rows, n) = {g[x] : x \in DOMAIN g}
  BY <1>1 DEF PgDelete, Named, Stored
<1>5. QED
  BY <1>1, <1>2, <1>3, <1>4 DEF Stored, MemDelete, g

\* UPDATE ... SET status, and the assignment to the record's field.
LEMMA StoredStatus ==
    ASSUME NEW rows, NEW f, Stored(rows, f), NEW n, NEW st \in Statuses
    PROVE  Stored(PgSetStatus(rows, n, st), MemSetStatus(f, n, st))
<1> DEFINE g == MemSetStatus(f, n, st)
           Set(r) == IF r.name = n THEN [r EXCEPT !.status = st] ELSE r
<1>1. /\ DOMAIN g = DOMAIN f
      /\ \A x \in DOMAIN f : g[x] = Set(f[x])
      /\ g = [x \in DOMAIN g |-> g[x]]
  BY DEF MemSetStatus, Stored
<1>2. \A r \in SnapshotRows : Set(r) \in SnapshotRows /\ Set(r).name = r.name
  BY DEF SnapshotRows
<1>3. PgSetStatus(rows, n, st) = {Set(r) : r \in rows}
  BY DEF PgSetStatus
<1> HIDE DEF g, Set
<1>4. g \in [DOMAIN g -> SnapshotRows]
  BY <1>1, <1>2 DEF Stored
<1>5. \A x \in DOMAIN g : g[x].name = x
  BY <1>1, <1>2 DEF Stored
<1>6. {Set(r) : r \in rows} = {g[x] : x \in DOMAIN g}
  BY <1>1 DEF Stored
<1>7. QED
  BY <1>1, <1>3, <1>4, <1>5, <1>6 DEF Stored, g

-----------------------------------------------------------------------------
(* The calls of the connector store.                                        *)

\* A name has a row where it has a record.
LEMMA KeptNamed ==
    ASSUME NEW rows, NEW f, NEW gone, Kept(rows, f, gone), NEW n
    PROVE  Named(rows, n) # {} <=> n \in DOMAIN f
  BY DEF Kept, Named

\* Each record is under its name.
LEMMA KeptRecords ==
    ASSUME NEW rows, NEW f, NEW gone, Kept(rows, f, gone)
    PROVE  \A n \in DOMAIN f : f[n] \in ConnectorRows /\ f[n].name = n
<1> SUFFICES ASSUME NEW n \in DOMAIN f PROVE f[n] \in ConnectorRows /\ f[n].name = n
  OBVIOUS
<1>1. PICK r \in rows : r.name = n
  BY DEF Kept
<1>2. r \in ConnectorRows /\ f[n] = Seen(r, gone) /\ f[n] \in ConnectorRows
  BY <1>1 DEF Kept
<1>3. Seen(r, gone).name = r.name
  BY <1>2 DEF Seen, ConnectorRows
<1>4. QED
  BY <1>1, <1>2, <1>3

\* INSERT ... ON CONFLICT DO UPDATE keeps the ping of a row that is there; the
\* map gets the whole new record.
LEMMA KeptUpsert ==
    ASSUME NEW rows, NEW f, NEW gone, Kept(rows, f, gone), NEW n \in Names,
           NEW st \in Statuses
    PROVE  Kept(PgUpsert(rows, n, st), MemUpsert(f, n, st), gone \cup {n})
<1> DEFINE new == [name |-> n, status |-> st, ping |-> NoPing]
           g == MemUpsert(f, n, st)
           Set(r) == IF r.name = n THEN [r EXCEPT !.status = st] ELSE r
           all == PgUpsert(rows, n, st)
<1>1. /\ DOMAIN g = DOMAIN f \cup {n} /\ g[n] = new
      /\ \A x \in DOMAIN f : x # n => g[x] = f[x]
      /\ g = [x \in DOMAIN g |-> g[x]]
  BY DEF MemUpsert, With
<1>2. new \in ConnectorRows /\ Seen(new, gone \cup {n}) = new
  BY DEF ConnectorRows, Seen
<1>3. \A r \in ConnectorRows :
         /\ Set(r) \in ConnectorRows /\ Set(r).name = r.name
         /\ r.name = n => Seen(Set(r), gone \cup {n}) = new
         /\ r.name # n => Seen(r, gone \cup {n}) = Seen(r, gone)
  BY DEF ConnectorRows, Seen
<1>4. all = IF Named(rows, n) = {} THEN rows \cup {new} ELSE {Set(r) : r \in rows}
  BY DEF PgUpsert, PgSetStatus
<1>5. \A r \in rows : r.name # n => Set(r) = r
  OBVIOUS
<1> HIDE DEF new, g, Set, all
<1>6. g \in [DOMAIN g -> ConnectorRows]
  BY <1>1, <1>2 DEF Kept
<1>7. CASE Named(rows, n) = {}
  <2>1. all = rows \cup {new} /\ new.name = n /\ \A r \in rows : r.name # n
    BY <1>4, <1>7 DEF new, Named
  <2>2. ASSUME NEW r \in all
        PROVE  r.name \in DOMAIN g /\ g[r.name] = Seen(r, gone \cup {n})
    <3>1. CASE r = new
      BY <1>1, <1>2, <2>1, <3>1
    <3>2. CASE r \in rows
      <4>1. r \in ConnectorRows /\ r.name \in DOMAIN f /\ r.name # n
            /\ f[r.name] = Seen(r, gone)
        BY <2>1, <3>2 DEF Kept
      <4>2. QED
        BY <1>1, <1>3, <4>1
    <3>3. QED
      BY <2>1, <3>1, <3>2
  <2>3. \A x \in DOMAIN g : \E r \in all : r.name = x
    BY <1>1, <2>1 DEF Kept
  <2>4. all \subseteq ConnectorRows /\ \A r, s \in all : r.name = s.name => r = s
    BY <1>2, <2>1 DEF Kept
  <2>5. QED
    BY <1>6, <2>2, <2>3, <2>4 DEF Kept, g, all
<1>8. CASE Named(rows, n) # {}
  <2>1. all = {Set(r) : r \in rows} /\ n \in DOMAIN f
    BY <1>4, <1>8, KeptNamed
  <2>2. \A r \in rows : /\ Set(r).name \in DOMAIN g
                        /\ g[Set(r).name] = Seen(Set(r), gone \cup {n})
    <3> SUFFICES ASSUME NEW r \in rows
                 PROVE  /\ Set(r).name \in DOMAIN g
                        /\ g[Set(r).name] = Seen(Set(r), gone \cup {n})
      OBVIOUS
    <3>1. r \in ConnectorRows /\ r.name \in DOMAIN f /\ f[r.name] = Seen(r, gone)
      BY DEF Kept
    <3>2. CASE r.name = n
      BY <1>1, <1>3, <3>1, <3>2
    <3>3. CASE r.name # n
      <4>1. Set(r) = r
        BY <1>5, <3>3
      <4>2. QED
        BY <1>1, <1>3, <3>1, <3>3, <4>1
    <3>4. QED
      BY <3>2, <3>3
  <2>3. \A x \in DOMAIN g : \E r \in all : r.name = x
    <3> SUFFICES ASSUME NEW x \in DOMAIN f PROVE \E r \in all : r.name = x
      BY <1>1, <2>1
    <3>1. PICK r \in rows : r.name = x
      BY DEF Kept
    <3>2. Set(r) \in all /\ Set(r).name = x
      BY <1>3, <2>1, <3>1 DEF Kept
    <3>3. QED
      BY <3>2
  <2>4. all \subseteq ConnectorRows
    BY <1>3, <2>1 DEF Kept
  <2>5. \A r, s \in rows : Set(r).name = Set(s).name => Set(r) = Set(s)
    BY <1>3 DEF Kept
  <2>6. \A r, s \in all : r.name = s.name => r = s
    BY <2>1, <2>5
  <2>7. \A r \in all : r.name \in DOMAIN g /\ g[r.name] = Seen(r, gone \cup {n})
    BY <2>1, <2>2
  <2>8. QED
    BY <1>6, <2>3, <2>4, <2>6, <2>7 DEF Kept, g, all
<1>9. QED
  BY <1>7, <1>8

\* set updates one field of rows and records; all and g are rows and f after it.
Updated(set, rows, f, gone, kept, all, g) ==
    /\ \A r \in ConnectorRows :
          set[r] \in ConnectorRows /\ set[r].name = r.name
          /\ set[Seen(r, gone)] = Seen(set[r], kept)
    /\ \A r \in rows : set[r] \in all
    /\ \A r \in all : \E q \in rows : r = set[q]
    /\ g \in [DOMAIN f -> ConnectorRows]
    /\ \A x \in DOMAIN f : g[x] = set[f[x]]

\* An UPDATE of one field and the assignment to it keep what rows and records
\* are to each other, if it means the same for both.
LEMMA KeptUpdate ==
    ASSUME NEW rows, NEW f, NEW gone, Kept(rows, f, gone), NEW kept,
           NEW set, NEW all, NEW g, Updated(set, rows, f, gone, kept, all, g)
    PROVE  Kept(all, g, kept)
<1> USE DEF Updated
<1>1. DOMAIN g = DOMAIN f /\ \A x \in DOMAIN f : g[x] = set[f[x]]
  OBVIOUS
<1>2. g \in [DOMAIN g -> ConnectorRows]
  BY <1>1 DEF Kept
<1>3. \A r \in rows : /\ set[r] \in ConnectorRows /\ set[r].name = r.name
                      /\ r.name \in DOMAIN g /\ g[r.name] = Seen(set[r], kept)
  BY <1>1 DEF Kept
<1>4. \A x \in DOMAIN g : \E r \in rows : set[r].name = x
  BY <1>1 DEF Kept
<1>5. \A r, s \in rows : set[r].name = set[s].name => set[r] = set[s]
  BY DEF Kept
<1>6. \A r \in all : \E q \in rows : r = set[q]
  OBVIOUS
<1>7. \A q \in rows : set[q] \in all
  OBVIOUS
<1>8. all \subseteq ConnectorRows /\ \A r \in all : r.name \in DOMAIN g
  BY <1>3, <1>6
<1>9. \A r \in all : g[r.name] = Seen(r, kept)
  BY <1>3, <1>6
<1>10. \A x \in DOMAIN g : \E r \in all : r.name = x
  BY <1>4, <1>7
<1>11. \A r, s \in all : r.name = s.name => r = s
  BY <1>5, <1>6
<1>12. QED
  BY <1>2, <1>8, <1>9, <1>10, <1>11 DEF Kept

\* UPDATE ... SET status.
LEMMA KeptStatus ==
    ASSUME NEW rows, NEW f, NEW gone, Kept(rows, f, gone), NEW n, NEW st \in Statuses
    PROVE  Kept(PgSetStatus(rows, n, st), MemSetStatus(f, n, st), gone)
<1> DEFINE set == [r \in ConnectorRows |->
                     IF r.name = n THEN [r EXCEPT !.status = st] ELSE r]
           all == PgSetStatus(rows, n, st)
           g == MemSetStatus(f, n, st)
<1>1. set \in [ConnectorRows -> ConnectorRows]
  BY DEF ConnectorRows
<1>2. \A r \in ConnectorRows :
         set[r] = IF r.name = n THEN [r EXCEPT !.status = st] ELSE r
  OBVIOUS
<1> HIDE DEF set
<1>3. ASSUME NEW r \in ConnectorRows
      PROVE  /\ set[r] \in ConnectorRows /\ set[r].name = r.name
             /\ set[Seen(r, gone)] = Seen(set[r], gone)
  <2>1. Seen(r, gone) \in ConnectorRows /\ Seen(r, gone).name = r.name
    BY DEF Seen, ConnectorRows
  <2>2. set[r] \in ConnectorRows /\ set[r].name = r.name
    BY <1>2 DEF ConnectorRows
  <2>3. CASE r.name = n
    <3>1. set[Seen(r, gone)] = [Seen(r, gone) EXCEPT !.status = st]
          /\ set[r] = [r EXCEPT !.status = st]
      BY <1>2, <2>1, <2>3
    <3>2. QED
      BY <2>2, <3>1 DEF Seen, ConnectorRows
  <2>4. CASE r.name # n
    BY <1>2, <2>1, <2>4
  <2>5. QED
    BY <2>2, <2>3, <2>4
<1>4. \A r \in rows : r \in ConnectorRows
  BY DEF Kept
<1>5. all = {IF r.name = n THEN [r EXCEPT !.status = st] ELSE r : r \in rows}
  BY DEF PgSetStatus
<1>6. \A r \in rows : set[r] \in all
  BY <1>2, <1>4, <1>5
<1>7. \A r \in all : \E q \in rows : r = set[q]
  BY <1>2, <1>4, <1>5
<1>8. \A x \in DOMAIN f : f[x] \in ConnectorRows /\ f[x].name = x
  BY KeptRecords
<1>9. f \in [DOMAIN f -> ConnectorRows]
  BY DEF Kept
<1>10. DOMAIN g = DOMAIN f /\ \A x \in DOMAIN f : g[x] = set[f[x]]
  BY <1>2, <1>8, <1>9 DEF MemSetStatus
<1>11. g \in [DOMAIN f -> ConnectorRows]
  BY <1>1, <1>8, <1>9, <1>10 DEF MemSetStatus
<1> HIDE DEF all, g
<1>12. Updated(set, rows, f, gone, gone, all, g)
  BY <1>3, <1>6, <1>7, <1>10, <1>11 DEF Updated
<1>13. QED
  BY <1>12, KeptUpdate DEF all, g

\* UPDATE ... SET last_ping: the ping of the name is known again.
LEMMA KeptPing ==
    ASSUME NEW rows, NEW f, NEW gone, Kept(rows, f, gone), NEW n, NEW t \in Times
    PROVE  Kept(PgSetPing(rows, n, t), MemSetPing(f, n, t), gone \ {n})
<1> DEFINE set == [r \in ConnectorRows |->
                     IF r.name = n THEN [r EXCEPT !.ping = t] ELSE r]
           all == PgSetPing(rows, n, t)
           g == MemSetPing(f, n, t)
<1>1. set \in [ConnectorRows -> ConnectorRows]
  BY DEF ConnectorRows
<1>2. \A r \in ConnectorRows :
         set[r] = IF r.name = n THEN [r EXCEPT !.ping = t] ELSE r
  OBVIOUS
<1> HIDE DEF set
<1>3. ASSUME NEW r \in ConnectorRows
      PROVE  /\ set[r] \in ConnectorRows /\ set[r].name = r.name
             /\ set[Seen(r, gone)] = Seen(set[r], gone \ {n})
  <2>1. Seen(r, gone) \in ConnectorRows /\ Seen(r, gone).name = r.name
    BY DEF Seen, ConnectorRows
  <2>2. set[r] \in ConnectorRows /\ set[r].name = r.name
    BY <1>2 DEF ConnectorRows
  <2>3. CASE r.name = n
    <3>1. set[Seen(r, gone)] = [Seen(r, gone) EXCEPT !.ping = t]
          /\ set[r] = [r EXCEPT !.ping = t]
      BY <1>2, <2>1, <2>3
    <3>2. QED
      BY <2>2, <2>3, <3>1 DEF Seen, ConnectorRows
  <2>4. CASE r.name # n
    <3>1. set[Seen(r, gone)] = Seen(r, gone) /\ set[r] = r
      BY <1>2, <2>1, <2>4
    <3>2. QED
      BY <2>2, <2>4, <3>1 DEF Seen
  <2>5. QED
    BY <2>2, <2>3, <2>4
<1>4. \A r \in rows : r \in ConnectorRows
  BY DEF Kept
<1>5. all = {IF r.name = n THEN [r EXCEPT !.ping = t] ELSE r : r \in rows}
  BY DEF PgSetPing
<1>6. \A r \in rows : set[r] \in all
  BY <1>2, <1>4, <1>5
<1>7. \A r \in all : \E q \in rows : r = set[q]
  BY <1>2, <1>4, <1>5
<1>8. \A x \in DOMAIN f : f[x] \in ConnectorRows /\ f[x].name = x
  BY KeptRecords
<1>9. f \in [DOMAIN f -> ConnectorRows]
  BY DEF Kept
<1>10. DOMAIN g = DOMAIN f /\ \A x \in DOMAIN f : g[x] = set[f[x]]
  BY <1>2, <1>8, <1>9 DEF MemSetPing
<1>11. g \in [DOMAIN f -> ConnectorRows]
  BY <1>1, <1>8, <1>9, <1>10 DEF MemSetPing
<1> HIDE DEF all, g
<1>12. Updated(set, rows, f, gone, gone \ {n}, all, g)
  BY <1>3, <1>6, <1>7, <1>10, <1>11 DEF Updated
<1>13. QED
  BY <1>12, KeptUpdate DEF all, g

\* DELETE, and delete().
LEMMA KeptDelete ==
    ASSUME NEW rows, NEW f, NEW gone, Kept(rows, f, gone), NEW n
    PROVE  Kept(PgDelete(rows, n), MemDelete(f, n), gone \ {n})
<1> DEFINE g == Without(f, n)
           rest == PgDelete(rows, n)
<1>1. /\ DOMAIN g = DOMAIN f \ {n} /\ \A x \in DOMAIN g : g[x] = f[x]
      /\ g = [x \in DOMAIN g |-> g[x]]
  BY DEF Without
<1>2. \A r : r \in rest <=> r \in rows /\ r.name # n
  BY DEF PgDelete, Named
<1> HIDE DEF g, rest
<1>3. g \in [DOMAIN g -> ConnectorRows]
  BY <1>1 DEF Kept
<1>4. ASSUME NEW r \in rest
      PROVE  r.name \in DOMAIN g /\ g[r.name] = Seen(r, gone \ {n})
  <2>1. r \in ConnectorRows /\ r.name \in DOMAIN f /\ r.name # n
        /\ f[r.name] = Seen(r, gone)
    BY <1>2 DEF Kept
  <2>2. Seen(r, gone \ {n}) = Seen(r, gone)
    BY <2>1 DEF Seen
  <2>3. QED
    BY <1>1, <2>1, <2>2
<1>5. rest \subseteq ConnectorRows /\ \A r, s \in rest : r.name = s.name => r = s
  BY <1>2 DEF Kept
<1>6. \A x \in DOMAIN g : \E r \in rest : r.name = x
  BY <1>1, <1>2 DEF Kept
<1>7. QED
  BY <1>3, <1>4, <1>5, <1>6 DEF Kept, MemDelete, g, rest

-----------------------------------------------------------------------------
(* Every sequence of calls.                                                 *)

\* Both answer a call on a name alike.
LEMMA SameAnswers ==
    ASSUME NEW rows, NEW f, NEW n, Named(rows, n) # {} <=> n \in DOMAIN f
    PROVE  Exists(rows, n) = Present(f, n) /\ Rows(rows, n) = Found(f, n)
  BY DEF Exists, Present, Rows, Found

\* Nothing is stored.
LEMMA RepositoryStart == Init => RepositoryInv
<1> SUFFICES ASSUME Init PROVE RepositoryInv
  OBVIOUS
<1>1. DOMAIN <<>> = {}
  OBVIOUS
<1>2. Stored({}, <<>>)
  BY <1>1, FS_EmptySet DEF Stored
<1>3. Kept({}, <<>>, {})
  BY <1>1 DEF Kept
<1>4. QED
  BY <1>2, <1>3 DEF Init, RepositoryInv, AnswersAgree

\* Every call does the same to both, or the store is one that was given a value
\* PostgreSQL refuses.
LEMMA RepositoryStep == RepositoryInv /\ [Next]_vars => RepositoryInv'
<1> SUFFICES ASSUME RepositoryInv, [Next]_vars PROVE RepositoryInv'
  OBVIOUS
<1> DEFINE ps == pg.snapshots
           ms == mem.snapshots
           pc == pg.connectors
           mc == mem.connectors
<1>1. /\ "snapshots" \in refused \/ Stored(ps, ms)
      /\ "connectors" \in refused \/ Kept(pc, mc, cleared)
      /\ pg = [pg EXCEPT !.snapshots = ps] /\ pg = [pg EXCEPT !.connectors = pc]
  BY DEF RepositoryInv
<1>2. ASSUME "snapshots" \notin refused, NEW n PROVE Named(ps, n) # {} <=> n \in DOMAIN ms
  BY <1>1, <1>2, StoredNamed
<1>3. ASSUME "connectors" \notin refused, NEW n PROVE Named(pc, n) # {} <=> n \in DOMAIN mc
  BY <1>1, <1>3, KeptNamed
<1>4. ASSUME NEW s, NEW t, pg' = [pg EXCEPT !.snapshots = s],
             mem' = [mem EXCEPT !.snapshots = t],
             "snapshots" \in refused' \/ Stored(s, t),
             UNCHANGED cleared, refused \subseteq refused', AnswersAgree'
      PROVE  RepositoryInv'
  <2>1. /\ pg' = [snapshots |-> s, connectors |-> pg.connectors,
                  logs |-> pg.logs, versions |-> pg.versions]
        /\ mem' = [snapshots |-> t, connectors |-> mem.connectors,
                   logs |-> mem.logs, versions |-> mem.versions]
    BY <1>4 DEF RepositoryInv
  <2>2. QED
    BY <1>1, <1>4, <2>1 DEF RepositoryInv
<1>5. ASSUME NEW s, NEW t, pg' = [pg EXCEPT !.connectors = s],
             mem' = [mem EXCEPT !.connectors = t],
             "connectors" \in refused' \/ Kept(s, t, cleared'),
             refused \subseteq refused', AnswersAgree'
      PROVE  RepositoryInv'
  <2>1. /\ pg' = [snapshots |-> pg.snapshots, connectors |-> s,
                  logs |-> pg.logs, versions |-> pg.versions]
        /\ mem' = [snapshots |-> mem.snapshots, connectors |-> t,
                   logs |-> mem.logs, versions |-> mem.versions]
    BY <1>5 DEF RepositoryInv
  <2>2. QED
    BY <1>1, <1>5, <2>1 DEF RepositoryInv
<1>6. ASSUME NEW store, NEW a, NEW b, answer' = [store |-> store, pg |-> a, mem |-> b],
             store \in refused' \/ a = b
      PROVE  AnswersAgree'
  BY <1>6 DEF AnswersAgree
<1>7. ASSUME NEW n \in Names, NEW t \in Times, CreateSnapshot(n, t)
      PROVE  RepositoryInv'
  <2>1. AnswersAgree'
    BY <1>2, <1>6, <1>7, SameAnswers DEF CreateSnapshot, Answers
  <2>2. "snapshots" \in refused \/ Stored(PgSnapshotCreate(ps, n, t), MemSnapshotCreate(ms, n, t))
    BY <1>1, StoredCreate
  <2>3. QED
    BY <1>4, <1>7, <2>1, <2>2 DEF CreateSnapshot
<1>8. ASSUME NEW n \in Names, DeleteSnapshot(n) PROVE RepositoryInv'
  <2>1. AnswersAgree'
    BY <1>2, <1>6, <1>8, SameAnswers DEF DeleteSnapshot, Answers
  <2>2. "snapshots" \in refused \/ Stored(PgDelete(ps, n), MemDelete(ms, n))
    BY <1>1, StoredDelete
  <2>3. QED
    BY <1>4, <1>8, <2>1, <2>2 DEF DeleteSnapshot
<1>9. ASSUME NEW n \in Names, NEW st \in Statuses, UpdateSnapshotStatus(n, st)
      PROVE  RepositoryInv'
  <2>1. AnswersAgree'
    BY <1>2, <1>6, <1>9, SameAnswers DEF UpdateSnapshotStatus, Answers
  <2>2. "snapshots" \in refused \/ Stored(PgSetStatus(ps, n, st), MemSetStatus(ms, n, st))
    BY <1>1, StoredStatus
  <2>3. QED
    BY <1>4, <1>9, <2>1, <2>2 DEF UpdateSnapshotStatus
<1>10. ASSUME NEW n \in Names, NEW st \in Statuses, Upsert(n, st) PROVE RepositoryInv'
  <2>1. AnswersAgree'
    BY <1>3, <1>6, <1>10, SameAnswers DEF Upsert, Answers
  <2>2. "connectors" \in refused \/ Kept(PgUpsert(pc, n, st), MemUpsert(mc, n, st), cleared \cup {n})
    BY <1>1, KeptUpsert
  <2>3. QED
    BY <1>5, <1>10, <2>1, <2>2 DEF Upsert
<1>11. ASSUME NEW n \in Names, NEW st \in Statuses, UpdateConnectorStatus(n, st)
      PROVE  RepositoryInv'
  <2>1. AnswersAgree'
    BY <1>3, <1>6, <1>11, SameAnswers DEF UpdateConnectorStatus, Answers
  <2>2. "connectors" \in refused \/ Kept(PgSetStatus(pc, n, st), MemSetStatus(mc, n, st), cleared)
    BY <1>1, KeptStatus
  <2>3. QED
    BY <1>5, <1>11, <2>1, <2>2 DEF UpdateConnectorStatus
<1>12. ASSUME NEW n \in Names, NEW t \in Times, UpdateLastPing(n, t)
      PROVE  RepositoryInv'
  <2>1. AnswersAgree'
    BY <1>3, <1>6, <1>12, SameAnswers DEF UpdateLastPing, Answers
  <2>2. "connectors" \in refused \/ Kept(PgSetPing(pc, n, t), MemSetPing(mc, n, t), cleared \ {n})
    BY <1>1, KeptPing
  <2>3. QED
    BY <1>5, <1>12, <2>1, <2>2 DEF UpdateLastPing
<1>13. ASSUME NEW n \in Names, DeleteConnector(n) PROVE RepositoryInv'
  <2>1. AnswersAgree'
    BY <1>3, <1>6, <1>13, SameAnswers DEF DeleteConnector, Answers
  <2>2. "connectors" \in refused \/ Kept(PgDelete(pc, n), MemDelete(mc, n), cleared \ {n})
    BY <1>1, KeptDelete
  <2>3. QED
    BY <1>5, <1>13, <2>1, <2>2 DEF DeleteConnector
<1>14. ASSUME NEW ty \in SyncTypes, NEW t \in Times, CreateLog(ty, t)
      PROVE  RepositoryInv'
  <2>1. AnswersAgree'
    BY <1>6, <1>14 DEF CreateLog, Answers
  <2>2. QED
    BY <1>14, <2>1 DEF CreateLog, RepositoryInv
<1>15. ASSUME NEW v \in Versions, CreateVersion(v) PROVE RepositoryInv'
  <2>1. AnswersAgree'
    BY <1>6, <1>15 DEF CreateVersion, Answers, AnswersAgree
  <2>2. QED
    BY <1>15, <2>1 DEF CreateVersion, RepositoryInv
<1>16. ASSUME NEW n \in Names, NEW t \in Times, RefuseSnapshot(n, t)
      PROVE  RepositoryInv'
  <2>1. AnswersAgree'
    BY <1>6, <1>16 DEF RefuseSnapshot, Refuse, Answers
  <2>2. QED
    BY <1>1, <1>4, <1>16, <2>1 DEF RefuseSnapshot, Refuse
<1>17. ASSUME NEW n \in Names, NEW st \in Statuses, RefuseSnapshotStatus(n, st)
      PROVE  RepositoryInv'
  <2>1. AnswersAgree'
    BY <1>6, <1>17 DEF RefuseSnapshotStatus, Refuse, Answers
  <2>2. QED
    BY <1>1, <1>4, <1>17, <2>1 DEF RefuseSnapshotStatus, Refuse
<1>18. ASSUME NEW n \in Names, NEW st \in Statuses, RefuseUpsert(n, st)
      PROVE  RepositoryInv'
  <2>1. AnswersAgree'
    BY <1>6, <1>18 DEF RefuseUpsert, Refuse, Answers
  <2>2. QED
    BY <1>1, <1>5, <1>18, <2>1 DEF RefuseUpsert, Refuse
<1>19. ASSUME NEW n \in Names, NEW st \in Statuses, RefuseConnectorStatus(n, st)
      PROVE  RepositoryInv'
  <2>1. AnswersAgree'
    BY <1>6, <1>19 DEF RefuseConnectorStatus, Refuse, Answers
  <2>2. QED
    BY <1>1, <1>5, <1>19, <2>1 DEF RefuseConnectorStatus, Refuse
<1>20. ASSUME NEW ty \in SyncTypes, NEW t \in Times, RefuseLog(ty, t)
      PROVE  RepositoryInv'
  <2>1. AnswersAgree'
    BY <1>6, <1>20 DEF RefuseLog, Refuse, Answers
  <2>2. QED
    BY <1>20, <2>1 DEF RefuseLog, Refuse, RepositoryInv
<1>21. ASSUME NEW v \in Versions, RefuseVersion(v) PROVE RepositoryInv'
  <2>1. AnswersAgree'
    BY <1>6, <1>21 DEF RefuseVersion, Refuse, Answers
  <2>2. QED
    BY <1>21, <2>1 DEF RefuseVersion, Refuse, RepositoryInv
<1>22. CASE UNCHANGED vars
  BY <1>22 DEF vars, RepositoryInv, AnswersAgree
<1>23. QED
  BY <1>7, <1>8, <1>9, <1>10, <1>11, <1>12, <1>13, <1>14,
     <1>15, <1>16, <1>17, <1>18, <1>19, <1>20, <1>21, <1>22 DEF Next

\* The invariant in every reachable state.
LEMMA RepositorySafe == Spec => []RepositoryInv
  BY RepositoryStart, RepositoryStep, PTL DEF Spec

\* No sequence of calls lets a caller tell by the errors which implementation
\* it was given, except by recording a schema version twice, or by giving the
\* store a value that PostgreSQL's columns do not take.
THEOREM AnswersAreAlike == Spec => []AnswersAgree
<1>1. RepositoryInv => AnswersAgree
  BY DEF RepositoryInv
<1>2. QED
  BY <1>1, RepositorySafe, PTL

\* The connector lists agree but for the pings an Upsert forgets, as long as
\* every value given to the store is one that PostgreSQL takes.
THEOREM ConnectorsAreAlike == Spec => []("connectors" \in refused \/ ConnectorsAgree)
<1>1. RepositoryInv => "connectors" \in refused \/ ConnectorsAgree
  <2> SUFFICES ASSUME RepositoryInv, "connectors" \notin refused PROVE ConnectorsAgree
    OBVIOUS
  <2> DEFINE rows == pg.connectors
             f == mem.connectors
  <2>1. Kept(rows, f, cleared)
    BY DEF RepositoryInv
  <2>2. {f[n] : n \in DOMAIN f} = {Seen(r, cleared) : r \in rows}
    BY <2>1 DEF Kept
  <2>3. {Seen(r, cleared) : r \in rows}
          = {[r EXCEPT !.ping = IF r.name \in cleared THEN NoPing ELSE @] : r \in rows}
    BY DEF Seen
  <2>4. QED
    BY <2>2, <2>3 DEF ConnectorsAgree, MemConnectorList, PgConnectorList
<1>2. QED
  BY <1>1, RepositorySafe, PTL

-----------------------------------------------------------------------------
(* The lists of the snapshots, with every order of equal times.             *)

\* Induction over an interval, from the pigeonhole principle: if D has 0 and
\* with each number below n the next one, but not n, then going one up in D is
\* an injection of 0 .. n into 1 .. n.
LEMMA Steps ==
    ASSUME NEW n \in Nat, NEW D, 0 \in D, \A k \in 0 .. n - 1 : k \in D => k + 1 \in D
    PROVE  n \in D
<1> SUFFICES ASSUME n \notin D PROVE FALSE
  OBVIOUS
<1> DEFINE f == [x \in 0 .. n |-> IF x \in D THEN x + 1 ELSE x]
<1>1. f \in [0 .. n -> 1 .. n]
  <2> SUFFICES ASSUME NEW x \in 0 .. n
               PROVE  (IF x \in D THEN x + 1 ELSE x) \in 1 .. n
    OBVIOUS
  <2>1. x \in D => x # n
    OBVIOUS
  <2>2. x \notin D => x # 0
    OBVIOUS
  <2>3. QED
    BY <2>1, <2>2
<1>2. /\ IsFiniteSet(0 .. n) /\ IsFiniteSet(1 .. n)
      /\ Cardinality(1 .. n) < Cardinality(0 .. n)
  <2>1. 0 \in Int /\ 1 \in Int /\ n \in Int
    OBVIOUS
  <2>2. IsFiniteSet(0 .. n) /\ Cardinality(0 .. n) = IF 0 > n THEN 0 ELSE n - 0 + 1
    BY <2>1, FS_Interval
  <2>3. IsFiniteSet(1 .. n) /\ Cardinality(1 .. n) = IF 1 > n THEN 0 ELSE n - 1 + 1
    BY <2>1, FS_Interval
  <2>4. QED
    BY <2>2, <2>3
<1>3. \A x \in 0 .. n : f[x] = IF x \in D THEN x + 1 ELSE x
  OBVIOUS
<1>4. PICK x, y \in 0 .. n : x # y /\ f[x] = f[y]
  <2> HIDE DEF f
  <2>1. QED
    BY <1>1, <1>2, FS_PigeonHole
<1>5. QED
  <2> HIDE DEF f
  <2>1. (x \in D /\ y \notin D) \/ (x \notin D /\ y \in D)
    BY <1>3, <1>4
  <2>2. x \in Int /\ y \in Int
    OBVIOUS
  <2>3. ASSUME x \in D, y \notin D PROVE FALSE
    BY <1>3, <1>4, <2>2, <2>3
  <2>4. ASSUME y \in D, x \notin D PROVE FALSE
    BY <1>3, <1>4, <2>2, <2>4
  <2>5. QED
    BY <2>1, <2>3, <2>4

\* What never rises from one place to the next never rises.
LEMMA NeverRises ==
    ASSUME NEW n \in Nat, NEW v, \A i \in 1 .. n : v[i] \in Nat,
           \A i \in 1 .. n - 1 : v[i] >= v[i + 1]
    PROVE  \A i, j \in 1 .. n : i < j => v[i] >= v[j]
<1> SUFFICES ASSUME NEW i \in 1 .. n, NEW j \in 1 .. n, i < j PROVE v[i] >= v[j]
  OBVIOUS
<1> DEFINE D == {k \in 0 .. j - i : v[i] >= v[i + k]}
<1>1. j - i \in Nat /\ i + 0 = i /\ i + (j - i) = j
  OBVIOUS
<1>2. 0 \in D
  BY <1>1
<1>3. ASSUME NEW k \in 0 .. (j - i) - 1, k \in D PROVE k + 1 \in D
  <2>1. i + k \in 1 .. n - 1 /\ i + (k + 1) = (i + k) + 1 /\ k + 1 \in 0 .. j - i
    OBVIOUS
  <2>2. v[i] >= v[i + k] /\ v[i + k] >= v[i + k + 1]
    BY <1>3, <2>1
  <2>3. v[i] \in Nat /\ v[i + k] \in Nat /\ v[i + k + 1] \in Nat
    BY <2>1
  <2>4. QED
    BY <2>1, <2>2, <2>3
<1>4. j - i \in D
  <2> HIDE DEF D
  <2>1. QED
    BY <1>1, <1>2, <1>3, Steps
<1>5. QED
  BY <1>1, <1>4

\* An enumeration of a finite set without repetition leaves nothing out.
LEMMA Enumerations ==
    ASSUME NEW S, IsFiniteSet(S), NEW f \in SetToSeqs(S)
    PROVE  /\ Cardinality(S) \in Nat
           /\ f \in [1 .. Cardinality(S) -> S]
           /\ \A i, j \in 1 .. Cardinality(S) : f[i] = f[j] => i = j
           /\ \A x \in S : \E i \in 1 .. Cardinality(S) : f[i] = x
<1> DEFINE N == Cardinality(S)
<1>1. N \in Nat
  BY FS_CardinalityType
<1>2. f \in [1 .. N -> S] /\ \A i, j \in 1 .. N : f[i] = f[j] => i = j
  BY DEF SetToSeqs
<1>3. f \in Injection(1 .. N, S)
  BY <1>2 DEF Injection, IsInjective
<1>4. Cardinality(1 .. N) = N
  BY <1>1, FS_Interval
<1>5. f \in Surjection(1 .. N, S)
  BY <1>3, <1>4, FS_Injection
<1>6. QED
  BY <1>1, <1>2, <1>5 DEF Surjection

\* SetToSeq is one of the enumerations.
LEMMA Enumeration ==
    ASSUME NEW S, IsFiniteSet(S)
    PROVE  SetToSeq(S) \in SetToSeqs(S)
<1> DEFINE N == Cardinality(S)
<1>1. \E f \in [1 .. N -> S] : IsInjective(f)
  <2>1. ExistsBijection(1 .. N, S)
    BY FS_CardinalityType
  <2>2. QED
    BY <2>1 DEF ExistsBijection, Bijection, Injection
<1>2. SetToSeq(S) \in [1 .. N -> S] /\ IsInjective(SetToSeq(S))
  BY <1>1 DEF SetToSeq
<1>3. QED
  BY <1>2 DEF SetToSeqs, IsInjective

\* The map and sort.Slice may return every list ORDER BY at DESC allows, and
\* no other.
LEMMA SortsAll ==
    ASSUME NEW rows, IsFiniteSet(rows), rows \subseteq SnapshotRows
    PROVE  PgSnapshotList(rows) = Sorts(SetToSeq(rows), "at")
<1> DEFINE N == Cardinality(rows)
           s == SetToSeq(rows)
<1>1. /\ N \in Nat
      /\ s \in [1 .. N -> rows]
      /\ \A i, j \in 1 .. N : s[i] = s[j] => i = j
      /\ \A x \in rows : \E i \in 1 .. N : s[i] = x
  BY Enumeration, Enumerations
<1>2. DOMAIN s = 1 .. N /\ Len(s) = N /\ Cardinality(1 .. N) = N /\ IsFiniteSet(1 .. N)
  BY <1>1, FS_Interval
<1>3. \A r \in rows : r.at \in Nat
  BY RepositoryAssumption DEF SnapshotRows
<1> HIDE DEF s, N
<1>4. ASSUME NEW t \in PgSnapshotList(rows) PROVE t \in Sorts(s, "at")
  <2>1. /\ t \in [1 .. N -> rows]
        /\ \A i, j \in 1 .. N : t[i] = t[j] => i = j
        /\ \A i, j \in 1 .. N : i < j => t[i].at >= t[j].at
    BY Enumerations DEF PgSnapshotList, N
  <2> DEFINE p == [i \in 1 .. N |-> CHOOSE j \in 1 .. N : s[j] = t[i]]
  <2>2. \A i \in 1 .. N : p[i] \in 1 .. N /\ s[p[i]] = t[i]
    BY <1>1, <2>1
  <2>3. p \in [1 .. N -> 1 .. N]
    BY <2>2
  <2> HIDE DEF p
  <2>4. \A i, j \in 1 .. N : i # j => p[i] # p[j]
    BY <2>1, <2>2
  <2>5. p \in SetToSeqs(DOMAIN s)
    BY <1>2, <2>3, <2>4 DEF SetToSeqs
  <2>6. \A i \in 1 .. (Len(s) - 1) : s[p[i]].at >= s[p[i + 1]].at
    <3> SUFFICES ASSUME NEW i \in 1 .. (Len(s) - 1) PROVE s[p[i]].at >= s[p[i + 1]].at
      OBVIOUS
    <3>1. i \in 1 .. N /\ i + 1 \in 1 .. N /\ i < i + 1
      BY <1>1, <1>2
    <3>2. t[i].at >= t[i + 1].at
      BY <2>1, <3>1
    <3>3. s[p[i]] = t[i] /\ s[p[i + 1]] = t[i + 1]
      BY <2>2, <3>1
    <3>4. QED
      BY <3>2, <3>3
  <2>7. t = [i \in DOMAIN s |-> s[p[i]]]
    BY <1>2, <2>1, <2>2
  <2>8. QED
    BY <2>5, <2>6, <2>7 DEF Sorts
<1>5. ASSUME NEW t \in Sorts(s, "at") PROVE t \in PgSnapshotList(rows)
  <2>1. PICK p \in SetToSeqs(DOMAIN s) :
          /\ \A i \in 1 .. (Len(s) - 1) : s[p[i]].at >= s[p[i + 1]].at
          /\ t = [i \in DOMAIN s |-> s[p[i]]]
    BY DEF Sorts
  <2>2. p \in [1 .. N -> 1 .. N] /\ \A i, j \in 1 .. N : p[i] = p[j] => i = j
    BY <1>2, Enumerations
  <2>3. t \in [1 .. N -> rows] /\ \A i \in 1 .. N : t[i] = s[p[i]]
    BY <1>1, <1>2, <2>1, <2>2
  <2>4. \A i, j \in 1 .. N : i # j => t[i] # t[j]
    BY <1>1, <2>2, <2>3
  <2> DEFINE v == [i \in 1 .. N |-> t[i].at]
  <2>5. \A i \in 1 .. N : v[i] \in Nat
    BY <1>3, <2>3
  <2>6. \A i \in 1 .. N - 1 : v[i] >= v[i + 1]
    BY <1>1, <1>2, <2>1, <2>3
  <2>7. \A i, j \in 1 .. N : i < j => v[i] >= v[j]
    <3> HIDE DEF v
    <3>1. QED
      BY <1>1, <2>5, <2>6, NeverRises
  <2>8. \A i, j \in DOMAIN t : i < j => t[i].at >= t[j].at
    BY <2>3, <2>7
  <2>9. t \in SetToSeqs(rows)
    BY <2>3, <2>4 DEF SetToSeqs, N
  <2>10. QED
    BY <2>8, <2>9 DEF PgSnapshotList
<1>6. QED
  BY <1>4, <1>5 DEF s

\* A finite map has finitely many records.
LEMMA StoredFinite ==
    ASSUME NEW rows, NEW f, Stored(rows, f)
    PROVE  IsFiniteSet(rows) /\ rows \subseteq SnapshotRows
<1>1. f \in Surjection(DOMAIN f, rows)
  BY DEF Surjection, Stored
<1>2. IsFiniteSet(DOMAIN f)
  BY DEF Stored
<1>3. IsFiniteSet(rows)
  BY <1>1, <1>2, FS_Surjection
<1>4. QED
  BY <1>3 DEF Stored

\* After any sequence of calls, with any number of snapshots and any ties of
\* their times: the same lists are possible, and the same record is found, as
\* long as every value given to the store is one that PostgreSQL takes.
THEOREM SnapshotsAreAlike == Spec => []("snapshots" \in refused \/ SnapshotsAgree)
<1>1. RepositoryInv => "snapshots" \in refused \/ SnapshotsAgree
  <2> SUFFICES ASSUME RepositoryInv, "snapshots" \notin refused PROVE SnapshotsAgree
    OBVIOUS
  <2> DEFINE rows == pg.snapshots
             f == mem.snapshots
  <2>1. Stored(rows, f)
    BY DEF RepositoryInv
  <2>2. rows = {f[n] : n \in DOMAIN f}
    BY <2>1 DEF Stored
  <2>3. PgSnapshotList(rows) = Sorts(SetToSeq(rows), "at")
    BY <2>1, StoredFinite, SortsAll
  <2>4. PgSnapshotList(rows) = MemSnapshotList(f)
    BY <2>2, <2>3 DEF MemSnapshotList
  <2>5. \A n \in Names : PgGetByName(rows, n) = MemGetByName(f, n)
    BY <2>1, StoredNamed DEF PgGetByName, MemGetByName
  <2>6. QED
    BY <2>4, <2>5 DEF SnapshotsAgree
<1>2. QED
  BY <1>1, RepositorySafe, PTL

-----------------------------------------------------------------------------
(* The sync logs and the schema versions.                                   *)

\* The values of a loop over 1 .. n, from x on; F[i] is what its body makes of
\* a value in S at i.
Body(F, n, S) == F \in [1 .. n -> [S -> S]]

Values(g, F, n, S, x) ==
    g \in [0 .. n -> S] /\ g[0] = x /\ \A i \in 1 .. n : g[i] = F[i][g[i - 1]]

\* A loop whose body is defined on every value has its values.
LEMMA Iterated ==
    ASSUME NEW n \in Nat, NEW S, NEW x \in S, NEW F, Body(F, n, S)
    PROVE  \E g : Values(g, F, n, S, x)
<1> USE DEF Body
<1> DEFINE Good(k, g) == g[0] = x /\ \A i \in 1 .. k : g[i] = F[i][g[i - 1]]
           D == {k \in 0 .. n : \E g \in [0 .. k -> S] : Good(k, g)}
<1>1. 0 \in D
  <2> DEFINE g == [i \in 0 .. 0 |-> x]
  <2>1. g \in [0 .. 0 -> S] /\ Good(0, g)
    OBVIOUS
  <2> HIDE DEF g
  <2>2. QED
    BY <2>1
<1>2. ASSUME NEW k \in 0 .. n - 1, k \in D PROVE k + 1 \in D
  <2>1. PICK g \in [0 .. k -> S] : Good(k, g)
    BY <1>2
  <2>2. k \in Nat /\ k + 1 \in 1 .. n /\ k + 1 \in 0 .. n
    OBVIOUS
  <2> DEFINE y == F[k + 1][g[k]]
             h == [i \in 0 .. k + 1 |-> IF i = k + 1 THEN y ELSE g[i]]
  <2>3. y \in S
    <3>1. g[k] \in S
      BY <2>1, <2>2
    <3>2. F[k + 1] \in [S -> S]
      BY <2>2
    <3>3. QED
      BY <3>1, <3>2
  <2>4. h \in [0 .. k + 1 -> S]
    <3> HIDE DEF y
    <3> SUFFICES ASSUME NEW i \in 0 .. k + 1 PROVE (IF i = k + 1 THEN y ELSE g[i]) \in S
      OBVIOUS
    <3>1. i # k + 1 => i \in 0 .. k
      BY <2>2
    <3>2. QED
      BY <2>1, <2>3, <3>1
  <2>5. /\ h[k + 1] = y
        /\ \A i \in 0 .. k : h[i] = g[i]
    <3> HIDE DEF y
    <3>1. \A i \in 0 .. k : i \in 0 .. k + 1 /\ i # k + 1
      BY <2>2
    <3>2. k + 1 \in 0 .. k + 1
      BY <2>2
    <3>3. QED
      BY <3>1, <3>2
  <2>6. Good(k + 1, h)
    <3>1. h[0] = x
      BY <2>1, <2>2, <2>5
    <3>2. ASSUME NEW i \in 1 .. k + 1 PROVE h[i] = F[i][h[i - 1]]
      <4> HIDE DEF h
      <4>1. CASE i = k + 1
        <5>1. i - 1 = k /\ k \in 0 .. k
          BY <2>2, <4>1
        <5>2. QED
          BY <2>5, <4>1, <5>1
      <4>2. CASE i # k + 1
        <5>1. i \in 1 .. k /\ i \in 0 .. k /\ i - 1 \in 0 .. k
          BY <2>2, <4>2
        <5>2. QED
          BY <2>1, <2>5, <5>1
      <4>3. QED
        BY <4>1, <4>2
    <3>3. QED
      BY <3>1, <3>2
  <2>7. QED
    BY <2>2, <2>4, <2>6
<1>3. n \in D
  <2> HIDE DEF D
  <2>1. QED
    BY <1>1, <1>2, Steps
<1>4. QED
  BY <1>3 DEF Values

\* What an append adds.
LEMMA Appended ==
    ASSUME NEW S, NEW s \in Seq(S), NEW e \in S
    PROVE  /\ Append(s, e) \in Seq(S) /\ Len(Append(s, e)) = Len(s) + 1
           /\ \A i \in 1 .. Len(s) : Append(s, e)[i] = s[i]
           /\ Append(s, e)[Len(s) + 1] = e
           /\ ToSet(Append(s, e)) = ToSet(s) \cup {e}
<1>1. /\ Append(s, e) \in Seq(S)
      /\ Len(Append(s, e)) = Len(s) + 1
      /\ \A i \in 1 .. Len(s) : Append(s, e)[i] = s[i]
      /\ Append(s, e)[Len(s) + 1] = e
  OBVIOUS
<1>2. DOMAIN s = 1 .. Len(s) /\ DOMAIN Append(s, e) = 1 .. Len(s) + 1 /\ Len(s) \in Nat
  BY <1>1
<1>3. 1 .. Len(s) + 1 = 1 .. Len(s) \cup {Len(s) + 1}
  BY <1>2
<1>4. QED
  BY <1>1, <1>2, <1>3 DEF ToSet

LogRecords == [type : SyncTypes, at : Times]

\* The rows of the sync logs s, numbered.
Rowed(s) == {[id |-> i, type |-> s[i].type, at |-> s[i].at] : i \in 1 .. Len(s)}

\* The table of the sync logs has the memory's, and that of the versions too,
\* unless the store was given a value that PostgreSQL refuses.
LogInv ==
    /\ pg = [snapshots |-> pg.snapshots, connectors |-> pg.connectors,
             logs |-> pg.logs, versions |-> pg.versions]
    /\ mem = [snapshots |-> mem.snapshots, connectors |-> mem.connectors,
              logs |-> mem.logs, versions |-> mem.versions]
    /\ mem.logs \in Seq(LogRecords)
    /\ "logs" \in refused \/ pg.logs = Rowed(mem.logs)
    /\ mem.versions \in Seq(Versions)
    /\ "versions" \in refused \/ pg.versions = ToSet(mem.versions)

\* The numbered rows of a list are as many as it has records.
LEMMA Numbered ==
    ASSUME NEW n \in Nat, NEW row, \A i, j \in 1 .. n : row[i] = row[j] => i = j,
           NEW T, T = {row[i] : i \in 1 .. n}
    PROVE  IsFiniteSet(T) /\ Cardinality(T) = n
<1> DEFINE b == [i \in 1 .. n |-> row[i]]
<1>1. b \in [1 .. n -> T] /\ \A i \in 1 .. n : b[i] = row[i]
  OBVIOUS
<1> HIDE DEF b
<1>2. b \in Bijection(1 .. n, T)
  BY <1>1 DEF Bijection, Injection, Surjection, IsInjective
<1>3. IsFiniteSet(1 .. n) /\ Cardinality(1 .. n) = n
  BY FS_Interval
<1>4. QED
  BY <1>2, <1>3, FS_Bijection DEF ExistsBijection

\* The sync logs of the table are numbered without a gap.
LEMMA LogsNumbered ==
    ASSUME LogInv, "logs" \notin refused
    PROVE  IsFiniteSet(pg.logs) /\ Cardinality(pg.logs) = Len(mem.logs)
<1> DEFINE n == Len(mem.logs)
           row == [i \in 1 .. n |-> [id |-> i, type |-> mem.logs[i].type, at |-> mem.logs[i].at]]
<1>1. n \in Nat
  BY DEF LogInv
<1>2. \A i, j \in 1 .. n : row[i] = row[j] => i = j
  <2> SUFFICES ASSUME NEW i \in 1 .. n, NEW j \in 1 .. n, row[i] = row[j] PROVE i = j
    OBVIOUS
  <2>1. row[i].id = i /\ row[j].id = j
    OBVIOUS
  <2>2. QED
    BY <2>1
<1>3. pg.logs = {row[i] : i \in 1 .. n}
  BY DEF LogInv, Rowed
<1> HIDE DEF n, row
<1>4. IsFiniteSet(pg.logs) /\ Cardinality(pg.logs) = n
  BY <1>1, <1>2, <1>3, Numbered
<1>5. QED
  BY <1>4 DEF n

\* Both implementations start empty.
LEMMA LogStart == Init => LogInv
BY DEF Init, LogInv, Rowed, ToSet

\* CreateLog and CreateVersion extend both, what PostgreSQL refuses only the
\* memory's, and no other call touches them.
LEMMA LogStep == LogInv /\ [Next]_vars => LogInv'
<1> SUFFICES ASSUME LogInv, [Next]_vars PROVE LogInv'
  OBVIOUS
<1>1. ASSUME NEW s, NEW t, pg' = [pg EXCEPT !.snapshots = s],
             mem' = [mem EXCEPT !.snapshots = t], refused \subseteq refused'
      PROVE  LogInv'
  <2>1. /\ pg' = [snapshots |-> s, connectors |-> pg.connectors,
                  logs |-> pg.logs, versions |-> pg.versions]
        /\ mem' = [snapshots |-> t, connectors |-> mem.connectors,
                   logs |-> mem.logs, versions |-> mem.versions]
    BY <1>1 DEF LogInv
  <2>2. QED
    BY <1>1, <2>1 DEF LogInv
<1>2. ASSUME NEW s, NEW t, pg' = [pg EXCEPT !.connectors = s],
             mem' = [mem EXCEPT !.connectors = t], refused \subseteq refused'
      PROVE  LogInv'
  <2>1. /\ pg' = [snapshots |-> pg.snapshots, connectors |-> s,
                  logs |-> pg.logs, versions |-> pg.versions]
        /\ mem' = [snapshots |-> mem.snapshots, connectors |-> t,
                   logs |-> mem.logs, versions |-> mem.versions]
    BY <1>2 DEF LogInv
  <2>2. QED
    BY <1>2, <2>1 DEF LogInv
<1>3. ASSUME NEW rows, NEW logs \in Seq(LogRecords), pg' = [pg EXCEPT !.logs = rows],
             mem' = [mem EXCEPT !.logs = logs], refused \subseteq refused',
             "logs" \in refused' \/ rows = Rowed(logs)
      PROVE  LogInv'
  <2>1. /\ pg' = [snapshots |-> pg.snapshots, connectors |-> pg.connectors,
                  logs |-> rows, versions |-> pg.versions]
        /\ mem' = [snapshots |-> mem.snapshots, connectors |-> mem.connectors,
                   logs |-> logs, versions |-> mem.versions]
    BY <1>3 DEF LogInv
  <2>2. QED
    BY <1>3, <2>1 DEF LogInv
<1>4. ASSUME NEW rows, NEW vs \in Seq(Versions), pg' = [pg EXCEPT !.versions = rows],
             mem' = [mem EXCEPT !.versions = vs], refused \subseteq refused',
             "versions" \in refused' \/ rows = ToSet(vs)
      PROVE  LogInv'
  <2>1. /\ pg' = [snapshots |-> pg.snapshots, connectors |-> pg.connectors,
                  logs |-> pg.logs, versions |-> rows]
        /\ mem' = [snapshots |-> mem.snapshots, connectors |-> mem.connectors,
                   logs |-> mem.logs, versions |-> vs]
    BY <1>4 DEF LogInv
  <2>2. QED
    BY <1>4, <2>1 DEF LogInv
<1>5. /\ mem.logs \in Seq(LogRecords) /\ mem.versions \in Seq(Versions)
      /\ pg = [pg EXCEPT !.logs = pg.logs] /\ pg = [pg EXCEPT !.versions = pg.versions]
      /\ pg = [pg EXCEPT !.snapshots = pg.snapshots]
      /\ pg = [pg EXCEPT !.connectors = pg.connectors]
  BY DEF LogInv
<1>6. ASSUME NEW ty \in SyncTypes, NEW at \in Times
      PROVE  /\ MemLogCreate(mem.logs, ty, at) \in Seq(LogRecords)
             /\ "logs" \notin refused =>
                  PgLogCreate(pg.logs, ty, at) = Rowed(MemLogCreate(mem.logs, ty, at))
  <2> DEFINE n == Len(mem.logs)
             e == [type |-> ty, at |-> at]
             logs == Append(mem.logs, e)
  <2>1. e \in LogRecords /\ n \in Nat
    BY <1>5 DEF LogRecords
  <2>2. /\ logs \in Seq(LogRecords) /\ Len(logs) = n + 1
        /\ \A i \in 1 .. n : logs[i] = mem.logs[i]
        /\ logs[n + 1] = e
    BY <1>5, <2>1, Appended
  <2>3. 1 .. n + 1 = 1 .. n \cup {n + 1}
    BY <2>1
  <2> DEFINE Old(i) == [id |-> i, type |-> mem.logs[i].type, at |-> mem.logs[i].at]
             New(i) == [id |-> i, type |-> logs[i].type, at |-> logs[i].at]
             row == [id |-> n + 1, type |-> ty, at |-> at]
  <2>4. row = New(n + 1) /\ \A i \in 1 .. n : Old(i) = New(i)
    BY <2>2
  <2>5. "logs" \notin refused => PgLogCreate(pg.logs, ty, at) = {Old(i) : i \in 1 .. n} \cup {row}
    BY LogsNumbered DEF PgLogCreate, LogInv, Rowed
  <2>6. Rowed(logs) = {New(i) : i \in 1 .. n + 1}
    BY <2>2 DEF Rowed
  <2>7. {New(i) : i \in 1 .. n + 1} = {Old(i) : i \in 1 .. n} \cup {row}
    <3> HIDE DEF logs, row, n, e, Old, New
    <3>1. {New(i) : i \in 1 .. n + 1} = {New(i) : i \in 1 .. n} \cup {New(n + 1)}
      BY <2>3
    <3>2. {New(i) : i \in 1 .. n} = {Old(i) : i \in 1 .. n}
      BY <2>4
    <3>3. QED
      BY <2>4, <3>1, <3>2
  <2> HIDE DEF n, row, Old, New
  <2>8. QED
    BY <2>2, <2>5, <2>6, <2>7 DEF MemLogCreate
<1>7. ASSUME NEW v \in Versions
      PROVE  /\ MemVersionCreate(mem.versions, v) \in Seq(Versions)
             /\ "versions" \notin refused =>
                  PgVersionCreate(pg.versions, v) = ToSet(MemVersionCreate(mem.versions, v))
  BY <1>5, Appended DEF MemVersionCreate, PgVersionCreate, LogInv
<1>8. ASSUME NEW ty \in SyncTypes, NEW at \in Times, CreateLog(ty, at) PROVE LogInv'
  BY <1>3, <1>6, <1>8 DEF CreateLog
<1>9. ASSUME NEW ty \in SyncTypes, NEW at \in Times, RefuseLog(ty, at) PROVE LogInv'
  BY <1>3, <1>5, <1>6, <1>9 DEF RefuseLog, Refuse
<1>10. ASSUME NEW v \in Versions, CreateVersion(v) PROVE LogInv'
  BY <1>4, <1>7, <1>10 DEF CreateVersion
<1>11. ASSUME NEW v \in Versions, RefuseVersion(v) PROVE LogInv'
  BY <1>4, <1>5, <1>7, <1>11 DEF RefuseVersion, Refuse
<1>12. ASSUME NEW n \in Names, NEW at \in Times, CreateSnapshot(n, at) PROVE LogInv'
  BY <1>1, <1>12 DEF CreateSnapshot
<1>13. ASSUME NEW n \in Names, NEW at \in Times, RefuseSnapshot(n, at) PROVE LogInv'
  BY <1>1, <1>5, <1>13 DEF RefuseSnapshot, Refuse
<1>14. ASSUME NEW n \in Names, NEW at \in Times, UpdateLastPing(n, at) PROVE LogInv'
  BY <1>2, <1>14 DEF UpdateLastPing
<1>15. ASSUME NEW n \in Names, NEW st \in Statuses, UpdateSnapshotStatus(n, st)
       PROVE  LogInv'
  BY <1>1, <1>15 DEF UpdateSnapshotStatus
<1>16. ASSUME NEW n \in Names, NEW st \in Statuses, RefuseSnapshotStatus(n, st)
       PROVE  LogInv'
  BY <1>1, <1>5, <1>16 DEF RefuseSnapshotStatus, Refuse
<1>17. ASSUME NEW n \in Names, NEW st \in Statuses, Upsert(n, st) PROVE LogInv'
  BY <1>2, <1>17 DEF Upsert
<1>18. ASSUME NEW n \in Names, NEW st \in Statuses, RefuseUpsert(n, st) PROVE LogInv'
  BY <1>2, <1>5, <1>18 DEF RefuseUpsert, Refuse
<1>19. ASSUME NEW n \in Names, NEW st \in Statuses, UpdateConnectorStatus(n, st)
       PROVE  LogInv'
  BY <1>2, <1>19 DEF UpdateConnectorStatus
<1>20. ASSUME NEW n \in Names, NEW st \in Statuses, RefuseConnectorStatus(n, st)
       PROVE  LogInv'
  BY <1>2, <1>5, <1>20 DEF RefuseConnectorStatus, Refuse
<1>21. ASSUME NEW n \in Names, DeleteSnapshot(n) PROVE LogInv'
  BY <1>1, <1>21 DEF DeleteSnapshot
<1>22. ASSUME NEW n \in Names, DeleteConnector(n) PROVE LogInv'
  BY <1>2, <1>22 DEF DeleteConnector
<1>23. CASE UNCHANGED vars
  BY <1>23 DEF vars, LogInv
<1>24. QED
  BY <1>8, <1>9, <1>10, <1>11, <1>12, <1>13, <1>14, <1>15,
     <1>16, <1>17, <1>18, <1>19, <1>20, <1>21, <1>22, <1>23 DEF Next

\* So it holds in every state.
LEMMA LogSafe == Spec => []LogInv
  BY LogStart, LogStep, PTL DEF Spec

\* The loop of Latest over the versions.
LatestLoop(g, s) ==
    g = [i \in 0 .. Len(s) |->
            IF i = 0 THEN {}
            ELSE IF \A l \in g[i - 1] : s[i] > l THEN {s[i]}
            ELSE g[i - 1]]

\* The recursive function of MemLatest is one that satisfies its equation.
LEMMA LatestRuns ==
    ASSUME NEW S, NEW s \in Seq(S)
    PROVE  \E g : LatestLoop(g, s) /\ MemLatest(s) = g[Len(s)]
<1> DEFINE n == Len(s)
           T == SUBSET S
           F == [i \in 1 .. n |-> [t \in T |-> IF \A l \in t : s[i] > l THEN {s[i]} ELSE t]]
           none == {}
<1>1. n \in Nat /\ \A i \in 1 .. n : s[i] \in S
  OBVIOUS
<1>2. Body(F, n, T)
  <2>1. ASSUME NEW i \in 1 .. n, NEW t \in T
        PROVE  (IF \A l \in t : s[i] > l THEN {s[i]} ELSE t) \in T
    BY <1>1
  <2>2. QED
    BY <2>1 DEF Body
<1>3. none \in T
  OBVIOUS
<1>4. \A i \in 1 .. n : \A t \in T : F[i][t] = IF \A l \in t : s[i] > l THEN {s[i]} ELSE t
  OBVIOUS
<1>5. PICK g : Values(g, F, n, T, none)
  <2> HIDE DEF n, F, none, T
  <2>1. QED
    BY <1>1, <1>2, <1>3, Iterated
<1>6. ASSUME NEW i \in 0 .. n
      PROVE  g[i] = IF i = 0 THEN {} ELSE IF \A l \in g[i - 1] : s[i] > l THEN {s[i]} ELSE g[i - 1]
  <2> HIDE DEF F, n, T
  <2>1. CASE i = 0
    BY <1>5, <2>1 DEF Values
  <2>2. CASE i # 0
    <3>1. i \in 1 .. n /\ i - 1 \in 0 .. n
      BY <1>1, <2>2
    <3>2. g[i] = F[i][g[i - 1]] /\ g[i - 1] \in T
      BY <1>5, <3>1 DEF Values
    <3>3. QED
      BY <1>4, <2>2, <3>1, <3>2
  <2>3. QED
    BY <2>1, <2>2
<1>7. LatestLoop(g, s)
  <2> HIDE DEF F, T, none
  <2>1. g = [i \in 0 .. n |-> g[i]]
    BY <1>5 DEF Values
  <2> HIDE DEF n
  <2>2. QED
    BY <1>6, <2>1 DEF LatestLoop, n
<1> DEFINE h == CHOOSE h : LatestLoop(h, s)
<1>8. MemLatest(s) = h[n]
  BY DEF MemLatest, LatestLoop
<1>9. LatestLoop(h, s)
  BY <1>7
<1>10. QED
  BY <1>8, <1>9

\* Latest answers a greatest version, if there is any.
LEMMA LatestFound ==
    ASSUME NEW s \in Seq(Nat)
    PROVE  IF s = <<>> THEN MemLatest(s) = {}
           ELSE \E m \in ToSet(s) : MemLatest(s) = {m} /\ \A x \in ToSet(s) : m >= x
<1> DEFINE n == Len(s)
<1>1. n \in Nat /\ DOMAIN s = 1 .. n /\ \A i \in 1 .. n : s[i] \in Nat
  OBVIOUS
<1>2. PICK g : LatestLoop(g, s) /\ MemLatest(s) = g[n]
  BY LatestRuns
<1>3. g[0] = {}
  BY <1>1, <1>2 DEF LatestLoop
<1>4. ASSUME s # <<>>
      PROVE \E m \in ToSet(s) : MemLatest(s) = {m} /\ \A x \in ToSet(s) : m >= x
  <2> DEFINE D == {k \in 0 .. n - 1 : \E m \in 1 .. k + 1 :
                       g[k + 1] = {s[m]} /\ \A i \in 1 .. k + 1 : s[m] >= s[i]}
  <2>1. n - 1 \in Nat /\ n # 0
    BY <1>1, <1>4
  <2>2. 0 \in D
    <3>1. g[1] = {s[1]}
      <4>1. 1 \in 0 .. n
        BY <1>1, <2>1
      <4>2. QED
        BY <1>2, <1>3, <4>1 DEF LatestLoop
    <3>2. s[1] >= s[1]
      BY <1>1, <2>1
    <3>3. QED
      BY <2>1, <3>1, <3>2
  <2>3. ASSUME NEW k \in 0 .. (n - 1) - 1, k \in D PROVE k + 1 \in D
    <3>1. PICK m \in 1 .. k + 1 : g[k + 1] = {s[m]} /\ \A i \in 1 .. k + 1 : s[m] >= s[i]
      BY <2>3
    <3> DEFINE j == (k + 1) + 1
    <3>2. /\ j \in 1 .. n /\ j \in 0 .. n /\ j # 0 /\ j - 1 = k + 1 /\ k + 1 \in 0 .. n - 1
          /\ m \in 1 .. n /\ m \in 1 .. j /\ j \in 1 .. j
          /\ \A i \in 1 .. j : i = j \/ i \in 1 .. k + 1
          /\ \A i \in 1 .. j : i \in 1 .. n
      BY <1>1, <2>1
    <3>3. g[j] = IF s[j] > s[m] THEN {s[j]} ELSE {s[m]}
      BY <1>2, <3>1, <3>2 DEF LatestLoop
    <3> HIDE DEF j
    <3>4. \A i \in 1 .. j : s[i] \in Nat
      BY <1>1, <3>2
    <3>5. CASE s[j] > s[m]
      <4>1. ASSUME NEW i \in 1 .. j PROVE s[j] >= s[i]
        <5>1. s[i] \in Nat /\ s[j] \in Nat /\ s[m] \in Nat
          BY <3>2, <3>4
        <5>2. i = j \/ s[m] >= s[i]
          BY <3>1, <3>2
        <5>3. QED
          BY <3>5, <5>1, <5>2
      <4>2. QED
        BY <3>2, <3>3, <3>5, <4>1 DEF j
    <3>6. CASE ~(s[j] > s[m])
      <4>1. ASSUME NEW i \in 1 .. j PROVE s[m] >= s[i]
        <5>1. s[i] \in Nat /\ s[j] \in Nat /\ s[m] \in Nat
          BY <3>2, <3>4
        <5>2. i = j \/ s[m] >= s[i]
          BY <3>1, <3>2
        <5>3. QED
          BY <3>6, <5>1, <5>2
      <4>2. QED
        BY <3>2, <3>3, <3>6, <4>1 DEF j
    <3>7. QED
      BY <3>5, <3>6
  <2>4. n - 1 \in D
    <3> HIDE DEF D
    <3>1. QED
      BY <2>1, <2>2, <2>3, Steps
  <2>5. PICK m \in 1 .. n : g[n] = {s[m]} /\ \A i \in 1 .. n : s[m] >= s[i]
    <3>1. (n - 1) + 1 = n
      BY <1>1
    <3>2. QED
      BY <2>4, <3>1
  <2>6. QED
    BY <1>1, <1>2, <2>5 DEF ToSet
<1>5. s = <<>> => MemLatest(s) = {}
  BY <1>2, <1>3
<1>6. QED
  BY <1>4, <1>5

\* A sequence over a set is one over every larger set.
LEMMA Widened ==
    ASSUME NEW S, NEW T, S \subseteq T, NEW s \in Seq(S)
    PROVE  s \in Seq(T)
<1>1. Len(s) \in Nat /\ \A i \in 1 .. Len(s) : s[i] \in S
  OBVIOUS
<1>2. s = [i \in 1 .. Len(s) |-> s[i]]
  OBVIOUS
<1>3. QED
  BY <1>1, <1>2

\* The last version of the UNIQUE column and of the slice are the same, if all
\* that the store was given are what the columns take.
LEMMA LatestAlike == LogInv => "versions" \in refused \/ LatestAgree
<1> SUFFICES ASSUME LogInv, "versions" \notin refused
             PROVE  PgLatest(pg.versions) = MemLatest(mem.versions)
  BY DEF LatestAgree
<1> DEFINE s == mem.versions
<1>1. s \in Seq(Versions) /\ pg.versions = ToSet(s)
  BY DEF LogInv
<1> HIDE DEF s
<1>2. s \in Seq(Nat)
  <2>1. Versions \subseteq Nat
    BY RepositoryAssumption
  <2>2. QED
    BY <1>1, <2>1, Widened
<1>3. CASE s = <<>>
  <2>1. ToSet(s) = {}
    BY <1>3 DEF ToSet
  <2>2. QED
    BY <1>1, <1>2, <1>3, <2>1, LatestFound DEF PgLatest, s
<1>4. CASE s # <<>>
  <2>1. PICK m \in ToSet(s) : MemLatest(s) = {m} /\ \A x \in ToSet(s) : m >= x
    BY <1>2, <1>4, LatestFound
  <2>2. \A x \in ToSet(s) : x \in Nat
    BY <1>2 DEF ToSet
  <2>3. Max(ToSet(s)) = m
    <3>1. \A y \in ToSet(s) : (\A x \in ToSet(s) : y >= x) => y = m
      BY <2>1, <2>2
    <3>2. QED
      BY <2>1, <3>1 DEF Max
  <2>4. QED
    BY <1>1, <2>1, <2>3 DEF PgLatest, s
<1>5. QED
  BY <1>3, <1>4

\* The loop of ListByType over the records.
TypeLoop(g, s, ty) ==
    g = [i \in 0 .. Len(s) |->
            IF i = 0 THEN <<>>
            ELSE IF s[i].type = ty THEN Append(g[i - 1], s[i])
            ELSE g[i - 1]]

\* And so is that of OfType.
LEMMA TypeRuns ==
    ASSUME NEW S, NEW s \in Seq(S), NEW ty
    PROVE  \E g : TypeLoop(g, s, ty) /\ OfType(s, ty) = g[Len(s)]
<1> DEFINE n == Len(s)
           T == Seq(S)
           F == [i \in 1 .. n |-> [t \in T |-> IF s[i].type = ty THEN Append(t, s[i]) ELSE t]]
           none == <<>>
<1>1. n \in Nat /\ \A i \in 1 .. n : s[i] \in S
  OBVIOUS
<1>2. Body(F, n, T)
  <2>1. ASSUME NEW i \in 1 .. n, NEW t \in T
        PROVE  (IF s[i].type = ty THEN Append(t, s[i]) ELSE t) \in T
    BY <1>1
  <2>2. QED
    BY <2>1 DEF Body
<1>3. none \in T
  OBVIOUS
<1>4. \A i \in 1 .. n : \A t \in T : F[i][t] = IF s[i].type = ty THEN Append(t, s[i]) ELSE t
  OBVIOUS
<1>5. PICK g : Values(g, F, n, T, none)
  <2> HIDE DEF n, F, none, T
  <2>1. QED
    BY <1>1, <1>2, <1>3, Iterated
<1>6. ASSUME NEW i \in 0 .. n
      PROVE  g[i] = IF i = 0 THEN <<>> ELSE IF s[i].type = ty THEN Append(g[i - 1], s[i]) ELSE g[i - 1]
  <2>1. CASE i = 0
    <3> HIDE DEF F, n, T
    <3>1. QED
      BY <1>5, <2>1 DEF Values
  <2> HIDE DEF F, n, T, none
  <2>2. CASE i # 0
    <3>1. i \in 1 .. n /\ i - 1 \in 0 .. n
      BY <1>1, <2>2
    <3>2. g[i] = F[i][g[i - 1]] /\ g[i - 1] \in T
      BY <1>5, <3>1 DEF Values
    <3>3. QED
      BY <1>4, <2>2, <3>1, <3>2
  <2>3. QED
    BY <2>1, <2>2
<1>7. TypeLoop(g, s, ty)
  <2> HIDE DEF F, T, none
  <2>1. g = [i \in 0 .. n |-> g[i]]
    BY <1>5 DEF Values
  <2> HIDE DEF n
  <2>2. QED
    BY <1>6, <2>1 DEF TypeLoop, n
<1> DEFINE h == CHOOSE h : TypeLoop(h, s, ty)
<1>8. OfType(s, ty) = h[n]
  BY DEF OfType, TypeLoop
<1>9. TypeLoop(h, s, ty)
  BY <1>7
<1>10. QED
  BY <1>8, <1>9

\* The records of a type, each once and no other: c gives their places.
LEMMA TypeFound ==
    ASSUME NEW S, NEW s \in Seq(S), NEW ty
    PROVE  /\ OfType(s, ty) \in Seq(S)
           /\ \E c \in [1 .. Len(OfType(s, ty)) -> 1 .. Len(s)] :
                 /\ \A j \in 1 .. Len(OfType(s, ty)) : OfType(s, ty)[j] = s[c[j]] /\ s[c[j]].type = ty
                 /\ \A i, j \in 1 .. Len(OfType(s, ty)) : c[i] = c[j] => i = j
                 /\ \A i \in 1 .. Len(s) : s[i].type = ty =>
                       \E j \in 1 .. Len(OfType(s, ty)) : c[j] = i
<1> DEFINE n == Len(s)
           Places(t, c, k) ==
               /\ t \in Seq(S)
               /\ c \in [1 .. Len(t) -> 1 .. k]
               /\ \A j \in 1 .. Len(t) : t[j] = s[c[j]] /\ s[c[j]].type = ty
               /\ \A i, j \in 1 .. Len(t) : c[i] = c[j] => i = j
               /\ \A i \in 1 .. k : s[i].type = ty => \E j \in 1 .. Len(t) : c[j] = i
<1>1. n \in Nat /\ \A i \in 1 .. n : s[i] \in S
  OBVIOUS
<1>2. PICK g : TypeLoop(g, s, ty) /\ OfType(s, ty) = g[n]
  BY TypeRuns
<1> DEFINE D == {k \in 0 .. n : \E c : Places(g[k], c, k)}
<1>3. 0 \in D
  <2>1. g[0] = <<>>
    BY <1>1, <1>2 DEF TypeLoop
  <2> DEFINE c == [j \in 1 .. 0 |-> 0]
  <2>2. Places(<<>>, c, 0)
    OBVIOUS
  <2> HIDE DEF c, Places
  <2>3. QED
    BY <1>1, <2>1, <2>2
<1>4. ASSUME NEW k \in 0 .. n - 1, k \in D PROVE k + 1 \in D
  <2>1. PICK c : Places(g[k], c, k)
    BY <1>4
  <2>2. k \in Nat /\ k + 1 \in 1 .. n /\ k + 1 \in 0 .. n /\ (k + 1) - 1 = k /\ k + 1 # 0
    BY <1>1
  <2> DEFINE t == g[k]
             e == s[k + 1]
  <2>3. g[k + 1] = IF e.type = ty THEN Append(t, e) ELSE t
    BY <1>2, <2>2 DEF TypeLoop
  <2>4. t \in Seq(S) /\ e \in S /\ Len(t) \in Nat
    BY <1>1, <2>1, <2>2
  <2>5. 1 .. k + 1 = 1 .. k \cup {k + 1} /\ k + 1 \notin 1 .. k
    BY <2>2
  <2>6. CASE e.type # ty
    <3>1. Places(t, c, k + 1)
      <4>1. c \in [1 .. Len(t) -> 1 .. k + 1]
        BY <2>1, <2>5
      <4>2. \A i \in 1 .. k + 1 : s[i].type = ty => \E j \in 1 .. Len(t) : c[j] = i
        BY <2>1, <2>5, <2>6
      <4>3. QED
        BY <2>1, <4>1, <4>2
    <3>2. g[k + 1] = t
      BY <2>3, <2>6
    <3> HIDE DEF Places
    <3>3. QED
      BY <2>2, <3>1, <3>2
  <2>7. CASE e.type = ty
    <3> DEFINE u == Append(t, e)
               m == Len(t)
               d == [j \in 1 .. m + 1 |-> IF j = m + 1 THEN k + 1 ELSE c[j]]
    <3>1. /\ u \in Seq(S) /\ Len(u) = m + 1
          /\ \A j \in 1 .. m : u[j] = t[j]
          /\ u[m + 1] = e
      BY <2>4, Appended
    <3>2. 1 .. m + 1 = 1 .. m \cup {m + 1} /\ m + 1 \notin 1 .. m
      BY <2>4
    <3>3. d[m + 1] = k + 1 /\ \A j \in 1 .. m : d[j] = c[j] /\ c[j] \in 1 .. k
      BY <2>1, <3>2
    <3>4. d \in [1 .. m + 1 -> 1 .. k + 1]
      BY <2>1, <2>5, <3>2
    <3> HIDE DEF d, u
    <3>5. \A j \in 1 .. m + 1 : u[j] = s[d[j]] /\ s[d[j]].type = ty
      BY <2>1, <2>7, <3>1, <3>2, <3>3
    <3>6. \A i, j \in 1 .. m + 1 : d[i] = d[j] => i = j
      BY <2>1, <2>5, <3>2, <3>3
    <3>7. \A i \in 1 .. k + 1 : s[i].type = ty => \E j \in 1 .. m + 1 : d[j] = i
      BY <2>1, <2>5, <3>2, <3>3
    <3>8. Places(u, d, k + 1)
      BY <3>1, <3>4, <3>5, <3>6, <3>7
    <3>9. g[k + 1] = u
      BY <2>3, <2>7 DEF u
    <3> HIDE DEF Places
    <3>10. QED
      BY <2>2, <3>8, <3>9
  <2>8. QED
    BY <2>6, <2>7
<1>5. n \in D
  <2> HIDE DEF D, n
  <2>1. QED
    BY <1>1, <1>3, <1>4, Steps
<1>6. \E c : Places(g[n], c, n)
  <2> HIDE DEF Places, n
  <2>1. QED
    BY <1>5
<1>7. PICK c : Places(OfType(s, ty), c, n)
  <2> HIDE DEF Places, n
  <2>1. QED
    BY <1>2, <1>6
<1>8. QED
  BY <1>7

\* A set of numbers that is not empty has a least one.
LEMMA Least ==
    ASSUME NEW S \in SUBSET Nat, S # {}
    PROVE  \E m \in S : \A x \in S : m <= x
<1> SUFFICES ASSUME \A m \in S : \E x \in S : x < m PROVE FALSE
  OBVIOUS
<1>1. PICK n \in S : TRUE
  OBVIOUS
<1> DEFINE D == {k \in 0 .. n : \E x \in S : x <= n - k}
<1>2. 0 \in D
  BY <1>1
<1>3. ASSUME NEW k \in 0 .. n - 1, k \in D PROVE k + 1 \in D
  <2>1. PICK x \in S : x <= n - k
    BY <1>3
  <2>2. PICK y \in S : y < x
    OBVIOUS
  <2>3. y <= n - (k + 1) /\ k + 1 \in 0 .. n
    BY <1>1, <2>1, <2>2
  <2>4. QED
    BY <2>3
<1>4. n \in D
  <2> HIDE DEF D
  <2>1. QED
    BY <1>1, <1>2, <1>3, Steps
<1>5. PICK x \in S : x <= n - n
  BY <1>4
<1>6. x = 0
  BY <1>5
<1>7. QED
  BY <1>6

Falling(s, n) == \A i, j \in 1 .. n : i < j => s[i].at >= s[j].at

\* The rows of a set can be put in order, the newest first.
LEMMA Orders ==
    ASSUME NEW rows, IsFiniteSet(rows), \A r \in rows : r.at \in Nat, NEW T \in SUBSET rows
    PROVE  \E e \in SetToSeqs(T) : Falling(e, Cardinality(T))
<1> DEFINE n == Cardinality(T)
           Ordered(U) == \E e \in SetToSeqs(U) : Falling(e, Cardinality(U))
           D == {k \in 0 .. n : \A U \in SUBSET rows : Cardinality(U) = k => Ordered(U)}
<1>1. IsFiniteSet(T) /\ n \in Nat
  BY FS_Subset, FS_CardinalityType
<1>2. 0 \in D
  <2> SUFFICES ASSUME NEW U \in SUBSET rows, Cardinality(U) = 0 PROVE Ordered(U)
    BY <1>1
  <2>1. U = {}
    BY FS_Subset, FS_EmptySet
  <2> DEFINE e == [i \in 1 .. 0 |-> 0]
  <2>2. e \in [1 .. 0 -> U]
    OBVIOUS
  <2>3. e \in SetToSeqs(U) /\ Falling(e, 0)
    BY <2>2 DEF SetToSeqs, Falling
  <2>4. QED
    BY <2>3
<1>3. ASSUME NEW k \in 0 .. n - 1, k \in D PROVE k + 1 \in D
  <2>1. k \in Nat /\ k + 1 \in 0 .. n
    BY <1>1
  <2> SUFFICES ASSUME NEW U \in SUBSET rows, Cardinality(U) = k + 1 PROVE Ordered(U)
    BY <2>1
  <2>2. IsFiniteSet(U) /\ U # {}
    <3>1. IsFiniteSet(U)
      BY FS_Subset
    <3>2. k + 1 # 0
      BY <2>1
    <3>3. QED
      BY <3>1, <3>2, FS_EmptySet
  <2>3. PICK t \in U : \A r \in U : t.at <= r.at
    <3> DEFINE A == {r.at : r \in U}
    <3>1. A \in SUBSET Nat /\ A # {}
      BY <2>2
    <3>2. \E m \in A : \A x \in A : m <= x
      <4> HIDE DEF A
      <4>1. QED
        BY <3>1, Least
    <3>3. QED
      BY <3>2
  <2>4. IsFiniteSet(U \ {t}) /\ Cardinality(U \ {t}) = k
    <3>1. IsFiniteSet(U \ {t}) /\ Cardinality(U \ {t}) = Cardinality(U) - 1
      BY <2>2, FS_RemoveElement
    <3>2. QED
      BY <2>1, <3>1
  <2>5. Ordered(U \ {t})
    BY <1>3, <2>4
  <2>6. PICK e \in SetToSeqs(U \ {t}) : Falling(e, k)
    BY <2>4, <2>5
  <2>7. e \in [1 .. k -> U \ {t}] /\ \A i, j \in 1 .. k : i # j => e[i] # e[j]
    BY <2>4, <2>6 DEF SetToSeqs
  <2> DEFINE f == [i \in 1 .. k + 1 |-> IF i = k + 1 THEN t ELSE e[i]]
  <2>8. 1 .. k + 1 = 1 .. k \cup {k + 1} /\ k + 1 \notin 1 .. k
    BY <2>1
  <2>9. f[k + 1] = t /\ \A i \in 1 .. k : f[i] = e[i] /\ e[i] \in U \ {t}
    BY <2>7, <2>8
  <2>10. f \in [1 .. k + 1 -> U]
    BY <2>7, <2>8
  <2> HIDE DEF f
  <2>11. \A i, j \in 1 .. k + 1 : i # j => f[i] # f[j]
    BY <2>7, <2>8, <2>9
  <2>12. Falling(f, k + 1)
    <3> SUFFICES ASSUME NEW i \in 1 .. k + 1, NEW j \in 1 .. k + 1, i < j
                 PROVE  f[i].at >= f[j].at
      BY DEF Falling
    <3>1. i \in 1 .. k
      BY <2>1
    <3>2. CASE j = k + 1
      <4>1. f[i] \in U /\ f[i].at \in Nat /\ t.at \in Nat
        BY <2>9, <3>1
      <4>2. t.at <= f[i].at
        BY <2>3, <4>1
      <4>3. QED
        BY <2>9, <3>2, <4>1, <4>2
    <3>3. CASE j # k + 1
      <4>1. j \in 1 .. k
        BY <2>1, <3>3
      <4>2. QED
        BY <2>6, <2>9, <3>1, <4>1 DEF Falling
    <3>4. QED
      BY <3>2, <3>3
  <2>13. f \in SetToSeqs(U)
    BY <2>10, <2>11 DEF SetToSeqs
  <2>14. QED
    BY <2>12, <2>13
<1>4. n \in D
  <2> HIDE DEF D, n
  <2>1. QED
    BY <1>1, <1>2, <1>3, Steps
<1>5. QED
  BY <1>4
\* The rows of a table are the records of a list, b[i] that of s[i].
Tabled(b, s, rows, n) ==
    /\ n \in Nat
    /\ s \in Seq(LogRecords) /\ Len(s) = n
    /\ b \in [1 .. n -> rows]
    /\ \A i, j \in 1 .. n : b[i] = b[j] => i = j
    /\ \A r \in rows : \E i \in 1 .. n : b[i] = r
    /\ \A i \in 1 .. n : Row(b[i]) = s[i]

\* How many of n a limit leaves.
Shown(n, limit) == IF limit > 0 /\ limit < n THEN limit ELSE n

\* The table is finite, with as many rows as the list has records, and the
\* times are the same.
LEMMA TableSize ==
    ASSUME NEW b, NEW s, NEW rows, NEW n, Tabled(b, s, rows, n)
    PROVE  /\ n \in Nat
           /\ IsFiniteSet(rows) /\ Cardinality(rows) = n
           /\ DOMAIN s = 1 .. n
           /\ \A i \in 1 .. n : s[i].at = b[i].at /\ s[i].at \in Nat
           /\ \A r \in rows : r.at \in Nat
<1>1. n \in Nat /\ rows = {b[i] : i \in 1 .. n}
  BY DEF Tabled
<1>2. IsFiniteSet(rows) /\ Cardinality(rows) = n
  <2>1. \A i, j \in 1 .. n : b[i] = b[j] => i = j
    BY DEF Tabled
  <2>2. QED
    BY <1>1, <2>1, Numbered
<1>3. s \in Seq(LogRecords) /\ Len(s) = n
  BY DEF Tabled
<1>4. DOMAIN s = 1 .. n /\ \A i \in 1 .. n : s[i] \in LogRecords
  BY <1>3
<1>5. ASSUME NEW i \in 1 .. n PROVE s[i].at = b[i].at /\ s[i].at \in Nat
  <2>1. Row(b[i]) = s[i]
    BY DEF Tabled
  <2>2. s[i].at \in Times
    BY <1>4 DEF LogRecords
  <2>3. s[i].at = b[i].at
    BY <2>1 DEF Row
  <2>4. s[i].at \in Nat
    BY <2>2, RepositoryAssumption
  <2>5. QED
    BY <2>3, <2>4
<1>6. \A r \in rows : r.at \in Nat
  BY <1>1, <1>5
<1>7. QED
  BY <1>1, <1>2, <1>4, <1>5, <1>6

\* The beginning of a list, of what is shown of it.
Shortened(q, n, limit) == [i \in 1 .. Shown(n, limit) |-> q[i]]

\* What Cut leaves of a list.
LEMMA CutShows ==
    ASSUME NEW n \in Nat, NEW S, NEW q \in [1 .. n -> S], NEW limit \in Nat
    PROVE  Cut(q, limit) = Shortened(q, n, limit)
<1> USE DEF Shortened
<1>1. Len(q) = n /\ q \in Seq(S)
  OBVIOUS
<1>2. CASE limit > 0 /\ limit < n
  <2>1. Cut(q, limit) = SubSeq(q, 1, limit)
    BY <1>1, <1>2 DEF Cut
  <2>2. SubSeq(q, 1, limit) = [i \in 1 .. limit |-> q[i]]
    BY <1>1, <1>2
  <2>3. QED
    BY <1>2, <2>1, <2>2 DEF Shown
<1>3. CASE ~(limit > 0 /\ limit < n)
  <2>1. Cut(q, limit) = q
    <3>1. CASE limit > 0 /\ n > limit
      BY <1>3, <3>1
    <3>2. CASE ~(limit > 0 /\ n > limit)
      BY <1>1, <3>2 DEF Cut
    <3>3. QED
      BY <3>1, <3>2
  <2>2. q = [i \in 1 .. n |-> q[i]]
    OBVIOUS
  <2>3. Shown(n, limit) = n
    BY <1>3 DEF Shown
  <2>4. QED
    BY <2>1, <2>2, <2>3
<1>4. QED
  BY <1>2, <1>3

\* A list the memory may cut short is one the query may return.
LEMMA NewestHasCut ==
    ASSUME NEW b, NEW s, NEW rows, NEW n, Tabled(b, s, rows, n), NEW limit \in Nat,
           NEW q \in Sorts(s, "at")
    PROVE  Cut(q, limit) \in PgNewest(rows, limit)
<1> DEFINE m == Shown(n, limit)
<1>1. /\ n \in Nat /\ m \in 0 .. n
      /\ IsFiniteSet(rows) /\ Cardinality(rows) = n
      /\ DOMAIN s = 1 .. n
      /\ \A i \in 1 .. n : s[i].at = b[i].at /\ s[i].at \in Nat
      /\ \A r \in rows : r.at \in Nat
  BY TableSize DEF Shown
<1>2. /\ s \in Seq(LogRecords) /\ Len(s) = n
      /\ b \in [1 .. n -> rows]
      /\ \A i, j \in 1 .. n : b[i] = b[j] => i = j
      /\ \A r \in rows : \E i \in 1 .. n : b[i] = r
      /\ \A i \in 1 .. n : Row(b[i]) = s[i]
  BY DEF Tabled
<1>3. PICK p \in SetToSeqs(1 .. n) :
        /\ \A i \in 1 .. n - 1 : s[p[i]].at >= s[p[i + 1]].at
        /\ q = [i \in 1 .. n |-> s[p[i]]]
  <2>1. DOMAIN s = 1 .. n /\ Len(s) = n
    BY <1>1, <1>2
  <2>2. \E p \in SetToSeqs(DOMAIN s) :
          /\ \A i \in 1 .. (Len(s) - 1) : s[p[i]].at >= s[p[i + 1]].at
          /\ q = [i \in DOMAIN s |-> s[p[i]]]
    BY DEF Sorts
  <2>3. QED
    BY <2>1, <2>2
<1>4. IsFiniteSet(1 .. n) /\ Cardinality(1 .. n) = n
  <2>1. n \in Nat
    BY <1>1
  <2>2. QED
    BY <2>1, FS_Interval
<1>5. /\ p \in [1 .. n -> 1 .. n]
      /\ \A i, j \in 1 .. n : p[i] = p[j] => i = j
      /\ \A x \in 1 .. n : \E i \in 1 .. n : p[i] = x
  BY <1>4, Enumerations
<1> HIDE DEF m
<1> DEFINE v == [i \in 1 .. n |-> s[p[i]].at]
<1>6. \A i, j \in 1 .. n : i < j => s[p[i]].at >= s[p[j]].at
  <2>1. \A i \in 1 .. n : v[i] = s[p[i]].at /\ v[i] \in Nat
    BY <1>1, <1>5
  <2>2. \A i \in 1 .. n - 1 : v[i] >= v[i + 1]
    <3> SUFFICES ASSUME NEW i \in 1 .. n - 1 PROVE v[i] >= v[i + 1]
      OBVIOUS
    <3>1. i \in 1 .. n /\ i + 1 \in 1 .. n
      BY <1>1
    <3>2. QED
      BY <1>3, <2>1, <3>1
  <2> HIDE DEF v
  <2>3. \A i, j \in 1 .. n : i < j => v[i] >= v[j]
    BY <1>1, <2>1, <2>2, NeverRises
  <2>4. QED
    BY <2>1, <2>3
<1> DEFINE w == [i \in 1 .. m |-> b[p[i]]]
           part == {w[i] : i \in 1 .. m}
<1>7. \A i \in 1 .. m : i \in 1 .. n
  BY <1>1
<1>8. \A i \in 1 .. m : w[i] = b[p[i]] /\ w[i] \in rows
  BY <1>2, <1>5, <1>7
<1>9. w \in [1 .. m -> part]
  OBVIOUS
<1> HIDE DEF w
<1>10. \A i, j \in 1 .. m : w[i] = w[j] => i = j
  <2> SUFFICES ASSUME NEW i \in 1 .. m, NEW j \in 1 .. m, w[i] = w[j] PROVE i = j
    OBVIOUS
  <2>1. b[p[i]] = b[p[j]] /\ p[i] \in 1 .. n /\ p[j] \in 1 .. n
    BY <1>5, <1>7, <1>8
  <2>2. p[i] = p[j]
    BY <1>2, <2>1
  <2>3. QED
    BY <1>5, <1>7, <2>2
<1>11. m \in Nat
  BY <1>1
<1>12. IsFiniteSet(part) /\ Cardinality(part) = m
  <2>1. part = {w[i] : i \in 1 .. m}
    OBVIOUS
  <2> HIDE DEF part
  <2>2. QED
    BY <1>10, <1>11, <2>1, Numbered
<1>13. part \in SUBSET rows
  BY <1>8
<1>14. \A i, j \in 1 .. m : i < j => w[i].at >= w[j].at
  <2>1. ASSUME NEW i \in 1 .. m PROVE w[i].at = s[p[i]].at
    <3>1. p[i] \in 1 .. n /\ w[i] = b[p[i]]
      BY <1>5, <1>7, <1>8
    <3>2. QED
      BY <1>1, <3>1
  <2>2. QED
    BY <1>6, <1>7, <2>1
<1>15. ASSUME NEW i \in 1 .. m, NEW r \in rows, r.at > w[i].at PROVE r \in part
  <2>1. PICK k \in 1 .. n : r = b[p[k]]
    BY <1>2, <1>5
  <2>2. s[p[k]].at > s[p[i]].at /\ s[p[k]].at \in Nat /\ s[p[i]].at \in Nat
    BY <1>1, <1>5, <1>7, <1>8, <1>15, <2>1
  <2>3. ~(i < k) /\ i # k
    BY <1>6, <1>7, <2>2
  <2>4. k \in 1 .. m
    BY <1>1, <2>3
  <2>5. QED
    BY <1>8, <2>1, <2>4
<1> HIDE DEF part
<1>16. w \in SetToSeqs(part)
  BY <1>9, <1>10, <1>12 DEF SetToSeqs
<1>17. DOMAIN w = 1 .. m /\ \A i \in 1 .. m : w[i] \in part
  BY <1>9
<1>18. \A i \in DOMAIN w, r \in rows : r.at > w[i].at => r \in ToSet(w)
  <2>1. \A r \in part : \E i \in 1 .. m : w[i] = r
    BY DEF part
  <2>2. QED
    BY <1>15, <1>17, <2>1 DEF ToSet
<1>19. [i \in DOMAIN w |-> Row(w[i])] \in PgNewest(rows, limit)
  <2>1. part \in kSubset(m, rows)
    BY <1>12, <1>13 DEF kSubset
  <2>2. w \in UNION {SetToSeqs(t) : t \in kSubset(m, rows)}
    BY <1>16, <2>1
  <2>3. \A i, j \in DOMAIN w : i < j => w[i].at >= w[j].at
    BY <1>14, <1>17
  <2>4. m = IF limit > 0 /\ limit < Cardinality(rows) THEN limit ELSE Cardinality(rows)
    BY <1>1 DEF m, Shown
  <2>5. QED
    BY <1>18, <2>2, <2>3, <2>4 DEF PgNewest
<1>20. [i \in DOMAIN w |-> Row(w[i])] = [i \in 1 .. m |-> q[i]]
  <2>1. \A i \in 1 .. m : Row(w[i]) = q[i]
    BY <1>2, <1>3, <1>5, <1>7, <1>8
  <2>2. QED
    BY <1>17, <2>1
<1>21. Cut(q, limit) = [i \in 1 .. m |-> q[i]]
  <2>1. q \in [1 .. n -> LogRecords]
    BY <1>2, <1>3, <1>5
  <2>2. n \in Nat /\ limit \in Nat
    BY <1>1
  <2>3. Cut(q, limit) = Shortened(q, n, limit)
    BY ONLY <2>1, <2>2, CutShows, Zenon
  <2>4. QED
    BY <2>3 DEF m, Shortened
<1>22. QED
  BY <1>19, <1>20, <1>21

\* A list the query may return is one the memory may cut short.
LEMMA CutHasNewest ==
    ASSUME NEW b, NEW s, NEW rows, NEW n, Tabled(b, s, rows, n), NEW limit \in Nat,
           NEW l \in PgNewest(rows, limit)
    PROVE  \E q \in Sorts(s, "at") : l = Cut(q, limit)
<1> DEFINE m == Shown(n, limit)
<1>1. /\ n \in Nat /\ m \in 0 .. n
      /\ IsFiniteSet(rows) /\ Cardinality(rows) = n
      /\ DOMAIN s = 1 .. n
      /\ \A i \in 1 .. n : s[i].at = b[i].at /\ s[i].at \in Nat
      /\ \A r \in rows : r.at \in Nat
  BY TableSize DEF Shown
<1>2. /\ s \in Seq(LogRecords) /\ Len(s) = n
      /\ b \in [1 .. n -> rows]
      /\ \A i, j \in 1 .. n : b[i] = b[j] => i = j
      /\ \A r \in rows : \E i \in 1 .. n : b[i] = r
      /\ \A i \in 1 .. n : Row(b[i]) = s[i]
  BY DEF Tabled
<1>3. m = IF limit > 0 /\ limit < Cardinality(rows) THEN limit ELSE Cardinality(rows)
  BY <1>1 DEF Shown
<1> HIDE DEF m
<1>4. PICK part \in kSubset(m, rows) : \E w \in SetToSeqs(part) :
        /\ \A i, j \in DOMAIN w : i < j => w[i].at >= w[j].at
        /\ \A i \in DOMAIN w, r \in rows : r.at > w[i].at => r \in ToSet(w)
        /\ l = [i \in DOMAIN w |-> Row(w[i])]
  BY <1>3 DEF PgNewest
<1>5. PICK w \in SetToSeqs(part) :
        /\ \A i, j \in DOMAIN w : i < j => w[i].at >= w[j].at
        /\ \A i \in DOMAIN w, r \in rows : r.at > w[i].at => r \in ToSet(w)
        /\ l = [i \in DOMAIN w |-> Row(w[i])]
  BY <1>4
<1>6. part \in SUBSET rows /\ Cardinality(part) = m /\ IsFiniteSet(part)
  BY <1>1, FS_Subset DEF kSubset
<1>7. w \in [1 .. m -> part] /\ \A i, j \in 1 .. m : w[i] = w[j] => i = j
  BY <1>6, Enumerations
<1> DEFINE rest == rows \ part
<1>8. IsFiniteSet(rest) /\ Cardinality(rest) = n - m
  <2>1. rows \cap part = part
    BY <1>6
  <2>2. IsFiniteSet(rest) /\ Cardinality(rest) = Cardinality(rows) - Cardinality(rows \cap part)
    BY <1>1, FS_Difference
  <2>3. QED
    BY <1>1, <1>6, <2>1, <2>2
<1>9. PICK e \in SetToSeqs(rest) : Falling(e, n - m)
  <2>1. rest \in SUBSET rows
    OBVIOUS
  <2>2. \E e \in SetToSeqs(rest) : Falling(e, Cardinality(rest))
    <3> HIDE DEF rest
    <3>1. QED
      BY <1>1, <2>1, Orders
  <2>3. QED
    BY <1>8, <2>2
<1>10. e \in [1 .. n - m -> rest] /\ \A i, j \in 1 .. n - m : e[i] = e[j] => i = j
  <2> HIDE DEF rest
  <2>1. QED
    BY <1>8, Enumerations
<1> DEFINE v == [i \in 1 .. n |-> IF i <= m THEN w[i] ELSE e[i - m]]
<1>11. \A i \in 1 .. n : \/ i \in 1 .. m /\ v[i] = w[i]
                         \/ i - m \in 1 .. n - m /\ v[i] = e[i - m] /\ ~(i <= m)
  BY <1>1
<1>12. \A i \in 1 .. m : i \in 1 .. n /\ v[i] = w[i] /\ w[i] \in part /\ v[i] \in rows
  BY <1>1, <1>6, <1>7
<1>13. \A i \in 1 .. n : i \notin 1 .. m => /\ i - m \in 1 .. n - m
                                          /\ v[i] = e[i - m]
                                          /\ v[i] \in rows
                                          /\ v[i] \notin part
  BY <1>1, <1>10
<1> HIDE DEF v, rest
<1>14. \A i, j \in 1 .. n : v[i] = v[j] => i = j
  <2> SUFFICES ASSUME NEW i \in 1 .. n, NEW j \in 1 .. n, v[i] = v[j] PROVE i = j
    OBVIOUS
  <2>1. CASE i \in 1 .. m /\ j \in 1 .. m
    BY <1>7, <1>12, <2>1
  <2>2. CASE i \notin 1 .. m /\ j \notin 1 .. m
    <3>1. i - m = j - m
      BY <1>10, <1>13, <2>2
    <3>2. QED
      BY <1>1, <3>1
  <2>3. QED
    BY <1>12, <1>13, <2>1, <2>2
<1> DEFINE p == [i \in 1 .. n |-> CHOOSE j \in 1 .. n : b[j] = v[i]]
<1>15. \A i \in 1 .. n : v[i] \in rows
  BY <1>12, <1>13
<1>16. \A i \in 1 .. n : p[i] \in 1 .. n /\ b[p[i]] = v[i]
  BY <1>2, <1>15
<1>17. p \in [1 .. n -> 1 .. n]
  BY <1>16
<1> HIDE DEF p
<1>18. p \in SetToSeqs(1 .. n)
  <2>1. Cardinality(1 .. n) = n
    <3>1. n \in Nat
      BY <1>1
    <3>2. QED
      BY <3>1, FS_Interval
  <2>2. \A i, j \in 1 .. n : i # j => p[i] # p[j]
    BY <1>14, <1>16
  <2>3. QED
    BY <1>17, <2>1, <2>2 DEF SetToSeqs
<1>19. ASSUME NEW i \in 1 .. n - 1 PROVE s[p[i]].at >= s[p[i + 1]].at
  <2>1. i \in 1 .. n /\ i + 1 \in 1 .. n /\ i < i + 1
    BY <1>1
  <2>2. /\ s[p[i]].at = v[i].at /\ s[p[i + 1]].at = v[i + 1].at
        /\ v[i].at \in Nat /\ v[i + 1].at \in Nat
    BY <1>1, <1>15, <1>16, <2>1
  <2>3. DOMAIN w = 1 .. m
    BY <1>7
  <2>4. CASE i + 1 \in 1 .. m
    <3>1. i \in 1 .. m
      BY <1>1, <2>4
    <3>2. w[i].at >= w[i + 1].at
      BY <1>5, <2>1, <2>3, <2>4, <3>1
    <3>3. QED
      BY <1>12, <2>2, <2>4, <3>1, <3>2
  <2>5. CASE i + 1 \notin 1 .. m /\ i \in 1 .. m
    <3>1. ToSet(w) \subseteq part
      BY <1>7 DEF ToSet
    <3>2. ~(v[i + 1].at > w[i].at)
      BY <1>5, <1>13, <1>15, <2>1, <2>3, <2>5, <3>1
    <3>3. v[i] = w[i]
      BY <1>12, <2>5
    <3>4. QED
      BY <2>2, <3>2, <3>3
  <2>6. CASE i \notin 1 .. m
    <3>1. i + 1 \notin 1 .. m /\ (i + 1) - m = (i - m) + 1 /\ i - m < (i + 1) - m
      BY <1>1, <2>6
    <3>2. e[i - m].at >= e[(i + 1) - m].at
      BY <1>9, <1>13, <2>1, <2>6, <3>1 DEF Falling
    <3>3. QED
      BY <1>13, <2>1, <2>2, <2>6, <3>1, <3>2
  <2>7. QED
    BY <2>4, <2>5, <2>6
<1> DEFINE q == [i \in 1 .. n |-> s[p[i]]]
<1>20. q \in Sorts(s, "at")
  BY <1>1, <1>2, <1>18, <1>19 DEF Sorts
<1>21. q \in [1 .. n -> LogRecords] /\ \A i \in 1 .. n : q[i] = s[p[i]]
  BY <1>2, <1>16
<1> HIDE DEF q
<1>22. Cut(q, limit) = [i \in 1 .. m |-> q[i]]
  <2>1. n \in Nat /\ q \in [1 .. n -> LogRecords]
    BY <1>1, <1>21
  <2>2. limit \in Nat
    OBVIOUS
  <2>3. Cut(q, limit) = Shortened(q, n, limit)
    BY ONLY <2>1, <2>2, CutShows, Zenon
  <2>4. QED
    BY <2>3 DEF m, Shortened
<1>23. l = [i \in 1 .. m |-> q[i]]
  <2>1. \A i \in 1 .. m : Row(w[i]) = q[i]
    BY <1>2, <1>12, <1>16, <1>21
  <2>2. DOMAIN w = 1 .. m
    BY <1>7
  <2>3. QED
    BY <1>5, <2>1, <2>2
<1>24. QED
  BY <1>20, <1>22, <1>23

\* So the query and the sorted copy the memory cuts may return the same lists.
LEMMA NewestAlike ==
    ASSUME NEW b, NEW s, NEW rows, NEW n, Tabled(b, s, rows, n), NEW limit \in Nat
    PROVE  PgNewest(rows, limit) = MemLogList(s, limit)
<1>1. \A l \in PgNewest(rows, limit) : l \in MemLogList(s, limit)
  BY CutHasNewest DEF MemLogList
<1>2. \A l \in MemLogList(s, limit) : l \in PgNewest(rows, limit)
  BY NewestHasCut DEF MemLogList
<1>3. QED
  BY <1>1, <1>2

\* The rows of the table of the sync logs, in the order they were written.
LEMMA LogsTabled ==
    ASSUME LogInv, "logs" \notin refused
    PROVE  \E b : Tabled(b, mem.logs, pg.logs, Len(mem.logs))
<1> DEFINE s == mem.logs
           n == Len(s)
           b == [i \in 1 .. n |-> [id |-> i, type |-> s[i].type, at |-> s[i].at]]
<1>1. s \in Seq(LogRecords) /\ n \in Nat
  BY DEF LogInv
<1>2. pg.logs = {[id |-> i, type |-> s[i].type, at |-> s[i].at] : i \in 1 .. n}
  BY DEF LogInv, Rowed
<1>3. \A i \in 1 .. n : /\ b[i].id = i
                        /\ b[i] \in pg.logs
                        /\ Row(b[i]) = [type |-> s[i].type, at |-> s[i].at]
  BY <1>2 DEF Row
<1>4. \A r \in pg.logs : \E i \in 1 .. n : b[i] = r
  BY <1>2
<1>5. b \in [1 .. n -> pg.logs]
  BY <1>3
<1>6. \A i \in 1 .. n : Row(b[i]) = s[i]
  <2>1. \A i \in 1 .. n : s[i] \in LogRecords
    BY <1>1
  <2>2. QED
    BY <1>3, <2>1 DEF LogRecords
<1> HIDE DEF b, s, n
<1>7. \A i, j \in 1 .. n : b[i] = b[j] => i = j
  BY <1>3
<1>8. Tabled(b, s, pg.logs, n)
  BY <1>1, <1>4, <1>5, <1>6, <1>7 DEF Tabled, n
<1>9. QED
  BY <1>8 DEF s, n

\* Those of a type, in that order.
LEMMA TypesTabled ==
    ASSUME NEW b, NEW s, NEW rows, NEW n, Tabled(b, s, rows, n), NEW ty
    PROVE  \E d : Tabled(d, OfType(s, ty), {r \in rows : r.type = ty}, Len(OfType(s, ty)))
<1> DEFINE t == OfType(s, ty)
           m == Len(t)
           some == {r \in rows : r.type = ty}
<1>1. /\ n \in Nat
      /\ s \in Seq(LogRecords) /\ Len(s) = n
      /\ b \in [1 .. n -> rows]
      /\ \A i, j \in 1 .. n : b[i] = b[j] => i = j
      /\ \A r \in rows : \E i \in 1 .. n : b[i] = r
      /\ \A i \in 1 .. n : Row(b[i]) = s[i]
  BY DEF Tabled
<1>2. PICK c \in [1 .. m -> 1 .. n] :
        /\ \A j \in 1 .. m : t[j] = s[c[j]] /\ s[c[j]].type = ty
        /\ \A i, j \in 1 .. m : c[i] = c[j] => i = j
        /\ \A i \in 1 .. n : s[i].type = ty => \E j \in 1 .. m : c[j] = i
  <2>1. s \in Seq(LogRecords)
    BY <1>1
  <2>2. \E c \in [1 .. Len(OfType(s, ty)) -> 1 .. Len(s)] :
           /\ \A j \in 1 .. Len(OfType(s, ty)) : OfType(s, ty)[j] = s[c[j]] /\ s[c[j]].type = ty
           /\ \A i, j \in 1 .. Len(OfType(s, ty)) : c[i] = c[j] => i = j
           /\ \A i \in 1 .. Len(s) : s[i].type = ty =>
                 \E j \in 1 .. Len(OfType(s, ty)) : c[j] = i
    BY <2>1, TypeFound
  <2>3. Len(s) = n
    BY <1>1
  <2>4. QED
    BY <2>2, <2>3
<1>3. t \in Seq(LogRecords)
  BY <1>1, TypeFound
<1>4. m \in Nat
  BY <1>3
<1>5. \A i \in 1 .. n : b[i].type = s[i].type
  BY <1>1 DEF Row
<1> HIDE DEF t, m
<1> DEFINE d == [j \in 1 .. m |-> b[c[j]]]
<1>6. \A j \in 1 .. m : d[j] = b[c[j]] /\ d[j] \in some
  BY <1>1, <1>2, <1>5
<1>7. d \in [1 .. m -> some]
  BY <1>6
<1> HIDE DEF d
<1>8. \A i, j \in 1 .. m : d[i] = d[j] => i = j
  BY <1>1, <1>2, <1>6
<1>9. \A r \in some : \E j \in 1 .. m : d[j] = r
  <2> SUFFICES ASSUME NEW r \in some PROVE \E j \in 1 .. m : d[j] = r
    OBVIOUS
  <2>1. PICK i \in 1 .. n : b[i] = r
    BY <1>1
  <2>2. s[i].type = ty
    BY <1>5, <2>1
  <2>3. QED
    BY <1>2, <1>6, <2>1, <2>2
<1>10. \A j \in 1 .. m : Row(d[j]) = t[j]
  BY <1>1, <1>2, <1>6
<1>11. Tabled(d, t, some, m)
  BY <1>3, <1>4, <1>7, <1>8, <1>9, <1>10 DEF Tabled, m
<1>12. QED
  BY <1>11 DEF t, m

\* For every limit and type the two may return the same lists of sync logs.
LEMMA SyncLogsAlike == LogInv => "logs" \in refused \/ SyncLogsAgree
<1> SUFFICES ASSUME LogInv, "logs" \notin refused PROVE SyncLogsAgree
  OBVIOUS
<1>1. PgLogCount(pg.logs) = MemLogCount(mem.logs)
  BY LogsNumbered DEF PgLogCount, MemLogCount
<1>2. PICK b : Tabled(b, mem.logs, pg.logs, Len(mem.logs))
  BY LogsTabled
<1>3. ASSUME NEW limit \in Nat
      PROVE  PgLogList(pg.logs, limit) = MemLogList(mem.logs, limit)
  BY <1>2, NewestAlike DEF PgLogList
<1>4. ASSUME NEW limit \in Nat, NEW ty
      PROVE  PgLogListByType(pg.logs, ty, limit) = MemLogListByType(mem.logs, ty, limit)
  <2> DEFINE t == OfType(mem.logs, ty)
             some == {r \in pg.logs : r.type = ty}
  <2>1. PICK d : Tabled(d, t, some, Len(t))
    BY <1>2, TypesTabled
  <2> HIDE DEF t, some
  <2>2. PgNewest(some, limit) = MemLogList(t, limit)
    BY <2>1, NewestAlike
  <2>3. QED
    BY <2>2 DEF PgLogListByType, MemLogListByType, t, some
<1>5. \A limit \in 0 .. MaxCalls : limit \in Nat
  BY RepositoryAssumption
<1>6. QED
  BY <1>1, <1>3, <1>4, <1>5 DEF SyncLogsAgree

\* After any sequence of calls the reads of the two implementations of a store
\* may give the same answers, unless it was given a value that PostgreSQL's
\* columns do not take: the lists of snapshots and sync logs with every order of
\* equal times, each limit and each type, the connectors as a set and but for
\* the ping an Upsert forgets, and the latest version.
THEOREM ReadsAreAlike == Spec => []ReadsAgree
<1>1. LogInv => /\ "logs" \in refused \/ SyncLogsAgree
                /\ "versions" \in refused \/ LatestAgree
  BY SyncLogsAlike, LatestAlike
<1>2. /\ "snapshots" \in refused \/ SnapshotsAgree
      /\ "logs" \in refused \/ SyncLogsAgree
      /\ "connectors" \in refused \/ ConnectorsAgree
      /\ "versions" \in refused \/ LatestAgree
      => ReadsAgree
  BY DEF ReadsAgree
<1>3. QED
  BY <1>1, <1>2, LogSafe, SnapshotsAreAlike, ConnectorsAreAlike, PTL
=============================================================================
