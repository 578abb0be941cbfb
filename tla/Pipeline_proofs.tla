--------------------------- MODULE Pipeline_proofs ---------------------------
(***************************************************************************)
(* From the ontology's documents to the graph, for every directory and     *)
(* every resource: the loader's verdict, inheritance, the rules' shared    *)
(* arrays, the mapping, validation, URIs and the assembled graph.          *)
(*                                                                         *)
(* The loader keeps three invariants, each used by the next: SearchInv     *)
(* (the two depth-first searches, up to LoadVerdict), MergeInv (what a     *)
(* merged type has, and why the order of the merges is safe) and RulesInv  *)
(* (which slices may share an array). GraphInv says of every accepted      *)
(* resource how it came about. What a loop over a mapping, rules or a      *)
(* template yields is shown by induction on its steps, named Renames,      *)
(* Replaces and Fills; what holds along a line of ancestors, by Descends.  *)
(***************************************************************************)
EXTENDS GraphAssembler, FiniteSetTheorems, SequenceTheorems, TLAPS

-----------------------------------------------------------------------------
(* Sequences, and the least and the greatest of a set of numbers.           *)

\* What a sequence holds after an append.
LEMMA Appended ==
    ASSUME NEW S, NEW s \in Seq(S), NEW e \in S
    PROVE  /\ Append(s, e) \in Seq(S) /\ Append(s, e) # <<>>
           /\ Len(Append(s, e)) = Len(s) + 1
           /\ \A i \in 1 .. Len(s) : Append(s, e)[i] = s[i]
           /\ Append(s, e)[Len(s) + 1] = e
           /\ ToSet(Append(s, e)) = ToSet(s) \cup {e}
<1>1. /\ Append(s, e) \in Seq(S) /\ Append(s, e) # <<>>
      /\ Len(Append(s, e)) = Len(s) + 1
      /\ \A i \in 1 .. Len(s) : Append(s, e)[i] = s[i]
      /\ Append(s, e)[Len(s) + 1] = e
  OBVIOUS
<1>2. DOMAIN s = 1 .. Len(s) /\ DOMAIN Append(s, e) = 1 .. Len(s) + 1 /\ Len(s) \in Nat
  BY <1>1
<1>3. 1 .. Len(s) + 1 = 1 .. Len(s) \cup {Len(s) + 1}
  BY <1>2
<1>4. QED
  BY <1>1, <1>2, <1>3 DEF ToSet

\* What a sequence holds without its last element.
LEMMA Fronted ==
    ASSUME NEW S, NEW s \in Seq(S), s # <<>>
    PROVE  /\ Front(s) \in Seq(S) /\ Len(Front(s)) = Len(s) - 1
           /\ \A i \in 1 .. Len(s) - 1 : Front(s)[i] = s[i]
           /\ Last(s) = s[Len(s)] /\ Last(s) \in S /\ Len(s) \in Nat \ {0}
           /\ ToSet(s) = ToSet(Front(s)) \cup {Last(s)}
<1>1. Len(s) \in Nat \ {0} /\ DOMAIN s = 1 .. Len(s)
  OBVIOUS
<1>2. /\ Front(s) \in Seq(S) /\ Len(Front(s)) = Len(s) - 1
      /\ \A i \in 1 .. Len(s) - 1 : Front(s)[i] = s[i]
  BY <1>1, SubSeqProperties DEF Front
<1>3. Last(s) = s[Len(s)] /\ Last(s) \in S
  BY <1>1 DEF Last
<1>4. DOMAIN Front(s) = 1 .. Len(s) - 1
  BY <1>2
<1>5. 1 .. Len(s) = 1 .. Len(s) - 1 \cup {Len(s)}
  BY <1>1
<1>6. QED
  BY <1>1, <1>2, <1>3, <1>4, <1>5 DEF ToSet

\* What a sequence holds without its first element.
LEMMA Tailed ==
    ASSUME NEW S, NEW s \in Seq(S), s # <<>>
    PROVE  /\ Tail(s) \in Seq(S) /\ Len(Tail(s)) = Len(s) - 1
           /\ \A i \in 1 .. Len(s) - 1 : Tail(s)[i] = s[i + 1]
           /\ Head(s) = s[1] /\ Head(s) \in S /\ Len(s) \in Nat \ {0}
           /\ ToSet(s) = ToSet(Tail(s)) \cup {Head(s)}
<1>1. Len(s) \in Nat \ {0} /\ DOMAIN s = 1 .. Len(s)
  OBVIOUS
<1>2. /\ Tail(s) \in Seq(S) /\ Len(Tail(s)) = Len(s) - 1
      /\ \A i \in 1 .. Len(s) - 1 : Tail(s)[i] = s[i + 1]
      /\ Head(s) = s[1] /\ Head(s) \in S
  BY <1>1
<1>3. DOMAIN Tail(s) = 1 .. Len(s) - 1
  BY <1>2
<1>4. ASSUME NEW x PROVE x \in ToSet(s) <=> x \in ToSet(Tail(s)) \cup {Head(s)}
  <2>1. ASSUME NEW i \in 1 .. Len(s), x = s[i], i # 1 PROVE x \in ToSet(Tail(s))
    <3>1. i - 1 \in 1 .. Len(s) - 1 /\ (i - 1) + 1 = i
      BY <1>1, <2>1
    <3>2. QED
      BY <1>2, <1>3, <2>1, <3>1 DEF ToSet
  <2>2. ASSUME NEW i \in 1 .. Len(s) - 1, x = Tail(s)[i] PROVE x \in ToSet(s)
    <3>1. i + 1 \in 1 .. Len(s)
      BY <1>1
    <3>2. QED
      BY <1>1, <1>2, <2>2, <3>1 DEF ToSet
  <2>3. Head(s) \in ToSet(s)
    BY <1>1, <1>2 DEF ToSet
  <2>4. QED
    BY <1>1, <1>2, <1>3, <2>1, <2>2, <2>3 DEF ToSet
<1>5. QED
  BY <1>1, <1>2, <1>4

\* Induction over an interval, from the pigeonhole principle: if D has 0 and
\* with each number below n the next one, but not n, then going one up in D is
\* an injection of 0 .. n into 1 .. n.
LEMMA Climbed ==
    ASSUME NEW n \in Nat, NEW D, 0 \in D, \A k \in 0 .. n - 1 : k \in D => k + 1 \in D
    PROVE  n \in D
<1> SUFFICES ASSUME n \notin D PROVE FALSE
  OBVIOUS
<1> DEFINE f == [x \in 0 .. n |-> IF x \in D THEN x + 1 ELSE x]
<1>1. f \in [0 .. n -> 1 .. n]
  <2> SUFFICES ASSUME NEW x \in 0 .. n
               PROVE  (IF x \in D THEN x + 1 ELSE x) \in 1 .. n
    OBVIOUS
  <2>1. x \in D => x # n
    OBVIOUS
  <2>2. x \notin D => x # 0
    OBVIOUS
  <2>3. QED
    BY <2>1, <2>2
<1>2. /\ IsFiniteSet(0 .. n) /\ IsFiniteSet(1 .. n)
      /\ Cardinality(1 .. n) < Cardinality(0 .. n)
  <2>1. 0 \in Int /\ 1 \in Int /\ n \in Int
    OBVIOUS
  <2>2. IsFiniteSet(0 .. n) /\ Cardinality(0 .. n) = IF 0 > n THEN 0 ELSE n - 0 + 1
    BY <2>1, FS_Interval
  <2>3. IsFiniteSet(1 .. n) /\ Cardinality(1 .. n) = IF 1 > n THEN 0 ELSE n - 1 + 1
    BY <2>1, FS_Interval
  <2>4. QED
    BY <2>2, <2>3
<1>3. \A x \in 0 .. n : f[x] = IF x \in D THEN x + 1 ELSE x
  OBVIOUS
<1>4. PICK x, y \in 0 .. n : x # y /\ f[x] = f[y]
  <2> HIDE DEF f
  <2>1. QED
    BY <1>1, <1>2, FS_PigeonHole
<1>5. QED
  <2> HIDE DEF f
  <2>1. (x \in D /\ y \notin D) \/ (x \notin D /\ y \in D)
    BY <1>3, <1>4
  <2>2. x \in Int /\ y \in Int
    OBVIOUS
  <2>3. ASSUME x \in D, y \notin D PROVE FALSE
    BY <1>3, <1>4, <2>2, <2>3
  <2>4. ASSUME y \in D, x \notin D PROVE FALSE
    BY <1>3, <1>4, <2>2, <2>4
  <2>5. QED
    BY <2>1, <2>3, <2>4

\* The values of a loop over 1 .. n, from x on; F[i] is what its body makes of
\* a value in S at i.
Body(F, n, S) == F \in [1 .. n -> [S -> S]]

Values(g, F, n, S, x) ==
    g \in [0 .. n -> S] /\ g[0] = x /\ \A i \in 1 .. n : g[i] = F[i][g[i - 1]]

\* A loop whose body is defined on every value has its values.
LEMMA Iterated ==
    ASSUME NEW n \in Nat, NEW S, NEW x \in S, NEW F, Body(F, n, S)
    PROVE  \E g : Values(g, F, n, S, x)
<1> USE DEF Body
<1> DEFINE Good(k, g) == g[0] = x /\ \A i \in 1 .. k : g[i] = F[i][g[i - 1]]
           D == {k \in 0 .. n : \E g \in [0 .. k -> S] : Good(k, g)}
<1>1. 0 \in D
  <2> DEFINE g == [i \in 0 .. 0 |-> x]
  <2>1. g \in [0 .. 0 -> S] /\ Good(0, g)
    OBVIOUS
  <2> HIDE DEF g
  <2>2. QED
    BY <2>1
<1>2. ASSUME NEW k \in 0 .. n - 1, k \in D PROVE k + 1 \in D
  <2>1. PICK g \in [0 .. k -> S] : Good(k, g)
    BY <1>2
  <2>2. k \in Nat /\ k + 1 \in 1 .. n /\ k + 1 \in 0 .. n
    OBVIOUS
  <2> DEFINE y == F[k + 1][g[k]]
             h == [i \in 0 .. k + 1 |-> IF i = k + 1 THEN y ELSE g[i]]
  <2>3. y \in S
    <3>1. g[k] \in S
      BY <2>1, <2>2
    <3>2. F[k + 1] \in [S -> S]
      BY <2>2
    <3>3. QED
      BY <3>1, <3>2
  <2>4. h \in [0 .. k + 1 -> S]
    <3> HIDE DEF y
    <3> SUFFICES ASSUME NEW i \in 0 .. k + 1 PROVE (IF i = k + 1 THEN y ELSE g[i]) \in S
      OBVIOUS
    <3>1. i # k + 1 => i \in 0 .. k
      BY <2>2
    <3>2. QED
      BY <2>1, <2>3, <3>1
  <2>5. /\ h[k + 1] = y
        /\ \A i \in 0 .. k : h[i] = g[i]
    <3> HIDE DEF y
    <3>1. \A i \in 0 .. k : i \in 0 .. k + 1 /\ i # k + 1
      BY <2>2
    <3>2. k + 1 \in 0 .. k + 1
      BY <2>2
    <3>3. QED
      BY <3>1, <3>2
  <2>6. Good(k + 1, h)
    <3>1. h[0] = x
      BY <2>1, <2>2, <2>5
    <3>2. ASSUME NEW i \in 1 .. k + 1 PROVE h[i] = F[i][h[i - 1]]
      <4> HIDE DEF h
      <4>1. CASE i = k + 1
        <5>1. i - 1 = k /\ k \in 0 .. k
          BY <2>2, <4>1
        <5>2. QED
          BY <2>5, <4>1, <5>1
      <4>2. CASE i # k + 1
        <5>1. i \in 1 .. k /\ i \in 0 .. k /\ i - 1 \in 0 .. k
          BY <2>2, <4>2
        <5>2. QED
          BY <2>1, <2>5, <5>1
      <4>3. QED
        BY <4>1, <4>2
    <3>3. QED
      BY <3>1, <3>2
  <2>7. QED
    BY <2>2, <2>4, <2>6
<1>3. n \in D
  <2> HIDE DEF D
  <2>1. QED
    BY <1>1, <1>2, Climbed
<1>4. QED
  BY <1>3 DEF Values

\* A set of numbers that is not empty has a least one.
LEMMA Least ==
    ASSUME NEW S \in SUBSET Nat, S # {}
    PROVE  Min(S) \in S /\ \A x \in S : Min(S) <= x
<1>1. \E m \in S : \A x \in S : m <= x
  <2> SUFFICES ASSUME \A m \in S : \E x \in S : x < m PROVE FALSE
    OBVIOUS
  <2>1. PICK n \in S : TRUE
    OBVIOUS
  <2> DEFINE D == {k \in 0 .. n : \E x \in S : x <= n - k}
  <2>2. 0 \in D
    BY <2>1
  <2>3. ASSUME NEW k \in 0 .. n - 1, k \in D PROVE k + 1 \in D
    <3>1. PICK x \in S : x <= n - k
      BY <2>3
    <3>2. PICK y \in S : y < x
      OBVIOUS
    <3>3. y <= n - (k + 1) /\ k + 1 \in 0 .. n
      BY <2>1, <3>1, <3>2
    <3>4. QED
      BY <3>3
  <2>4. n \in D
    <3> HIDE DEF D
    <3>1. QED
      BY <2>1, <2>2, <2>3, Climbed
  <2>5. PICK x \in S : x <= n - n
    BY <2>4
  <2>6. x = 0
    BY <2>5
  <2>7. QED
    BY <2>6
<1>2. QED
  BY <1>1 DEF Min

\* A set of numbers up to n that is not empty has a greatest one.
LEMMA Greatest ==
    ASSUME NEW n \in Nat, NEW S \in SUBSET (1 .. n), S # {}
    PROVE  Max(S) \in S /\ \A x \in S : Max(S) >= x
<1> DEFINE T == {n - x : x \in S}
<1>1. T \in SUBSET Nat /\ T # {}
  <2>1. \A x \in S : n - x \in Nat
    OBVIOUS
  <2>2. QED
    BY <2>1
<1>2. Min(T) \in T /\ \A y \in T : Min(T) <= y
  <2> HIDE DEF T
  <2>1. QED
    BY <1>1, Least
<1>3. PICK m \in S : Min(T) = n - m
  BY <1>2
<1>4. \A x \in S : m >= x
  <2> SUFFICES ASSUME NEW x \in S PROVE m >= x
    OBVIOUS
  <2>1. n - x \in T
    OBVIOUS
  <2>2. n - m <= n - x
    BY <1>2, <1>3, <2>1
  <2>3. QED
    BY <2>2
<1>5. QED
  BY <1>4 DEF Max
-----------------------------------------------------------------------------
(* The search for cycles and the sorting.                                   *)

\* The type a declared type extends, 0 for one nobody declares.
Up(n) == IF n \in Names THEN Parent(n) ELSE 0

Kids  == {t \in Names : Parent(t) # 0}
Black == visited \ inStack

\* Nodes in a row, each with its parent behind it, none twice.
Chain(s) ==
    /\ s \in Seq(Nat \ {0})
    /\ \A i, j \in 1 .. Len(s) : s[i] = s[j] => i = j
    /\ \A i \in 1 .. Len(s) - 1 : Up(s[i]) = s[i + 1]

\* The documents are registered, and no merge changes what a type extends.
Read == DOMAIN types = Names /\ \A t \in Names : types[t].extends = Parent(t)

\* The calls under way climb from child to parent.
Searching ==
    /\ Chain(path)
    /\ call \in Nat
    /\ path # <<>> /\ call # 0 => call = Up(Last(path))

\* detectCycle: the nodes it is through with lead to such nodes only, and to
\* no cycle.
Coloured ==
    /\ inStack = ToSet(path) /\ inStack \subseteq visited
    /\ path # <<>> /\ call = 0 => Up(Last(path)) \in {0} \cup Black
    /\ \A t \in Black : Up(t) \in {0} \cup Black
    /\ \A S \in SUBSET Black : S # {} => \E t \in S : Up(t) \notin S
    /\ 0 \notin visited
    /\ todo \subseteq Kids
    /\ Kids \ todo \subseteq visited \cup {call}
    /\ order = <<>>

\* Nodes, none twice, each behind its parent.
Sorted(s) ==
    /\ s \in Seq(Nat \ {0})
    /\ \A i, j \in 1 .. Len(s) : s[i] = s[j] => i = j
    /\ \A i \in 1 .. Len(s) : Up(s[i]) # 0 => \E j \in 1 .. i - 1 : s[j] = Up(s[i])

\* topoSort: what is visited is sorted or on the way.
Sorting ==
    /\ ~Cyclic
    /\ Sorted(order)
    /\ visited = ToSet(path) \cup ToSet(order)
    /\ ToSet(path) \cap ToSet(order) = {}
    /\ path # <<>> /\ call = 0 => Up(Last(path)) \in {0} \cup ToSet(order)
    /\ todo \subseteq Nat \ {0}
    /\ Kids \subseteq todo \cup visited \cup {call}

\* The types still to be merged: those that are have a parent.
Merging ==
    /\ ~Cyclic
    /\ order \in Seq(Nat \ {0})
    /\ \A t \in Kids : Parent(t) \in Names \/ t \in ToSet(order)

SearchInv ==
    /\ docs \in Directories
    /\ pc # "failed" => why = "none"
    /\ pc \in {"cycle", "topo", "merge", "ready"} => Read
    /\ pc = "read" => visited = {} /\ inStack = {} /\ path = <<>> /\ call = 0 /\ order = <<>>
    /\ pc = "cycle" => Searching /\ Coloured
    /\ pc = "topo" => Searching /\ Sorting
    /\ pc = "merge" => Merging
    /\ LoadVerdict

\* What the documents of a directory say.
LEMMA Declarations ==
    ASSUME docs \in Directories
    PROVE  /\ Names \subseteq Nat \ {0}
           /\ \A t \in Names : /\ Declared(t) = docs[Registered("entity")[t]]
                               /\ Registered("entity")[t] \in Of("entity")
                               /\ docs[Registered("entity")[t]].name = t
                               /\ Parent(t) \in Nat
                               /\ "extends" \in DOMAIN Declared(t)
                               /\ Declared(t).rules \in Seq(ToSet(Declared(t).rules))
           /\ \A n : Up(n) \in Nat /\ (Up(n) # 0 => n \in Kids)
           /\ Kids \subseteq Names /\ 0 \notin Kids
<1> DEFINE last == Registered("entity")
           of(n) == {i \in Of("entity") : docs[i].name = n}
<1>1. Names = {docs[i].name : i \in Of("entity")} /\ \A t \in Names : last[t] = Max(of(t))
  BY DEF Registered, Names
<1>2. docs \in Seq(ToSet(docs)) /\ DOMAIN docs = 1 .. Len(docs) /\ Len(docs) \in Nat
  BY DirectoriesAssumption
<1>3. ASSUME NEW i \in Of("entity")
      PROVE  /\ docs[i].name \in Nat \ {0} /\ docs[i].extends \in Nat
             /\ "extends" \in DOMAIN docs[i]
             /\ docs[i].rules \in Seq(ToSet(docs[i].rules))
  <2>1. i \in DOMAIN docs /\ docs[i].kind = "entity"
    BY DEF Of
  <2>2. docs[i] \in ToSet(docs)
    BY <2>1 DEF ToSet
  <2>3. QED
    BY <2>1, <2>2, DirectoriesAssumption
<1>4. ASSUME NEW t \in Names PROVE last[t] \in of(t)
  <2>1. of(t) \subseteq 1 .. Len(docs) /\ of(t) # {}
    BY <1>1, <1>2 DEF Of
  <2>2. Max(of(t)) \in of(t)
    <3> HIDE DEF of
    <3>1. QED
      BY <1>2, <2>1, Greatest
  <2>3. QED
    BY <1>1, <2>2
<1>5. Names \subseteq Nat \ {0}
  BY <1>1, <1>3
<1>6. ASSUME NEW t \in Names
      PROVE  /\ Declared(t) = docs[last[t]] /\ last[t] \in Of("entity")
             /\ docs[last[t]].name = t
             /\ Parent(t) \in Nat /\ "extends" \in DOMAIN Declared(t)
             /\ Declared(t).rules \in Seq(ToSet(Declared(t).rules))
  <2> HIDE DEF last
  <2>1. Declared(t) = docs[last[t]]
    BY DEF Declared, last
  <2>2. last[t] \in Of("entity") /\ docs[last[t]].name = t
    BY <1>4
  <2>3. QED
    BY <1>3, <2>1, <2>2 DEF Parent
<1>7. \A n : Up(n) \in Nat /\ (Up(n) # 0 => n \in Kids)
  BY <1>6 DEF Up, Kids
<1>8. Kids \subseteq Names /\ 0 \notin Kids
  BY <1>5 DEF Kids
<1>9. QED
  BY <1>5, <1>6, <1>7, <1>8

\* A cycle is a set of types each with its parent in it.
LEMMA Cycles ==
    Cyclic <=> \E S : S # {} /\ S \subseteq Names /\ \A t \in S : Parent(t) \in S
BY DEF Cyclic

\* Climbing along a chain does not come back to it, unless there is a cycle.
LEMMA NoWayBack ==
    ASSUME docs \in Directories, NEW s, Chain(s), s # <<>>, Up(Last(s)) \in ToSet(s)
    PROVE  Cyclic
<1>1. s \in Seq(Nat \ {0}) /\ Len(s) \in Nat \ {0} /\ DOMAIN s = 1 .. Len(s)
  BY DEF Chain
<1>2. PICK j \in 1 .. Len(s) : Up(s[Len(s)]) = s[j]
  BY <1>1 DEF ToSet, Last
<1> DEFINE S == {s[i] : i \in j .. Len(s)}
<1>3. ASSUME NEW i \in j .. Len(s) PROVE s[i] \in Names /\ Parent(s[i]) \in S
  <2>1. Up(s[i]) \in S /\ Up(s[i]) # 0
    <3>1. CASE i = Len(s)
      BY <1>1, <1>2, <3>1
    <3>2. CASE i # Len(s)
      <4>1. i \in 1 .. Len(s) - 1 /\ i + 1 \in j .. Len(s)
        <5>1. Len(s) \in Nat /\ j \in Nat /\ j >= 1 /\ i \in Nat
          BY <1>1
        <5>2. QED
          BY <3>2, <5>1
      <4>2. Up(s[i]) = s[i + 1] /\ s[i + 1] # 0
        BY <1>1, <4>1 DEF Chain
      <4>3. QED
        BY <4>1, <4>2
    <3>3. QED
      BY <3>1, <3>2
  <2>2. QED
    BY <2>1 DEF Up
<1>4. S # {} /\ S \subseteq Names /\ \A t \in S : Parent(t) \in S
  <2>1. j \in j .. Len(s)
    BY <1>1, <1>2
  <2>2. QED
    BY <1>3, <2>1
<1>5. QED
  <2> HIDE DEF S
  <2>1. QED
    BY <1>4, Cycles

\* A chain grows by the parent of its last.
LEMMA ChainGrows ==
    ASSUME docs \in Directories, NEW s, Chain(s), NEW c \in Nat \ {0}, c \notin ToSet(s),
           s # <<>> => c = Up(Last(s))
    PROVE  Chain(Append(s, c))
<1> DEFINE a == Append(s, c)
<1>1. /\ s \in Seq(Nat \ {0}) /\ Len(s) \in Nat /\ DOMAIN s = 1 .. Len(s)
      /\ \A i, j \in 1 .. Len(s) : s[i] = s[j] => i = j
      /\ \A i \in 1 .. Len(s) - 1 : Up(s[i]) = s[i + 1]
  BY DEF Chain
<1>2. /\ a \in Seq(Nat \ {0}) /\ Len(a) = Len(s) + 1 /\ a[Len(s) + 1] = c
      /\ \A i \in 1 .. Len(s) : a[i] = s[i]
  BY <1>1, Appended
<1>3. \A i \in 1 .. Len(s) : s[i] # c
  BY <1>1 DEF ToSet
<1> HIDE DEF a
<1>4. \A i, j \in 1 .. Len(a) : a[i] = a[j] => i = j
  <2> SUFFICES ASSUME NEW i \in 1 .. Len(s) + 1, NEW j \in 1 .. Len(s) + 1, a[i] = a[j]
               PROVE  i = j
    BY <1>2
  <2>1. CASE i = Len(s) + 1 \/ j = Len(s) + 1
    BY <1>1, <1>2, <1>3, <2>1
  <2>2. CASE i # Len(s) + 1 /\ j # Len(s) + 1
    <3>1. i \in 1 .. Len(s) /\ j \in 1 .. Len(s)
      <4>1. Len(s) \in Nat
        BY <1>1
      <4>2. QED
        BY <2>2, <4>1
    <3>2. QED
      BY <1>1, <1>2, <3>1
  <2>3. QED
    BY <2>1, <2>2
<1>5. ASSUME NEW i \in 1 .. Len(a) - 1 PROVE Up(a[i]) = a[i + 1]
  <2>1. i \in 1 .. Len(s)
    BY <1>1, <1>2
  <2>2. CASE i = Len(s)
    <3>1. s # <<>>
      BY <1>1, <2>1
    <3>2. QED
      BY <1>1, <1>2, <2>1, <2>2, <3>1 DEF Last
  <2>3. CASE i # Len(s)
    <3>1. i \in 1 .. Len(s) - 1 /\ i + 1 \in 1 .. Len(s)
      <4>1. Len(s) \in Nat
        BY <1>1
      <4>2. QED
        BY <2>1, <2>3, <4>1
    <3>2. QED
      BY <1>1, <1>2, <2>1, <3>1
  <2>4. QED
    BY <2>2, <2>3
<1>6. QED
  BY <1>2, <1>4, <1>5 DEF Chain, a

\* A chain without its last is one, and that one is not in it.
LEMMA ChainShrinks ==
    ASSUME NEW s, Chain(s), s # <<>>
    PROVE  /\ Chain(Front(s)) /\ Last(s) \in Nat \ {0}
           /\ ToSet(s) = ToSet(Front(s)) \cup {Last(s)}
           /\ Last(s) \notin ToSet(Front(s))
           /\ Front(s) # <<>> => Up(Last(Front(s))) = Last(s)
<1> DEFINE f == Front(s)
<1>1. /\ s \in Seq(Nat \ {0}) /\ DOMAIN s = 1 .. Len(s)
      /\ \A i, j \in 1 .. Len(s) : s[i] = s[j] => i = j
      /\ \A i \in 1 .. Len(s) - 1 : Up(s[i]) = s[i + 1]
  BY DEF Chain
<1>2. /\ f \in Seq(Nat \ {0}) /\ Len(f) = Len(s) - 1
      /\ \A i \in 1 .. Len(s) - 1 : f[i] = s[i]
      /\ Last(s) = s[Len(s)] /\ Last(s) \in Nat \ {0} /\ Len(s) \in Nat \ {0}
      /\ ToSet(s) = ToSet(f) \cup {Last(s)}
  BY <1>1, Fronted
<1> HIDE DEF f
<1>3. \A i, j \in 1 .. Len(f) : f[i] = f[j] => i = j
  BY <1>1, <1>2
<1>4. \A i \in 1 .. Len(f) - 1 : Up(f[i]) = f[i + 1]
  BY <1>1, <1>2
<1>5. Last(s) \notin ToSet(f)
  <2>1. DOMAIN f = 1 .. Len(s) - 1
    BY <1>2
  <2>2. \A i \in 1 .. Len(s) - 1 : f[i] # s[Len(s)]
    BY <1>1, <1>2
  <2>3. QED
    BY <1>2, <2>1, <2>2 DEF ToSet
<1>6. f # <<>> => Up(Last(f)) = Last(s)
  <2> SUFFICES ASSUME f # <<>> PROVE Up(Last(f)) = Last(s)
    OBVIOUS
  <2>1. Len(s) - 1 \in 1 .. Len(s) - 1 /\ (Len(s) - 1) + 1 = Len(s)
    BY <1>2
  <2>2. QED
    BY <1>1, <1>2, <2>1 DEF Last
<1>7. QED
  BY <1>2, <1>3, <1>4, <1>5, <1>6 DEF Chain, f

\* What is said of the documents stays as they do.
LEMMA DocsKept ==
    ASSUME docs' = docs
    PROVE  /\ Names' = Names /\ Kids' = Kids /\ (Cyclic' <=> Cyclic) /\ Orphans' = Orphans
           /\ \A n : Up(n)' = Up(n) /\ Parent(n)' = Parent(n) /\ Declared(n)' = Declared(n)
<1>1. /\ Names' = Names
      /\ \A n : Declared(n)' = Declared(n)
  BY DEF Names, Declared, Registered, Of
<1>2. \A n : Parent(n)' = Parent(n)
  BY <1>1 DEF Parent
<1>3. \A n : Up(n)' = Up(n)
  BY <1>1, <1>2 DEF Up
<1>4. Kids' = Kids /\ (Cyclic' <=> Cyclic) /\ Orphans' = Orphans
  BY <1>1, <1>2 DEF Kids, Cyclic, Orphans
<1>5. QED
  BY <1>1, <1>2, <1>3, <1>4

\* What is said of reading holds as long as nothing is read.
LEMMA ReadKept ==
    ASSUME docs' = docs, Read, DOMAIN types' = DOMAIN types,
           \A t \in Names : types'[t].extends = types[t].extends
    PROVE  Read'
BY DocsKept DEF Read

\* And what is said of a search, as long as the types and the search stand still.
LEMMA SearchingKept ==
    ASSUME docs' = docs, Chain(path'), call' \in Nat,
           path' # <<>> /\ call' # 0 => call' = Up(Last(path'))
    PROVE  Searching'
<1>1. Chain(path)'
  BY DocsKept DEF Chain
<1>2. QED
  BY <1>1, DocsKept DEF Searching

\* After the documents, the parent of a type is what it declares.
LEMMA ParentsDeclared ==
    ASSUME Read
    PROVE  \A n : ParentOf(n) = Up(n)
BY DEF Read, ParentOf, Up

\* A type that extends another is in the search from the start.
LEMMA KidsRead ==
    ASSUME Read
    PROVE  Children(types) = Kids
BY DEF Read, Children, Kids

\* Nothing has been read at the start.
LEMMA SearchInit == Init => SearchInv
BY DEF Init, LoadInit, SearchInv, LoadVerdict

\* Reading the directory.
LEMMA SearchLoad ==
    ASSUME SearchInv, LoadFromDir \/ NothingFound \/ Load
    PROVE  SearchInv'
<1>1. CASE LoadFromDir \/ NothingFound
  <2>1. /\ docs' = docs /\ pc' = "failed" /\ why' \in {"document", "empty"}
    BY <1>1 DEF LoadFromDir, NothingFound, Fails, registry
  <2>2. QED
    BY <2>1 DEF SearchInv, LoadVerdict
<1>2. CASE Load
  <2> DEFINE last == Registered("entity")
             ts == [n \in DOMAIN last |->
                     [docs[last[n]] EXCEPT !.rules = [arr |-> last[n], len |-> Len(@)]]]
  <2>1. /\ pc = "read" /\ types' = ts /\ todo' = Children(ts) /\ docs' = docs /\ why' = why
        /\ pc' = IF Children(ts) = {} THEN "ready" ELSE "cycle"
        /\ call' = call /\ path' = path /\ visited' = visited /\ inStack' = inStack
        /\ order' = order
    BY <1>2 DEF Load
  <2>2. /\ docs \in Directories /\ why = "none" /\ visited = {} /\ inStack = {}
        /\ path = <<>> /\ call = 0 /\ order = <<>>
    BY <2>1 DEF SearchInv
  <2>3. DOMAIN ts = Names /\ \A t \in Names : ts[t].extends = Parent(t)
    <3>1. DOMAIN ts = Names
      BY DEF Names
    <3>2. ASSUME NEW t \in Names PROVE ts[t].extends = Parent(t)
      <4>1. ts[t] = [docs[last[t]] EXCEPT !.rules = [arr |-> last[t], len |-> Len(@)]]
        BY DEF Names
      <4>2. "extends" \in DOMAIN docs[last[t]] /\ Declared(t) = docs[last[t]]
        BY <2>2, Declarations
      <4> HIDE DEF ts, last
      <4>3. QED
        BY <4>1, <4>2 DEF Parent
    <3>3. QED
      BY <3>1, <3>2
  <2> HIDE DEF ts, last
  <2>4. Children(ts) = Kids
    BY <2>3 DEF Children, Kids
  <2>5. Read'
    BY <2>1, <2>3, DocsKept DEF Read
  <2>6. CASE Kids = {}
    <3>1. pc' = "ready"
      BY <2>1, <2>4, <2>6
    <3>2. ~Cyclic /\ Orphans = {}
      <4>1. \A t \in Names : Parent(t) = 0
        BY <2>6 DEF Kids
      <4>2. 0 \notin Names
        BY <2>2, Declarations
      <4>3. QED
        BY <4>1, <4>2, Cycles DEF Orphans
    <3>3. LoadVerdict'
      BY <2>1, <2>2, <3>1, <3>2, DocsKept DEF LoadVerdict
    <3>4. QED
      BY <2>1, <2>2, <2>5, <3>1, <3>3 DEF SearchInv
  <2>7. CASE Kids # {}
    <3>1. pc' = "cycle"
      BY <2>1, <2>4, <2>7
    <3>2. Chain(path')
      BY <2>1, <2>2 DEF Chain
    <3>3. Searching'
      BY <2>1, <2>2, <3>2, SearchingKept
    <3>4. Coloured'
      BY <2>1, <2>2, <2>4, DocsKept DEF Coloured, Black, ToSet
    <3>5. LoadVerdict'
      BY <2>1, <2>2, <3>1 DEF LoadVerdict
    <3>6. QED
      BY <2>1, <2>2, <2>5, <3>1, <3>3, <3>4, <3>5 DEF SearchInv
  <2>8. QED
    BY <2>6, <2>7
<1>3. QED
  BY <1>1, <1>2

\* dfs of detectCycle, entered: a name on the stack closes a cycle along the
\* path, one already finished has a way up to the root.
LEMMA SearchDfsCall ==
    ASSUME SearchInv, DfsCall
    PROVE  SearchInv'
<1>1. /\ pc = "cycle" /\ docs \in Directories /\ why = "none" /\ Read /\ Searching /\ Coloured
      /\ call # 0
  BY DEF SearchInv, DfsCall
<1>2. CASE call \in inStack /\ Fails("cycle")
  <2>1. docs' = docs /\ pc' = "failed" /\ why' = "cycle"
    BY <1>2 DEF Fails, registry
  <2>2. Chain(path) /\ call \in ToSet(path)
    BY <1>1, <1>2 DEF Searching, Coloured
  <2>3. path # <<>>
    BY <2>2 DEF ToSet
  <2>4. Cyclic
    BY <1>1, <2>2, <2>3, NoWayBack DEF Searching
  <2>5. QED
    BY <1>1, <2>1, <2>4, DocsKept DEF SearchInv, LoadVerdict
<1>3. CASE /\ call \in visited \ inStack /\ call' = 0
           /\ UNCHANGED <<registry, pc, why, todo, path, visited, inStack, order>>
  <2>1. /\ docs' = docs /\ types' = types /\ pc' = pc /\ why' = why /\ todo' = todo
        /\ path' = path /\ visited' = visited /\ inStack' = inStack /\ order' = order
    BY <1>3 DEF registry
  <2>2. Read'
    BY <1>1, <2>1, ReadKept
  <2>3. Searching'
    BY <1>1, <1>3, <2>1, SearchingKept DEF Searching
  <2>4. path # <<>> => Up(Last(path)) \in Black
    BY <1>1, <1>3 DEF Searching, Black
  <2>5. Coloured'
    BY <1>1, <1>3, <2>1, <2>4, DocsKept DEF Coloured, Black
  <2>6. LoadVerdict'
    BY <1>1, <2>1 DEF LoadVerdict
  <2>7. QED
    BY <1>1, <2>1, <2>2, <2>3, <2>5, <2>6 DEF SearchInv
<1>4. CASE /\ call \notin visited \cup inStack
           /\ visited' = visited \cup {call} /\ inStack' = inStack \cup {call}
           /\ path' = Append(path, call) /\ call' = ParentOf(call)
           /\ UNCHANGED <<registry, pc, why, todo, order>>
  <2>1. /\ docs' = docs /\ types' = types /\ pc' = pc /\ why' = why /\ todo' = todo
        /\ order' = order
    BY <1>4 DEF registry
  <2>2. Read'
    BY <1>1, <2>1, ReadKept
  <2>3. /\ Chain(path) /\ call \in Nat \ {0} /\ call \notin ToSet(path)
        /\ path # <<>> => call = Up(Last(path))
    BY <1>1, <1>4 DEF Searching, Coloured
  <2>4. Chain(path')
    BY <1>1, <1>4, <2>3, ChainGrows
  <2>5. path' # <<>> /\ Last(path') = call /\ ToSet(path') = ToSet(path) \cup {call}
    BY <1>4, <2>3, Appended DEF Chain, Last
  <2>6. call' = Up(call) /\ call' \in Nat
    BY <1>1, <1>4, ParentsDeclared, Declarations
  <2>7. Searching'
    BY <2>1, <2>4, <2>5, <2>6, SearchingKept
  <2>8. Black' = Black
    BY <1>1, <1>4 DEF Coloured, Black
  <2>9. /\ inStack' = ToSet(path') /\ inStack' \subseteq visited' /\ 0 \notin visited'
        /\ path' # <<>> /\ call' = 0 => Up(Last(path')) \in {0} \cup Black'
        /\ \A t \in Black' : Up(t) \in {0} \cup Black'
        /\ \A S \in SUBSET Black' : S # {} => \E t \in S : Up(t) \notin S
        /\ todo' \subseteq Kids /\ Kids \ todo' \subseteq visited' \cup {call'}
        /\ order' = <<>>
    BY <1>1, <1>4, <2>1, <2>3, <2>5, <2>6, <2>8 DEF Coloured
  <2>10. Coloured'
    BY <2>1, <2>9, DocsKept DEF Coloured
  <2>11. LoadVerdict'
    BY <1>1, <2>1 DEF LoadVerdict
  <2>12. QED
    BY <1>1, <2>1, <2>2, <2>7, <2>10, <2>11 DEF SearchInv
<1>5. QED
  BY <1>2, <1>3, <1>4 DEF DfsCall

\* dfs of detectCycle, left: the last name of the path is finished.
LEMMA SearchDfsReturn ==
    ASSUME SearchInv, DfsReturn
    PROVE  SearchInv'
<1> DEFINE l == Last(path)
<1>1. /\ pc = "cycle" /\ docs \in Directories /\ why = "none" /\ Read /\ Searching /\ Coloured
      /\ call = 0 /\ path # <<>> /\ inStack' = inStack \ {l} /\ path' = Front(path)
      /\ docs' = docs /\ types' = types /\ pc' = pc /\ why' = why /\ todo' = todo
      /\ call' = call /\ visited' = visited /\ order' = order
  BY DEF SearchInv, DfsReturn, registry
<1>2. /\ Chain(path') /\ l \in Nat \ {0} /\ ToSet(path) = ToSet(path') \cup {l}
      /\ l \notin ToSet(path')
      /\ path' # <<>> => Up(Last(path')) = l
  BY <1>1, ChainShrinks DEF Searching
<1> HIDE DEF l
<1>3. Read'
  BY <1>1, ReadKept
<1>4. Searching'
  BY <1>1, <1>2, SearchingKept
<1>5. Up(l) \in {0} \cup Black
  BY <1>1 DEF Coloured, l
<1>6. Black' = Black \cup {l} /\ l \notin Black /\ 0 \notin Black
  BY <1>1, <1>2 DEF Coloured, Black
<1>7. \A t \in Black : Up(t) \in {0} \cup Black
  BY <1>1 DEF Coloured
<1>8. \A t \in Black' : Up(t) \in {0} \cup Black'
  BY <1>5, <1>6, <1>7
<1>9. ASSUME NEW S \in SUBSET Black', S # {} PROVE \E t \in S : Up(t) \notin S
  <2>1. CASE S \cap Black = {}
    <3>1. S = {l}
      BY <1>6, <1>9, <2>1
    <3>2. Up(l) # l
      BY <1>2, <1>5, <1>6
    <3>3. QED
      BY <3>1, <3>2
  <2>2. CASE S \cap Black # {}
    <3>1. PICK t \in S \cap Black : Up(t) \notin S \cap Black
      <4>1. S \cap Black \in SUBSET Black
        OBVIOUS
      <4>2. QED
        BY <1>1, <2>2, <4>1 DEF Coloured
    <3>2. 0 \notin S
      BY <1>2, <1>6
    <3>3. QED
      BY <1>7, <3>1, <3>2
  <2>3. QED
    BY <2>1, <2>2
<1>10. /\ inStack' = ToSet(path') /\ inStack' \subseteq visited' /\ 0 \notin visited'
       /\ path' # <<>> /\ call' = 0 => Up(Last(path')) \in {0} \cup Black'
       /\ todo' \subseteq Kids /\ Kids \ todo' \subseteq visited' \cup {call'}
       /\ order' = <<>>
  BY <1>1, <1>2, <1>6 DEF Coloured
<1>11. Coloured'
  BY <1>1, <1>8, <1>9, <1>10, DocsKept DEF Coloured
<1>12. LoadVerdict'
  BY <1>1 DEF LoadVerdict
<1>13. QED
  BY <1>1, <1>3, <1>4, <1>11, <1>12 DEF SearchInv

\* The loop of detectCycle: every type has been visited when it ends, so no
\* cycle is left.
LEMMA SearchDfsNext ==
    ASSUME SearchInv, DfsNext
    PROVE  SearchInv'
<1>1. /\ pc = "cycle" /\ docs \in Directories /\ why = "none" /\ Read /\ Searching /\ Coloured
      /\ call = 0 /\ path = <<>>
      /\ docs' = docs /\ types' = types /\ why' = why
      /\ path' = path /\ inStack' = inStack /\ order' = order
  BY DEF SearchInv, DfsNext, registry
<1>2. Read'
  BY <1>1, ReadKept
<1>3. Chain(path')
  BY <1>1 DEF Searching
<1>4. Kids \subseteq Nat \ {0} /\ Names \subseteq Nat \ {0}
  BY <1>1, Declarations
<1>5. CASE /\ todo # {} /\ call' = Min(todo) /\ todo' = todo \ {Min(todo)}
           /\ UNCHANGED <<pc, visited>>
  <2>1. Min(todo) \in todo
    <3>1. todo \in SUBSET Nat
      BY <1>1, <1>4 DEF Coloured
    <3>2. QED
      BY <1>5, <3>1, Least
  <2>2. call' \in Nat
    BY <1>1, <1>4, <1>5, <2>1 DEF Coloured
  <2>3. Searching'
    BY <1>1, <1>3, <2>2, SearchingKept
  <2>4. Coloured'
    <3>1. Black' = Black
      BY <1>1, <1>5 DEF Black
    <3>2. todo' \subseteq Kids /\ Kids \ todo' \subseteq visited' \cup {call'}
      BY <1>1, <1>4, <1>5 DEF Coloured
    <3>3. QED
      BY <1>1, <1>5, <3>1, <3>2, DocsKept DEF Coloured
  <2>5. LoadVerdict'
    BY <1>1, <1>5 DEF LoadVerdict
  <2>6. QED
    BY <1>1, <1>2, <1>5, <2>3, <2>4, <2>5 DEF SearchInv
<1>6. CASE /\ todo = {} /\ pc' = "topo" /\ visited' = {} /\ call' = call
           /\ todo' = UNION {{t, types[t].extends} : t \in Children(types)}
  <2>1. ToSet(path) = {} /\ inStack = {} /\ Black = visited
    BY <1>1 DEF ToSet, Coloured, Black
  <2>2. Kids \subseteq Black
    BY <1>1, <1>4, <1>6, <2>1 DEF Coloured
  <2>3. ~Cyclic
    <3> SUFFICES ASSUME NEW S, S # {}, S \subseteq Names, \A t \in S : Parent(t) \in S
                 PROVE  FALSE
      BY Cycles
    <3>1. S \subseteq Kids
      BY <1>4 DEF Kids
    <3>2. PICK t \in S : Up(t) \notin S
      BY <1>1, <2>2, <3>1 DEF Coloured
    <3>3. QED
      BY <3>2 DEF Up
  <2>4. todo' = UNION {{t, types[t].extends} : t \in Kids}
    BY <1>1, <1>6, KidsRead
  <2>5. \A t \in Kids : types[t].extends = Parent(t) /\ Parent(t) \in Nat \ {0}
    BY <1>1, Declarations DEF Kids, Read
  <2>6. todo' \subseteq Nat \ {0} /\ Kids \subseteq todo'
    BY <1>4, <2>4, <2>5
  <2>7. Searching'
    BY <1>1, <1>3, <1>6, SearchingKept
  <2>8. Sorted(order')
    BY <1>1 DEF Coloured, Sorted
  <2>9. Sorting'
    <3>1. Sorted(order)'
      BY <1>1, <2>8, DocsKept DEF Sorted
    <3>2. ToSet(path') = {} /\ ToSet(order') = {} /\ path' = <<>> /\ call' = 0
      BY <1>1, <1>6 DEF ToSet, Coloured
    <3>3. /\ visited' = ToSet(path') \cup ToSet(order') /\ ToSet(path') \cap ToSet(order') = {}
          /\ todo' \subseteq Nat \ {0} /\ Kids \subseteq todo' \cup visited' \cup {call'}
      BY <1>6, <2>6, <3>2
    <3>4. QED
      BY <1>1, <2>3, <3>1, <3>2, <3>3, DocsKept DEF Sorting
  <2>10. LoadVerdict'
    BY <1>1, <1>6 DEF LoadVerdict
  <2>11. QED
    BY <1>1, <1>2, <1>6, <2>7, <2>9, <2>10 DEF SearchInv
<1>7. QED
  BY <1>5, <1>6 DEF DfsNext

\* dfs of topoSort, entered.
LEMMA SearchTopoCall ==
    ASSUME SearchInv, TopoCall
    PROVE  SearchInv'
<1>1. /\ pc = "topo" /\ docs \in Directories /\ why = "none" /\ Read /\ Searching /\ Sorting
      /\ call # 0
      /\ docs' = docs /\ types' = types /\ pc' = pc /\ why' = why /\ todo' = todo
      /\ order' = order
  BY DEF SearchInv, TopoCall, registry
<1>2. Read'
  BY <1>1, ReadKept
<1>3. Sorted(order)'
  BY <1>1, DocsKept DEF Sorted, Sorting
<1>4. LoadVerdict'
  BY <1>1 DEF LoadVerdict
<1>5. CASE call \in visited /\ call' = 0 /\ UNCHANGED <<path, visited>>
  <2>1. Searching'
    BY <1>1, <1>5, SearchingKept DEF Searching
  <2>2. path # <<>> => Up(Last(path)) \in {0} \cup ToSet(order)
    <3> SUFFICES ASSUME path # <<>> PROVE Up(Last(path)) \in {0} \cup ToSet(order)
      OBVIOUS
    <3>1. call = Up(Last(path)) /\ call \in ToSet(path) \cup ToSet(order)
      BY <1>1, <1>5 DEF Searching, Sorting
    <3>2. call \notin ToSet(path)
      BY <1>1, <3>1, NoWayBack DEF Searching, Sorting
    <3>3. QED
      BY <3>1, <3>2
  <2>3. Sorting'
    BY <1>1, <1>3, <1>5, <2>2, DocsKept DEF Sorting
  <2>4. QED
    BY <1>1, <1>2, <1>4, <2>1, <2>3 DEF SearchInv
<1>6. CASE /\ call \notin visited /\ visited' = visited \cup {call}
           /\ path' = Append(path, call) /\ call' = ParentOf(call)
  <2>1. /\ Chain(path) /\ call \in Nat \ {0} /\ call \notin ToSet(path)
        /\ path # <<>> => call = Up(Last(path))
    BY <1>1, <1>6 DEF Searching, Sorting
  <2>2. Chain(path')
    BY <1>1, <1>6, <2>1, ChainGrows
  <2>3. path' # <<>> /\ Last(path') = call /\ ToSet(path') = ToSet(path) \cup {call}
    BY <1>6, <2>1, Appended DEF Chain, Last
  <2>4. call' = Up(call) /\ call' \in Nat
    BY <1>1, <1>6, ParentsDeclared, Declarations
  <2>5. Searching'
    BY <1>1, <2>2, <2>3, <2>4, SearchingKept
  <2>6. /\ visited' = ToSet(path') \cup ToSet(order') /\ ToSet(path') \cap ToSet(order') = {}
        /\ path' # <<>> /\ call' = 0 => Up(Last(path')) \in {0} \cup ToSet(order')
        /\ todo' \subseteq Nat \ {0}
        /\ Kids \subseteq todo' \cup visited' \cup {call'}
    BY <1>1, <1>6, <2>3, <2>4 DEF Sorting
  <2>7. Sorting'
    BY <1>1, <1>3, <2>6, DocsKept DEF Sorting
  <2>8. QED
    BY <1>1, <1>2, <1>4, <2>5, <2>7 DEF SearchInv
<1>7. QED
  BY <1>5, <1>6 DEF TopoCall

\* Behind its parent, a type may be added to what is sorted.
LEMMA SortedGrows ==
    ASSUME NEW s, Sorted(s), NEW t \in Nat \ {0}, t \notin ToSet(s), Up(t) \in {0} \cup ToSet(s)
    PROVE  Sorted(Append(s, t)) /\ ToSet(Append(s, t)) = ToSet(s) \cup {t}
<1> DEFINE a == Append(s, t)
<1>1. /\ s \in Seq(Nat \ {0}) /\ Len(s) \in Nat /\ DOMAIN s = 1 .. Len(s)
      /\ \A i, j \in 1 .. Len(s) : s[i] = s[j] => i = j
      /\ \A i \in 1 .. Len(s) : Up(s[i]) # 0 => \E j \in 1 .. i - 1 : s[j] = Up(s[i])
  BY DEF Sorted
<1>2. /\ a \in Seq(Nat \ {0}) /\ Len(a) = Len(s) + 1 /\ a[Len(s) + 1] = t
      /\ \A i \in 1 .. Len(s) : a[i] = s[i]
      /\ ToSet(a) = ToSet(s) \cup {t}
  BY <1>1, Appended
<1>3. \A i \in 1 .. Len(s) : s[i] # t
  BY <1>1 DEF ToSet
<1>4. Up(t) # 0 => \E j \in 1 .. Len(s) : s[j] = Up(t)
  BY <1>1 DEF ToSet
<1> HIDE DEF a
<1>5. \A i \in 1 .. Len(s) + 1 : i # Len(s) + 1 => i \in 1 .. Len(s)
  BY <1>1
<1>6. \A i, j \in 1 .. Len(a) : a[i] = a[j] => i = j
  BY <1>1, <1>2, <1>3, <1>5
<1>7. ASSUME NEW i \in 1 .. Len(a), Up(a[i]) # 0
      PROVE  \E j \in 1 .. i - 1 : a[j] = Up(a[i])
  <2>1. CASE i = Len(s) + 1
    <3>1. PICK j \in 1 .. Len(s) : s[j] = Up(t)
      BY <1>2, <1>4, <1>7, <2>1
    <3>2. j \in 1 .. i - 1
      BY <1>1, <2>1
    <3>3. QED
      BY <1>2, <2>1, <3>1, <3>2
  <2>2. CASE i # Len(s) + 1
    <3>1. i \in 1 .. Len(s)
      BY <1>2, <1>5, <2>2
    <3>2. PICK j \in 1 .. i - 1 : s[j] = Up(s[i])
      BY <1>1, <1>2, <1>7, <3>1
    <3>3. j \in 1 .. Len(s)
      <4>1. Len(s) \in Nat
        BY <1>1
      <4>2. QED
        BY <3>1, <3>2, <4>1
    <3>4. QED
      BY <1>2, <3>1, <3>2, <3>3
  <2>3. QED
    BY <2>1, <2>2
<1>8. QED
  BY <1>2, <1>6, <1>7 DEF Sorted, a

\* dfs of topoSort, left: the last name of the path comes after its parent.
LEMMA SearchTopoReturn ==
    ASSUME SearchInv, TopoReturn
    PROVE  SearchInv'
<1> DEFINE l == Last(path)
<1>1. /\ pc = "topo" /\ docs \in Directories /\ why = "none" /\ Read /\ Searching /\ Sorting
      /\ call = 0 /\ path # <<>> /\ path' = Front(path) /\ order' = Append(order, l)
      /\ docs' = docs /\ types' = types /\ pc' = pc /\ why' = why /\ todo' = todo
      /\ call' = call /\ visited' = visited
  BY DEF SearchInv, TopoReturn, registry
<1>2. /\ Chain(path') /\ l \in Nat \ {0} /\ ToSet(path) = ToSet(path') \cup {l}
      /\ l \notin ToSet(path')
      /\ path' # <<>> => Up(Last(path')) = l
  BY <1>1, ChainShrinks DEF Searching
<1> HIDE DEF l
<1>3. Read'
  BY <1>1, ReadKept
<1>4. Searching'
  BY <1>1, <1>2, SearchingKept
<1>5. Sorted(order) /\ l \notin ToSet(order) /\ Up(l) \in {0} \cup ToSet(order)
  BY <1>1, <1>2 DEF Sorting, l
<1>6. Sorted(order') /\ ToSet(order') = ToSet(order) \cup {l}
  BY <1>1, <1>2, <1>5, SortedGrows
<1>7. Sorted(order)'
  BY <1>1, <1>6, DocsKept DEF Sorted
<1>8. /\ visited' = ToSet(path') \cup ToSet(order') /\ ToSet(path') \cap ToSet(order') = {}
      /\ path' # <<>> /\ call' = 0 => Up(Last(path')) \in {0} \cup ToSet(order')
      /\ todo' \subseteq Nat \ {0}
      /\ Kids \subseteq todo' \cup visited' \cup {call'}
  BY <1>1, <1>2, <1>6 DEF Sorting
<1>9. Sorting'
  BY <1>1, <1>7, <1>8, DocsKept DEF Sorting
<1>10. LoadVerdict'
  BY <1>1 DEF LoadVerdict
<1>11. QED
  BY <1>1, <1>3, <1>4, <1>9, <1>10 DEF SearchInv

\* The loop of topoSort: every child is in the order when it ends.
LEMMA SearchTopoNext ==
    ASSUME SearchInv, TopoNext
    PROVE  SearchInv'
<1>1. /\ pc = "topo" /\ docs \in Directories /\ why = "none" /\ Read /\ Searching /\ Sorting
      /\ call = 0 /\ path = <<>>
      /\ docs' = docs /\ types' = types /\ why' = why
      /\ path' = path /\ visited' = visited /\ order' = order
  BY DEF SearchInv, TopoNext, registry
<1>2. Read'
  BY <1>1, ReadKept
<1>3. Sorted(order)'
  BY <1>1, DocsKept DEF Sorted, Sorting
<1>4. CASE todo # {} /\ call' = Min(todo) /\ todo' = todo \ {Min(todo)} /\ UNCHANGED pc
  <2>1. Min(todo) \in todo
    <3>1. todo \in SUBSET Nat
      BY <1>1 DEF Sorting
    <3>2. QED
      BY <1>4, <3>1, Least
  <2>2. call' \in Nat
    BY <1>1, <1>4, <2>1 DEF Sorting
  <2>3. Searching'
    BY <1>1, <2>2, SearchingKept DEF Searching
  <2>4. Kids \subseteq todo' \cup visited' \cup {call'} /\ todo' \subseteq Nat \ {0}
    <3>1. 0 \notin Kids
      BY <1>1, Declarations
    <3>2. QED
      BY <1>1, <1>4, <3>1 DEF Sorting
  <2>5. Sorting'
    BY <1>1, <1>3, <2>4, DocsKept DEF Sorting
  <2>6. LoadVerdict'
    BY <1>1, <1>4 DEF LoadVerdict
  <2>7. QED
    BY <1>1, <1>2, <1>4, <2>3, <2>5, <2>6 DEF SearchInv
<1>5. CASE todo = {} /\ pc' = "merge" /\ UNCHANGED <<call, todo>>
  <2>1. ToSet(path) = {}
    BY <1>1 DEF ToSet
  <2>2. Kids \subseteq ToSet(order)
    <3>1. 0 \notin Kids
      BY <1>1, Declarations
    <3>2. QED
      BY <1>1, <1>5, <2>1, <3>1 DEF Sorting
  <2>3. Merging'
    BY <1>1, <2>2, DocsKept DEF Merging, Sorting, Sorted
  <2>4. LoadVerdict'
    BY <1>1, <1>5 DEF LoadVerdict
  <2>5. QED
    BY <1>1, <1>2, <1>5, <2>3, <2>4 DEF SearchInv
<1>6. QED
  BY <1>4, <1>5 DEF TopoNext

\* resolveInheritance: a parent that is not registered is an orphan's; merging
\* leaves the names and who extends whom alone.
LEMMA SearchMergeNext ==
    ASSUME SearchInv, MergeNext
    PROVE  SearchInv'
<1> DEFINE c == Head(order)
           p == ParentOf(c)
<1>1. /\ pc = "merge" /\ docs \in Directories /\ why = "none" /\ Read /\ Merging
      /\ order # <<>> /\ order' = Tail(order) /\ docs' = docs
  BY DEF SearchInv, MergeNext
<1>2. /\ order' \in Seq(Nat \ {0}) /\ ToSet(order) = ToSet(order') \cup {c}
  BY <1>1, Tailed DEF Merging
<1>3. p = Up(c)
  BY <1>1, ParentsDeclared
<1>4. ASSUME p = 0 \/ p \in DOMAIN types PROVE Merging'
  <2>1. c \in Kids => Parent(c) \in Names
    BY <1>1, <1>3, <1>4 DEF Up, Kids, Read
  <2>2. QED
    BY <1>1, <1>2, <2>1, DocsKept DEF Merging
<1>5. CASE p = 0 /\ UNCHANGED <<types, heap, pc, why>>
  <2>1. Read'
    BY <1>1, <1>5, ReadKept
  <2>2. QED
    BY <1>1, <1>4, <1>5, <2>1 DEF SearchInv, LoadVerdict
<1>6. CASE p # 0 /\ p \notin DOMAIN types /\ pc' = "failed" /\ why' = "parent"
  <2>1. c \in Names /\ Parent(c) \notin Names \cup {0}
    BY <1>1, <1>3, <1>6 DEF Up, Read
  <2>2. Orphans # {} /\ ~Cyclic
    BY <1>1, <2>1 DEF Orphans, Merging
  <2>3. QED
    BY <1>1, <1>6, <2>2, DocsKept DEF SearchInv, LoadVerdict
<1>7. CASE p \in DOMAIN types /\ mergeEntityType(c, p) /\ UNCHANGED <<pc, why>>
  <2>1. /\ DOMAIN types' = DOMAIN types
        /\ \A t \in DOMAIN types : types'[t].extends = types[t].extends
    BY <1>7 DEF mergeEntityType
  <2>2. Read'
    BY <1>1, <2>1, ReadKept DEF Read
  <2>3. QED
    BY <1>1, <1>4, <1>7, <2>2 DEF SearchInv, LoadVerdict
<1>8. QED
  BY <1>5, <1>6, <1>7 DEF MergeNext

\* With every child merged, every parent was found.
LEMMA SearchResolved ==
    ASSUME SearchInv, Resolved
    PROVE  SearchInv'
<1>1. /\ pc = "merge" /\ docs \in Directories /\ why = "none" /\ Read /\ Merging
      /\ order = <<>> /\ docs' = docs /\ types' = types /\ pc' = "ready" /\ why' = why
  BY DEF SearchInv, Resolved, registry
<1>2. Read'
  BY <1>1, ReadKept
<1>3. Orphans = {}
  <2>1. ToSet(order) = {}
    BY <1>1 DEF ToSet
  <2>2. QED
    BY <1>1, <2>1 DEF Orphans, Merging, Kids
<1>4. LoadVerdict'
  BY <1>1, <1>3, DocsKept DEF LoadVerdict, Merging
<1>5. QED
  BY <1>1, <1>2, <1>4 DEF SearchInv

\* The steps after the loading, and no step at all.
LEMMA SearchKept ==
    ASSUME SearchInv, UNCHANGED loadVars
    PROVE  SearchInv'
<1>1. /\ docs' = docs /\ types' = types /\ pc' = pc /\ why' = why /\ todo' = todo /\ call' = call
      /\ path' = path /\ visited' = visited /\ inStack' = inStack /\ order' = order
  BY DEF loadVars, registry, search
<1>2. Read' = Read /\ Searching' = Searching /\ Coloured' = Coloured /\ Sorting' = Sorting
      /\ Merging' = Merging
  <2>1. Read' = Read
    BY <1>1, DocsKept DEF Read
  <2>2. Searching' = Searching
    BY <1>1, DocsKept DEF Searching, Chain
  <2>3. Coloured' = Coloured
    BY <1>1, DocsKept DEF Coloured, Black
  <2>4. Sorting' = Sorting
    BY <1>1, DocsKept DEF Sorting, Sorted
  <2>5. Merging' = Merging
    BY <1>1, DocsKept DEF Merging
  <2>6. QED
    BY <2>1, <2>2, <2>3, <2>4, <2>5
<1>3. LoadVerdict' = LoadVerdict
  BY <1>1, DocsKept DEF LoadVerdict
<1>4. QED
  BY <1>1, <1>2, <1>3 DEF SearchInv

\* Every step of the loader, of Normalize and of Assemble.
LEMMA SearchStep == SearchInv /\ [Next]_pipeVars => SearchInv'
<1> SUFFICES ASSUME SearchInv, [Next]_pipeVars PROVE SearchInv'
  OBVIOUS
<1>1. CASE LoadStep
  BY <1>1, SearchLoad, SearchDfsCall, SearchDfsReturn, SearchDfsNext, SearchTopoCall,
     SearchTopoReturn, SearchTopoNext, SearchMergeNext, SearchResolved DEF LoadStep
<1>2. CASE UNCHANGED loadVars
  BY <1>2, SearchKept
<1>3. QED
  BY <1>1, <1>2 DEF Next, Normalize, Assemble, pipeVars

\* Load refuses a directory exactly for what is wrong with it, a circular
\* inheritance, else a parent nobody defines, and accepts every other one
\* (registry.go resolveInheritance, detectCycle, topoSort).
THEOREM LoadIsRight == Spec => []LoadVerdict
<1>1. Init => SearchInv
  BY SearchInit
<1>2. SearchInv /\ [Next]_pipeVars => SearchInv'
  BY SearchStep
<1>3. SearchInv => LoadVerdict
  BY DEF SearchInv
<1>4. QED
  BY <1>1, <1>2, <1>3, PTL DEF Spec

-----------------------------------------------------------------------------
(* The line of a type: itself and its ancestors.                            *)

\* The generations above t: itself, its parent and so on, 0 beyond the root.
Ancestry(g, t) ==
    /\ g \in [0 .. Cardinality(Names) -> Nat]
    /\ g[0] = t
    /\ \A i \in 1 .. Cardinality(Names) : g[i] = Up(g[i - 1])

\* A directory defines finitely many types.
LEMMA NamesFinite ==
    ASSUME docs \in Directories
    PROVE  IsFiniteSet(Names) /\ Cardinality(Names) \in Nat
<1> DEFINE E == Of("entity")
           f == [i \in E |-> docs[i].name]
<1>1. Names = {docs[i].name : i \in E}
  BY DEF Registered, Names
<1>2. DOMAIN docs = 1 .. Len(docs) /\ Len(docs) \in Nat
  BY DirectoriesAssumption
<1>3. IsFiniteSet(1 .. Len(docs))
  BY <1>2, FS_Interval
<1>4. E \subseteq 1 .. Len(docs)
  BY <1>2 DEF Of
<1>5. IsFiniteSet(E)
  <2> HIDE DEF E
  <2>1. QED
    BY <1>3, <1>4, FS_Subset
<1>6. f \in Surjection(E, Names)
  <2> HIDE DEF E
  <2>1. QED
    BY <1>1 DEF Surjection
<1>7. IsFiniteSet(Names)
  <2> HIDE DEF E, f
  <2>1. QED
    BY <1>5, <1>6, FS_Surjection
<1>8. QED
  BY <1>7, FS_CardinalityType

\* Line is made of the generations that are types.
LEMMA Ancestors ==
    ASSUME docs \in Directories, NEW t \in Nat
    PROVE  \E g : /\ Ancestry(g, t)
                  /\ Line(t) = [i \in {i \in 1 .. Cardinality(Names) : g[i - 1] \in Names} |-> g[i - 1]]
<1> DEFINE n == Cardinality(Names)
           F == [i \in 1 .. n |-> [x \in Nat |-> Up(x)]]
           Climbs(g) == g = [i \in 0 .. n |->
                              IF i = 0 THEN t
                              ELSE IF g[i - 1] \in Names THEN Parent(g[i - 1]) ELSE 0]
<1>1. n \in Nat
  BY NamesFinite
<1>2. Body(F, n, Nat)
  <2>1. \A x \in Nat : Up(x) \in Nat
    BY Declarations
  <2>2. QED
    BY <2>1 DEF Body
<1>3. \A i \in 1 .. n, x \in Nat : F[i][x] = Up(x)
  OBVIOUS
<1>4. PICK g : Values(g, F, n, Nat, t)
  <2> HIDE DEF n, F
  <2>1. QED
    BY <1>1, <1>2, Iterated
<1>5. ASSUME NEW i \in 0 .. n
      PROVE  g[i] = IF i = 0 THEN t
                    ELSE IF g[i - 1] \in Names THEN Parent(g[i - 1]) ELSE 0
  <2> HIDE DEF F, n
  <2>1. CASE i = 0
    BY <1>4, <2>1 DEF Values
  <2>2. CASE i # 0
    <3>1. i \in 1 .. n /\ i - 1 \in 0 .. n
      BY <1>1, <2>2
    <3>2. g[i] = F[i][g[i - 1]] /\ g[i - 1] \in Nat
      BY <1>4, <3>1 DEF Values
    <3>3. QED
      BY <1>3, <2>2, <3>1, <3>2 DEF Up
  <2>3. QED
    BY <2>1, <2>2
<1>6. Climbs(g)
  <2> HIDE DEF F
  <2>1. g = [i \in 0 .. n |-> g[i]]
    BY <1>4 DEF Values
  <2> HIDE DEF n
  <2>2. QED
    BY <1>5, <2>1
<1> DEFINE h == CHOOSE h : Climbs(h)
<1>7. Climbs(h)
  <2> HIDE DEF Climbs
  <2>1. QED
    BY <1>6
<1>8. Line(t) = [i \in {i \in 1 .. n : h[i - 1] \in Names} |-> h[i - 1]]
  BY DEF Line
<1> HIDE DEF h
<1>9. Ancestry(h, t)
  <2>1. h[0] = t
    BY <1>1, <1>7
  <2>2. \A i \in 1 .. n : h[i] = Up(h[i - 1])
    <3> SUFFICES ASSUME NEW i \in 1 .. n PROVE h[i] = Up(h[i - 1])
      OBVIOUS
    <3>1. i \in 0 .. n /\ i # 0
      BY <1>1
    <3> HIDE DEF n
    <3>2. QED
      BY <1>7, <3>1 DEF Up
  <2>3. \A i \in 0 .. n : h[i] \in Nat
    <3> SUFFICES ASSUME NEW i \in 0 .. n PROVE h[i] \in Nat
      OBVIOUS
    <3>1. i \in 1 .. n \/ i = 0
      BY <1>1
    <3>2. QED
      BY <2>1, <2>2, <3>1, Declarations
  <2>4. h \in [0 .. n -> Nat]
    <3>1. h = [i \in 0 .. n |-> h[i]]
      BY <1>7
    <3> HIDE DEF Climbs, n
    <3>2. QED
      BY <2>3, <3>1
  <2>5. QED
    BY <2>1, <2>2, <2>4 DEF Ancestry
<1>10. QED
  BY <1>8, <1>9

\* Induction from the roots down: there is no cycle, so a set of types that has
\* each type whose parent it has, and those without one, has all of them.
LEMMA Descends ==
    ASSUME ~Cyclic, NEW D, \A t \in Names : (Parent(t) \in Names => Parent(t) \in D) => t \in D
    PROVE  Names \subseteq D
<1> SUFFICES ASSUME ~(Names \subseteq D) PROVE FALSE
  OBVIOUS
<1> DEFINE S == Names \ D
<1>1. S # {} /\ S \subseteq Names
  OBVIOUS
<1>2. PICK t \in S : Parent(t) \notin S
  <2> HIDE DEF S
  <2>1. QED
    BY <1>1, Cycles
<1>3. QED
  BY <1>2

\* There are not as many generations as types.
LEMMA TopReached ==
    ASSUME docs \in Directories, ~Cyclic, NEW g, NEW t, Ancestry(g, t)
    PROVE  g[Cardinality(Names)] \notin Names
<1> SUFFICES ASSUME g[Cardinality(Names)] \in Names PROVE FALSE
  OBVIOUS
<1> DEFINE n == Cardinality(Names)
<1>1. n \in Nat /\ IsFiniteSet(Names)
  BY NamesFinite
<1>2. g \in [0 .. n -> Nat] /\ \A i \in 1 .. n : g[i] = Up(g[i - 1])
  BY DEF Ancestry
<1>3. g[n] \in Names
  OBVIOUS
<1> HIDE DEF n
<1>4. \A i \in 0 .. n : g[i] \in Names
  <2> SUFFICES ASSUME NEW i \in 0 .. n PROVE g[i] \in Names
    OBVIOUS
  <2> DEFINE D == {k \in 0 .. n - i : g[n - k] \in Names}
  <2>1. n - i \in Nat /\ n - 0 = n /\ n - (n - i) = i
    BY <1>1
  <2>2. 0 \in D
    BY <1>3, <2>1
  <2>3. ASSUME NEW k \in 0 .. (n - i) - 1, k \in D PROVE k + 1 \in D
    <3>1. n - k \in 1 .. n /\ (n - k) - 1 = n - (k + 1) /\ k + 1 \in 0 .. n - i
      BY <1>1
    <3>2. Up(g[n - (k + 1)]) \in Names
      BY <1>2, <2>3, <3>1
    <3>3. g[n - (k + 1)] \in Names
      BY <3>2, Declarations DEF Up
    <3>4. QED
      BY <3>1, <3>3
  <2>4. n - i \in D
    <3> HIDE DEF D
    <3>1. QED
      BY <2>1, <2>2, <2>3, Climbed
  <2>5. QED
    BY <2>1, <2>4
<1>5. IsFiniteSet(0 .. n) /\ Cardinality(0 .. n) = n + 1
  <2>1. 0 \in Int /\ n \in Int /\ ~(0 > n) /\ n - 0 + 1 = n + 1
    BY <1>1
  <2>2. QED
    BY <2>1, FS_Interval
<1>6. PICK i \in 0 .. n, j \in 0 .. n : i # j /\ g[i] = g[j]
  <2>1. g \in [0 .. n -> Names]
    BY <1>2, <1>4
  <2>2. Cardinality(Names) < Cardinality(0 .. n)
    BY <1>1, <1>5 DEF n
  <2>3. QED
    BY <1>1, <1>5, <2>1, <2>2, FS_PigeonHole
<1>7. ASSUME NEW a \in 0 .. n, NEW b \in 0 .. n, a < b, g[a] = g[b] PROVE FALSE
  <2> DEFINE S == {g[k] : k \in a + 1 .. b}
  <2>1. b \in a + 1 .. b /\ \A k \in a + 1 .. b : k \in 0 .. n /\ k \in 1 .. n
    BY <1>1, <1>7
  <2>2. S # {} /\ S \subseteq Names
    BY <1>4, <2>1
  <2>3. ASSUME NEW k \in a + 1 .. b PROVE Parent(g[k]) \in S
    <3>1. Parent(g[k]) = Up(g[k])
      BY <1>4, <2>1 DEF Up
    <3>2. CASE k = b
      <4>1. a + 1 \in 1 .. n /\ (a + 1) - 1 = a /\ a + 1 \in a + 1 .. b
        BY <1>1, <1>7
      <4>2. g[a + 1] = Up(g[a])
        BY <1>2, <4>1
      <4>3. QED
        BY <1>7, <3>1, <3>2, <4>1, <4>2
    <3>3. CASE k # b
      <4>1. k + 1 \in 1 .. n /\ (k + 1) - 1 = k /\ k + 1 \in a + 1 .. b
        BY <1>1, <3>3
      <4>2. g[k + 1] = Up(g[k])
        BY <1>2, <4>1
      <4>3. QED
        BY <3>1, <4>1, <4>2
    <3>4. QED
      BY <3>2, <3>3
  <2>4. \A x \in S : Parent(x) \in S
    BY <2>3
  <2> HIDE DEF S
  <2>5. QED
    BY <2>2, <2>4, Cycles
<1>8. i < j \/ j < i
  BY <1>6
<1>9. QED
  BY <1>6, <1>7, <1>8

\* The generations above t are those above its parent, one further.
LEMMA Generations ==
    ASSUME docs \in Directories, NEW t, NEW g, Ancestry(g, t), NEW h, Ancestry(h, Up(t)),
           NEW m \in 0 .. Cardinality(Names) - 1
    PROVE  g[m + 1] = h[m]
<1> DEFINE n == Cardinality(Names)
           D == {k \in 0 .. m : g[k + 1] = h[k]}
<1>1. n \in Nat /\ m \in Nat /\ m + 1 \in 1 .. n
  BY NamesFinite
<1>2. /\ g[0] = t /\ h[0] = Up(t)
      /\ \A i \in 1 .. n : g[i] = Up(g[i - 1]) /\ h[i] = Up(h[i - 1])
  BY DEF Ancestry
<1> HIDE DEF n
<1>3. 0 \in D
  <2>1. 1 \in 1 .. n /\ 1 - 1 = 0 /\ 0 + 1 = 1 /\ 0 \in 0 .. m
    BY <1>1
  <2>2. QED
    BY <1>2, <2>1
<1>4. ASSUME NEW k \in 0 .. m - 1, k \in D PROVE k + 1 \in D
  <2>1. /\ k + 1 \in 0 .. m /\ k + 1 \in 1 .. n /\ (k + 1) - 1 = k
        /\ (k + 1) + 1 \in 1 .. n /\ ((k + 1) + 1) - 1 = k + 1
    BY <1>1
  <2>2. g[(k + 1) + 1] = Up(g[k + 1]) /\ h[k + 1] = Up(h[k])
    BY <1>2, <2>1
  <2>3. QED
    BY <1>4, <2>1, <2>2
<1>5. m \in D
  <2> HIDE DEF D
  <2>1. QED
    BY <1>1, <1>3, <1>4, Climbed
<1>6. QED
  BY <1>5

\* The line of a type is itself and then the line of its parent.
LEMMA LineGrows ==
    ASSUME docs \in Directories, ~Cyclic, NEW t \in Names
    PROVE  /\ Line(t)[1] = t
           /\ Parent(t) \notin Names => DOMAIN Line(t) = {1}
           /\ Parent(t) \in Names =>
                 /\ DOMAIN Line(t) = {1} \cup {i + 1 : i \in DOMAIN Line(Parent(t))}
                 /\ \A i \in DOMAIN Line(Parent(t)) : Line(t)[i + 1] = Line(Parent(t))[i]
           /\ IsFiniteSet(DOMAIN Line(t)) /\ DOMAIN Line(t) \subseteq 1 .. Cardinality(Names)
<1> DEFINE n == Cardinality(Names)
           p == Parent(t)
<1>1. n \in Nat /\ IsFiniteSet(Names) /\ t \in Nat /\ p \in Nat /\ Up(t) = p
  BY NamesFinite, Declarations DEF Up
<1>2. 1 \in 1 .. n
  <2>1. Names # {}
    OBVIOUS
  <2>2. n # 0
    BY <1>1, <2>1, FS_EmptySet
  <2>3. QED
    BY <1>1, <2>2
<1>3. PICK g : Ancestry(g, t) /\ Line(t) = [i \in {i \in 1 .. n : g[i - 1] \in Names} |-> g[i - 1]]
  BY <1>1, Ancestors
<1>4. PICK h : Ancestry(h, p) /\ Line(p) = [i \in {i \in 1 .. n : h[i - 1] \in Names} |-> h[i - 1]]
  BY <1>1, Ancestors
<1>5. DOMAIN Line(t) = {i \in 1 .. n : g[i - 1] \in Names}
  BY <1>3
<1>6. DOMAIN Line(p) = {i \in 1 .. n : h[i - 1] \in Names}
  BY <1>4
<1>7. g[0] = t /\ h[0] = p /\ \A i \in 1 .. n : g[i] = Up(g[i - 1]) /\ h[i] = Up(h[i - 1])
  BY <1>3, <1>4 DEF Ancestry
<1>8. \A m \in 0 .. n - 1 : g[m + 1] = h[m]
  BY <1>1, <1>3, <1>4, Generations
<1>9. g[n] \notin Names
  BY <1>3, TopReached
<1> HIDE DEF n, p
<1>10. Line(t)[1] = t /\ 1 \in DOMAIN Line(t)
  BY <1>2, <1>3, <1>5, <1>7
<1>11. ASSUME NEW i \in DOMAIN Line(t), i # 1
       PROVE  i - 1 \in DOMAIN Line(p) /\ p \in Names
  <2>1. i \in 1 .. n /\ i - 1 \in 1 .. n /\ i - 2 \in 0 .. n - 1 /\ (i - 2) + 1 = i - 1
        /\ (i - 1) - 1 = i - 2
    BY <1>1, <1>5, <1>11
  <2>2. h[i - 2] = g[i - 1] /\ g[i - 1] \in Names
    BY <1>5, <1>8, <2>1
  <2>3. i - 1 \in DOMAIN Line(p)
    BY <1>6, <2>1, <2>2
  <2>4. p \in Names
    <3> DEFINE D == {k \in 0 .. i - 2 : h[(i - 2) - k] \in Names}
    <3>1. i - 2 \in Nat /\ (i - 2) - 0 = i - 2 /\ (i - 2) - (i - 2) = 0
      BY <2>1
    <3>2. 0 \in D
      BY <2>2, <3>1
    <3>3. ASSUME NEW k \in 0 .. (i - 2) - 1, k \in D PROVE k + 1 \in D
      <4>1. /\ (i - 2) - k \in 1 .. n /\ ((i - 2) - k) - 1 = (i - 2) - (k + 1)
            /\ k + 1 \in 0 .. i - 2
        BY <1>1, <2>1
      <4>2. Up(h[(i - 2) - (k + 1)]) \in Names
        BY <1>7, <3>3, <4>1
      <4>3. h[(i - 2) - (k + 1)] \in Names
        BY <4>2, Declarations DEF Up
      <4>4. QED
        BY <4>1, <4>3
    <3>4. i - 2 \in D
      <4> HIDE DEF D
      <4>1. QED
        BY <3>1, <3>2, <3>3, Climbed
    <3>5. QED
      BY <1>7, <3>1, <3>4
  <2>5. QED
    BY <2>3, <2>4
<1>12. ASSUME NEW i \in DOMAIN Line(p), p \in Names
       PROVE  i + 1 \in DOMAIN Line(t) /\ Line(t)[i + 1] = Line(p)[i]
  <2>1. i \in 1 .. n /\ i - 1 \in 0 .. n - 1 /\ (i - 1) + 1 = i /\ (i + 1) - 1 = i
    BY <1>1, <1>6
  <2>2. g[i] = h[i - 1] /\ h[i - 1] \in Names
    BY <1>6, <1>8, <2>1
  <2>3. i # n
    BY <1>9, <2>2
  <2>4. i + 1 \in 1 .. n
    BY <1>1, <2>1, <2>3
  <2>5. i + 1 \in DOMAIN Line(t)
    BY <1>5, <2>1, <2>2, <2>4
  <2>6. Line(t)[i + 1] = g[(i + 1) - 1] /\ Line(p)[i] = h[i - 1]
    BY <1>3, <1>4, <1>5, <1>6, <2>5
  <2>7. QED
    BY <2>1, <2>2, <2>5, <2>6
<1>13. p \notin Names => DOMAIN Line(t) = {1}
  BY <1>10, <1>11
<1>14. p \in Names => DOMAIN Line(t) = {1} \cup {i + 1 : i \in DOMAIN Line(p)}
  <2> SUFFICES ASSUME p \in Names, NEW i
               PROVE  i \in DOMAIN Line(t) <=> i \in {1} \cup {k + 1 : k \in DOMAIN Line(p)}
    OBVIOUS
  <2>1. ASSUME i \in DOMAIN Line(t), i # 1 PROVE i \in {k + 1 : k \in DOMAIN Line(p)}
    <3>1. i - 1 \in DOMAIN Line(p) /\ (i - 1) + 1 = i
      BY <1>5, <1>11, <2>1
    <3>2. QED
      BY <3>1
  <2>2. QED
    BY <1>10, <1>12, <2>1
<1>15. IsFiniteSet(DOMAIN Line(t)) /\ DOMAIN Line(t) \subseteq 1 .. n
  <2>1. DOMAIN Line(t) \subseteq 1 .. n
    BY <1>5
  <2>2. IsFiniteSet(1 .. n)
    BY <1>1, FS_Interval
  <2>3. QED
    BY <2>1, <2>2, FS_Subset
<1>16. QED
  BY <1>10, <1>12, <1>13, <1>14, <1>15 DEF n, p

\* So it is a sequence of types.
LEMMA Lines ==
    ASSUME docs \in Directories, ~Cyclic
    PROVE  \A t \in Names :
              /\ Line(t) \in Seq(Names)
              /\ Line(t)[1] = t
              /\ Len(Line(t)) \in 1 .. Cardinality(Names)
              /\ Parent(t) \notin Names => Len(Line(t)) = 1
              /\ Parent(t) \in Names =>
                    /\ Len(Line(t)) = Len(Line(Parent(t))) + 1
                    /\ \A i \in 1 .. Len(Line(Parent(t))) : Line(t)[i + 1] = Line(Parent(t))[i]
<1> DEFINE Good(t) == Line(t) \in Seq(Names)
           D == {t \in Names : Good(t)}
           n == Cardinality(Names)
<1>1. ASSUME NEW t \in Names, Parent(t) \in Names => Parent(t) \in D
      PROVE  /\ Good(t)
             /\ Len(Line(t)) \in 1 .. n
             /\ Parent(t) \notin Names => Len(Line(t)) = 1
             /\ Parent(t) \in Names =>
                    /\ Len(Line(t)) = Len(Line(Parent(t))) + 1
                    /\ \A i \in 1 .. Len(Line(Parent(t))) : Line(t)[i + 1] = Line(Parent(t))[i]
  <2> DEFINE s == Line(t)
             q == Line(Parent(t))
  <2>1. /\ s[1] = t
        /\ Parent(t) \notin Names => DOMAIN s = {1}
        /\ Parent(t) \in Names => /\ DOMAIN s = {1} \cup {i + 1 : i \in DOMAIN q}
                                  /\ \A i \in DOMAIN q : s[i + 1] = q[i]
        /\ DOMAIN s \subseteq 1 .. n /\ n \in Nat
    BY LineGrows, NamesFinite
  <2>2. PICK g : s = [i \in {i \in 1 .. n : g[i - 1] \in Names} |-> g[i - 1]]
    <3>1. t \in Nat
      BY Declarations
    <3>2. QED
      BY <3>1, Ancestors
  <2>3. \A i \in DOMAIN s : s[i] \in Names
    BY <2>2
  <2>4. s = [i \in DOMAIN s |-> s[i]]
    BY <2>2
  <2> HIDE DEF s
  <2>5. CASE Parent(t) \notin Names
    <3>1. DOMAIN s = 1 .. 1 /\ 1 \in 1 .. n
      BY <2>1, <2>5
    <3>2. s \in [1 .. 1 -> Names]
      BY <2>3, <2>4, <3>1
    <3>3. s \in Seq(Names) /\ Len(s) = 1
      BY <3>2
    <3>4. QED
      BY <2>5, <3>1, <3>3 DEF s
  <2>6. CASE Parent(t) \in Names
    <3>1. q \in Seq(Names)
      BY <1>1, <2>6
    <3> HIDE DEF q
    <3>2. Len(q) \in Nat /\ DOMAIN q = 1 .. Len(q)
      BY <3>1
    <3>3. {1} \cup {i + 1 : i \in 1 .. Len(q)} = 1 .. Len(q) + 1
      <4> SUFFICES ASSUME NEW x
                   PROVE  x \in {1} \cup {i + 1 : i \in 1 .. Len(q)} <=> x \in 1 .. Len(q) + 1
        OBVIOUS
      <4>1. ASSUME x \in 1 .. Len(q) + 1, x # 1 PROVE x \in {i + 1 : i \in 1 .. Len(q)}
        <5>1. x - 1 \in 1 .. Len(q) /\ (x - 1) + 1 = x
          BY <3>2, <4>1
        <5>2. QED
          BY <5>1
      <4>2. QED
        BY <3>2, <4>1
    <3>4. DOMAIN s = 1 .. Len(q) + 1
      BY <2>1, <2>6, <3>2, <3>3
    <3>5. s \in [1 .. Len(q) + 1 -> Names]
      BY <2>3, <2>4, <3>4
    <3>6. s \in Seq(Names) /\ Len(s) = Len(q) + 1
      BY <3>2, <3>5
    <3>7. Len(s) \in 1 .. n
      BY <2>1, <3>2, <3>4, <3>6
    <3>8. QED
      BY <2>1, <2>6, <3>2, <3>6, <3>7 DEF s, q
  <2>7. QED
    BY <2>5, <2>6
<1>2. Names \subseteq D
  <2>1. \A t \in Names : (Parent(t) \in Names => Parent(t) \in D) => t \in D
    BY <1>1
  <2> HIDE DEF D
  <2>2. QED
    BY <2>1, Descends
<1>3. QED
  <2>1. \A t \in Names : Line(t)[1] = t
    BY LineGrows
  <2>2. \A t \in Names : Parent(t) \in Names => Parent(t) \in D
    BY <1>2
  <2> HIDE DEF D
  <2>3. \A t \in Names : Good(t)
    BY <1>2 DEF D
  <2>4. QED
    BY <1>1, <2>1, <2>2, <2>3


-----------------------------------------------------------------------------
(* What a type takes over.                                                  *)

\* The types that extend another and are not merged yet.
Pending ==
    IF pc = "merge" THEN Kids \cap ToSet(order) ELSE IF pc = "ready" THEN {} ELSE Kids

\* No type stands in the order twice, or at or before its parent.
Ranked ==
    /\ \A i, j \in 1 .. Len(order) : order[i] = order[j] => i = j
    /\ \A i, j \in 1 .. Len(order) : i <= j => Up(order[i]) # order[j]

\* The parts no merge changes, and all of them.
Identity == {"keys", "template"}
Parts    == Inheritable \cup Identity \cup {"rules"}

\* A merged type has what it declares and, under that, what its parent has,
\* which is merged as well; every other type has what it declares.
TakenOver ==
    /\ \A t \in Names : Parts \subseteq DOMAIN types[t]
    /\ \A t \in Names, part \in Identity : types[t][part] = Declared(t)[part]
    /\ \A t \in Names, part \in Inheritable :
          types[t][part] = IF t \in Pending \/ Parent(t) = 0 THEN Declared(t)[part]
                           ELSE Under(Declared(t)[part], types[Parent(t)][part])
    /\ \A t \in Names \ Pending : Parent(t) # 0 => Parent(t) \in Names \ Pending

MergeInv ==
    /\ pc = "merge" => Ranked
    /\ pc \in {"cycle", "topo", "merge", "ready"} => TakenOver

\* What a place of the rules' arrays may hold.
Cells == {Hole} \cup UNION {ToSet(docs[i].rules) : i \in Of("entity")}

\* The slices lie within their arrays.
Slices ==
    /\ heap \in Seq(Seq(Cells))
    /\ \A t \in Names :
          /\ types[t].rules = [arr |-> types[t].rules.arr, len |-> types[t].rules.len]
          /\ types[t].rules.arr \in 1 .. Len(heap)
          /\ types[t].rules.len \in 0 .. Len(heap[types[t].rules.arr])

\* Types that share an array are merged and of one family, and the slice of an
\* ancestor is not the longer one.
Shared ==
    \A u, v \in Names : u # v /\ types[u].rules.arr = types[v].rules.arr =>
        /\ u \notin Pending
        /\ ToSet(Line(u)) \cap ToSet(Line(v)) # {}
        /\ u \in ToSet(Line(v)) => types[u].rules.len <= types[v].rules.len

\* No type of t's line has a sibling.
Alone(t) == \A a \in ToSet(Line(t)) : Siblings(a) = {}

\* Until it is merged, a type has the rules it declares; then, if it need not
\* share an array with a sibling, its parent's and behind them its own.
Chains ==
    \A t \in Names :
        IF t \in Pending \/ Parent(t) = 0 THEN RulesOf(t) = Declared(t).rules
        ELSE Alone(t) => RulesOf(t) = RulesOf(Parent(t)) \o Declared(t).rules

RulesInv ==
    /\ pc = "read" => heap = [i \in DOMAIN docs |-> IF docs[i].kind = "entity" THEN docs[i].rules ELSE <<>>]
    /\ pc \in {"cycle", "topo", "merge", "ready"} => Slices
    /\ pc \in {"cycle", "topo", "merge", "ready"} => Shared
    /\ pc \in {"cycle", "topo", "merge", "ready"} => Chains

\* The documents and the types stand still, and so does what is pending.
LEMMA TakenKept ==
    ASSUME docs' = docs, types' = types, Pending' = Pending, TakenOver
    PROVE  TakenOver'
BY DocsKept DEF TakenOver, Inheritable, Identity, Parts

\* The type a name was registered with.
LEMMA Registering ==
    ASSUME docs \in Directories, Load, NEW t \in Names
    PROVE  /\ types'[t] = [Declared(t) EXCEPT
                            !.rules = [arr |-> Registered("entity")[t], len |-> Len(@)]]
           /\ types'[t].rules = [arr |-> Registered("entity")[t], len |-> Len(Declared(t).rules)]
           /\ DOMAIN types'[t] = DOMAIN Declared(t)
           /\ \A part \in Inheritable \cup Identity : types'[t][part] = Declared(t)[part]
           /\ Parts \subseteq DOMAIN Declared(t)
<1> DEFINE last == Registered("entity")
<1>1. types' = [n \in DOMAIN last |->
                  [docs[last[n]] EXCEPT !.rules = [arr |-> last[n], len |-> Len(@)]]]
  BY DEF Load
<1>2. types'[t] = [docs[last[t]] EXCEPT !.rules = [arr |-> last[t], len |-> Len(@)]]
  <2> HIDE DEF last
  <2>1. t \in DOMAIN last
    BY DEF Names, last
  <2>2. QED
    BY <1>1, <2>1
<1>3. Declared(t) = docs[last[t]] /\ last[t] \in Of("entity")
  BY Declarations
<1>4. {"props", "mapping", "rules", "fields", "keys", "template"} \subseteq DOMAIN Declared(t)
  <2>1. last[t] \in DOMAIN docs /\ docs[last[t]].kind = "entity"
    BY <1>3 DEF Of
  <2>2. docs[last[t]] \in ToSet(docs)
    BY <2>1 DEF ToSet
  <2>3. QED
    BY <1>3, <2>1, <2>2, DirectoriesAssumption
<1> DEFINE d == Declared(t)
           e == [d EXCEPT !.rules = [arr |-> last[t], len |-> Len(@)]]
<1>5. types'[t] = e
  BY <1>2, <1>3
<1> HIDE DEF d, last
<1>6. /\ e.rules = [arr |-> last[t], len |-> Len(d.rules)] /\ DOMAIN e = DOMAIN d
      /\ e["props"] = d["props"] /\ e["mapping"] = d["mapping"] /\ e["fields"] = d["fields"]
      /\ e["keys"] = d["keys"] /\ e["template"] = d["template"]
  BY <1>4 DEF d
<1>7. QED
  BY <1>4, <1>5, <1>6 DEF d, last, Inheritable, Identity, Parts

\* Merging c changes no type but c.
LEMMA Merged ==
    ASSUME docs \in Directories, Read, TakenOver, NEW c \in Names, NEW p \in Names,
           mergeEntityType(c, p)
    PROVE  LET appended == AppendTo(types[p].rules, RulesOf(c))
           IN /\ \A part \in Inheritable : types'[c][part] = Under(types[c][part], types[p][part])
              /\ \A part \in Identity : types'[c][part] = types[c][part]
              /\ types'[c].rules = appended.slice
              /\ heap' = appended.heap
              /\ DOMAIN types'[c] = DOMAIN types[c]
              /\ \A t \in Names \ {c} : types'[t] = types[t]
<1> DEFINE appended == AppendTo(types[p].rules, RulesOf(c))
           e == types[c]
           f == [e EXCEPT !.props = Under(@, types[p].props), !.mapping = Under(@, types[p].mapping),
                          !.fields = Under(@, types[p].fields), !.rules = appended.slice]
<1> HIDE DEF appended
<1>1. types' = [types EXCEPT ![c] = f] /\ heap' = appended.heap
  BY DEF mergeEntityType, appended, RulesOf
<1>2. DOMAIN types = Names
  BY DEF Read
<1>3. types'[c] = f /\ \A t \in Names \ {c} : types'[t] = types[t]
  <2> HIDE DEF f
  <2>1. QED
    BY <1>1, <1>2
<1>4. {"props", "mapping", "fields", "rules", "keys", "template"} \subseteq DOMAIN e
  BY DEF TakenOver, Inheritable, Identity, Parts
<1> HIDE DEF e
<1>5. /\ f["props"] = Under(e["props"], types[p]["props"])
      /\ f["mapping"] = Under(e["mapping"], types[p]["mapping"])
      /\ f["fields"] = Under(e["fields"], types[p]["fields"])
      /\ f.rules = appended.slice
      /\ f["keys"] = e["keys"] /\ f["template"] = e["template"]
      /\ DOMAIN f = DOMAIN e
  BY <1>4
<1> HIDE DEF f
<1>6. QED
  BY <1>1, <1>3, <1>5 DEF e, appended, Inheritable, Identity

\* What a step of resolveInheritance finds in c, the next of the order.
LEMMA NextMerged ==
    ASSUME SearchInv, MergeInv, MergeNext
    PROVE  /\ order # <<>> /\ docs \in Directories /\ docs' = docs /\ ~Cyclic
           /\ Read /\ TakenOver /\ Pending = Kids \cap ToSet(order)
           /\ Ranked'
           /\ \/ /\ Up(Head(order)) = 0
                 /\ types' = types /\ heap' = heap /\ pc' = "merge" /\ Pending' = Pending
              \/ pc' = "failed"
              \/ /\ Head(order) \in Pending /\ Up(Head(order)) = Parent(Head(order))
                 /\ Up(Head(order)) \in Names \ (Pending \cup {Head(order)})
                 /\ mergeEntityType(Head(order), Up(Head(order)))
                 /\ pc' = "merge" /\ Pending' = Pending \ {Head(order)}
<1> DEFINE c == Head(order)
           p == Up(c)
<1>1. /\ pc = "merge" /\ docs \in Directories /\ Read /\ Merging /\ Ranked /\ TakenOver
      /\ order # <<>> /\ order' = Tail(order) /\ docs' = docs
  BY DEF SearchInv, MergeInv, MergeNext
<1>2. /\ order' \in Seq(Nat \ {0}) /\ Len(order') = Len(order) - 1
      /\ \A i \in 1 .. Len(order) - 1 : order'[i] = order[i + 1]
      /\ c = order[1] /\ Len(order) \in Nat \ {0} /\ 1 \in 1 .. Len(order)
      /\ ToSet(order) = ToSet(order') \cup {c}
  BY <1>1, Tailed DEF Merging
<1>3. DOMAIN order = 1 .. Len(order) /\ DOMAIN order' = 1 .. Len(order) - 1
  BY <1>1, <1>2 DEF Merging
<1>4. c \notin ToSet(order')
  <2>1. \A i \in 1 .. Len(order) - 1 : i + 1 \in 1 .. Len(order) /\ i + 1 # 1
    BY <1>2
  <2>2. QED
    BY <1>1, <1>2, <1>3, <2>1 DEF Ranked, ToSet
<1>5. p \notin ToSet(order)
  <2>1. \A j \in 1 .. Len(order) : 1 <= j
    OBVIOUS
  <2>2. QED
    BY <1>1, <1>2, <1>3, <2>1 DEF Ranked, ToSet
<1>6. Ranked'
  <2>1. \A i, j \in 1 .. Len(order') : order'[i] = order'[j] => i = j
    <3> SUFFICES ASSUME NEW i \in 1 .. Len(order'), NEW j \in 1 .. Len(order'), order'[i] = order'[j]
                 PROVE  i = j
      OBVIOUS
    <3>1. i + 1 \in 1 .. Len(order) /\ j + 1 \in 1 .. Len(order) /\ i \in Int /\ j \in Int
      BY <1>2
    <3>2. order[i + 1] = order[j + 1]
      BY <1>2
    <3>3. i + 1 = j + 1
      BY <1>1, <3>1, <3>2 DEF Ranked
    <3>4. QED
      BY <3>1, <3>3
  <2>2. \A i, j \in 1 .. Len(order') : i <= j => Up(order'[i]) # order'[j]
    <3> SUFFICES ASSUME NEW i \in 1 .. Len(order'), NEW j \in 1 .. Len(order'), i <= j
                 PROVE  Up(order'[i]) # order'[j]
      OBVIOUS
    <3>1. i + 1 \in 1 .. Len(order) /\ j + 1 \in 1 .. Len(order) /\ i + 1 <= j + 1
      BY <1>2
    <3>2. order'[i] = order[i + 1] /\ order'[j] = order[j + 1]
      BY <1>2
    <3>3. QED
      BY <1>1, <3>1, <3>2 DEF Ranked
  <2>3. \A n : Up(n)' = Up(n)
    BY <1>1, DocsKept
  <2>4. QED
    BY <2>1, <2>2, <2>3 DEF Ranked
<1>7. Pending = Kids \cap ToSet(order)
  BY <1>1 DEF Pending
<1>8. pc' = "merge" => Pending' = Kids \cap ToSet(order')
  BY <1>1, DocsKept DEF Pending
<1>9. ~Cyclic
  BY <1>1 DEF Merging
<1>10. CASE ParentOf(c) = 0 /\ UNCHANGED <<types, heap, pc, why>>
  <2>1. p = 0
    BY <1>1, <1>10, ParentsDeclared
  <2>2. c \notin Kids
    BY <2>1 DEF Kids, Up
  <2>3. Pending' = Pending
    BY <1>1, <1>2, <1>7, <1>8, <1>10, <2>2
  <2>4. QED
    BY <1>1, <1>6, <1>7, <1>9, <1>10, <2>1, <2>3
<1>11. CASE ParentOf(c) \in DOMAIN types /\ mergeEntityType(c, ParentOf(c)) /\ UNCHANGED <<pc, why>>
  <2>1. p = ParentOf(c) /\ p \in Names
    BY <1>1, <1>11, ParentsDeclared DEF Read
  <2>2. 0 \notin Names
    BY <1>1, Declarations
  <2>3. c \in Kids /\ Parent(c) = p
    BY <2>1, <2>2 DEF Kids, Up
  <2>4. c \in Pending /\ p \notin Pending /\ p # c
    BY <1>2, <1>5, <1>7, <2>3
  <2>5. Pending' = Pending \ {c}
    BY <1>1, <1>2, <1>4, <1>7, <1>8, <1>11
  <2>6. QED
    BY <1>1, <1>6, <1>7, <1>9, <1>11, <2>1, <2>3, <2>4, <2>5
<1>12. QED
  BY <1>1, <1>6, <1>7, <1>9, <1>10, <1>11 DEF MergeNext

\* Merging keeps what the types have taken over in order.
LEMMA TakenMerge ==
    ASSUME SearchInv, MergeInv, MergeNext
    PROVE  MergeInv'
<1> DEFINE c == Head(order)
           p == Up(c)
<1>1. /\ docs \in Directories /\ docs' = docs /\ Read /\ TakenOver /\ Ranked'
  BY NextMerged
<1>2. CASE types' = types /\ Pending' = Pending
  BY <1>1, <1>2, TakenKept DEF MergeInv
<1>3. CASE /\ c \in Pending /\ p = Parent(c) /\ p \in Names \ (Pending \cup {c})
           /\ mergeEntityType(c, p) /\ Pending' = Pending \ {c}
  <2>1. c \in Names /\ Parent(c) # 0
    BY <1>1, <1>3, NextMerged, Declarations DEF Kids
  <2>2. /\ \A part \in Inheritable : types'[c][part] = Under(types[c][part], types[p][part])
        /\ \A part \in Identity : types'[c][part] = types[c][part]
        /\ DOMAIN types'[c] = DOMAIN types[c]
        /\ \A t \in Names \ {c} : types'[t] = types[t]
    BY <1>1, <1>3, <2>1, Merged
  <2>3. \A t \in Names : Parts \subseteq DOMAIN types'[t]
    BY <1>1, <2>2 DEF TakenOver
  <2>4. ASSUME NEW t \in Names, NEW part \in Inheritable
        PROVE  types'[t][part] = IF t \in Pending' \/ Parent(t) = 0 THEN Declared(t)[part]
                                 ELSE Under(Declared(t)[part], types'[Parent(t)][part])
    <3>1. CASE t = c
      <4>1. types[c][part] = Declared(c)[part]
        BY <1>1, <1>3, <2>1 DEF TakenOver
      <4>2. types'[p] = types[p]
        BY <1>3, <2>2
      <4>3. QED
        BY <1>3, <2>1, <2>2, <3>1, <4>1, <4>2
    <3>2. CASE t # c
      <4>1. types'[t] = types[t] /\ (t \in Pending' <=> t \in Pending)
        BY <1>3, <2>2, <3>2
      <4>2. t \notin Pending /\ Parent(t) # 0 => types'[Parent(t)] = types[Parent(t)]
        <5>1. t \notin Pending /\ Parent(t) # 0 => Parent(t) \in Names \ Pending
          BY <1>1 DEF TakenOver
        <5>2. QED
          BY <1>3, <2>2, <5>1
      <4>3. types[t][part] = IF t \in Pending \/ Parent(t) = 0 THEN Declared(t)[part]
                             ELSE Under(Declared(t)[part], types[Parent(t)][part])
        BY <1>1 DEF TakenOver
      <4>4. QED
        BY <4>1, <4>2, <4>3
    <3>3. QED
      BY <3>1, <3>2
  <2>5. \A t \in Names \ Pending' : Parent(t) # 0 => Parent(t) \in Names \ Pending'
    BY <1>1, <1>3 DEF TakenOver
  <2>6. \A t \in Names, part \in Identity : types'[t][part] = Declared(t)[part]
    BY <1>1, <2>1, <2>2 DEF TakenOver
  <2>7. TakenOver'
    BY <1>1, <2>3, <2>4, <2>5, <2>6, DocsKept DEF TakenOver, Inheritable, Identity, Parts
  <2>8. QED
    BY <1>1, <2>7 DEF MergeInv
<1>4. CASE pc' = "failed"
  BY <1>4 DEF MergeInv
<1>5. QED
  BY <1>2, <1>3, <1>4, NextMerged

\* A sorted order is ranked.
LEMMA SortedRanks ==
    ASSUME Sorted(order)
    PROVE  Ranked
<1>1. /\ order \in Seq(Nat \ {0}) /\ Len(order) \in Nat
      /\ \A i, j \in 1 .. Len(order) : order[i] = order[j] => i = j
      /\ \A i \in 1 .. Len(order) : Up(order[i]) # 0 => \E j \in 1 .. i - 1 : order[j] = Up(order[i])
  BY DEF Sorted
<1>2. ASSUME NEW i \in 1 .. Len(order), NEW j \in 1 .. Len(order), i <= j, Up(order[i]) = order[j]
      PROVE  FALSE
  <2>1. Up(order[i]) # 0
    BY <1>1, <1>2
  <2>2. PICK k \in 1 .. i - 1 : order[k] = Up(order[i])
    BY <1>1, <2>1
  <2>3. k \in 1 .. Len(order) /\ k # j
    BY <1>1, <1>2
  <2>4. QED
    BY <1>1, <1>2, <2>2, <2>3
<1>3. QED
  BY <1>1, <1>2 DEF Ranked

\* The steps that leave the types, and what is pending of them, alone.
LEMMA TakenStill ==
    ASSUME SearchInv, MergeInv, docs' = docs, types' = types, Pending' = Pending,
           pc \in {"cycle", "topo", "merge", "ready"}, pc' = "merge" => Ranked'
    PROVE  MergeInv'
BY TakenKept DEF MergeInv

\* Every step of the loader keeps what the types have taken over in order.
LEMMA MergeStep ==
    ASSUME SearchInv, MergeInv, [Next]_pipeVars
    PROVE  MergeInv'
<1>1. CASE LoadFromDir \/ NothingFound
  BY <1>1 DEF LoadFromDir, NothingFound, Fails, MergeInv
<1>2. CASE Load
  <2>1. docs \in Directories /\ docs' = docs /\ pc' \in {"cycle", "ready"}
        /\ (pc' = "ready" <=> Children(types') = {})
    BY <1>2 DEF Load, SearchInv
  <2>2. Pending' = Kids
    <3>1. Read'
      BY <1>2, <2>1, SearchLoad DEF SearchInv
    <3>2. Children(types') = Kids
      BY <2>1, <3>1, DocsKept DEF Read, Children, Kids
    <3>3. QED
      BY <2>1, <3>2, DocsKept DEF Pending
  <2>3. /\ \A t \in Names : DOMAIN types'[t] = DOMAIN Declared(t)
        /\ \A t \in Names : \A part \in Inheritable \cup Identity :
              types'[t][part] = Declared(t)[part]
        /\ \A t \in Names : Parts \subseteq DOMAIN Declared(t)
    BY <1>2, <2>1, Registering
  <2>4. \A t \in Names : t \in Kids \/ Parent(t) = 0
    BY DEF Kids
  <2>5. TakenOver'
    BY <2>1, <2>2, <2>3, <2>4, DocsKept DEF TakenOver, Inheritable, Identity, Parts
  <2>6. QED
    BY <2>1, <2>5 DEF MergeInv
<1>3. CASE DfsCall \/ DfsReturn \/ DfsNext \/ TopoCall \/ TopoReturn
  <2>1. docs' = docs /\ types' = types /\ pc \in {"cycle", "topo"}
        /\ pc' \in {"cycle", "topo", "failed"}
    BY <1>3 DEF DfsCall, DfsReturn, DfsNext, TopoCall, TopoReturn, Fails, registry
  <2>2. Pending' = Pending
    BY <2>1, DocsKept DEF Pending
  <2>3. QED
    BY <2>1, <2>2, TakenStill
<1>4. CASE TopoNext
  <2>1. /\ docs' = docs /\ types' = types /\ pc = "topo" /\ order' = order /\ path = <<>> /\ call = 0
        /\ (pc' = "topo" \/ (pc' = "merge" /\ todo = {})) /\ docs \in Directories /\ Sorting
    BY <1>4 DEF TopoNext, registry, SearchInv
  <2>2. Ranked'
    <3>1. Ranked
      BY <2>1, SortedRanks DEF Sorting
    <3>2. QED
      BY <2>1, <3>1, DocsKept DEF Ranked
  <2>3. pc' = "merge" => Kids \subseteq ToSet(order)
    <3>1. ToSet(path) = {}
      BY <2>1 DEF ToSet
    <3>2. 0 \notin Kids
      BY <2>1, Declarations
    <3>3. QED
      BY <2>1, <3>1, <3>2 DEF Sorting
  <2>4. Pending = Kids /\ Pending' = Kids
    BY <2>1, <2>3, DocsKept DEF Pending
  <2>5. QED
    BY <2>1, <2>2, <2>4, TakenStill
<1>5. CASE MergeNext
  BY <1>5, TakenMerge
<1>6. CASE Resolved
  <2>1. docs' = docs /\ types' = types /\ pc = "merge" /\ pc' = "ready" /\ order = <<>>
    BY <1>6 DEF Resolved, registry
  <2>2. Pending = {} /\ Pending' = {}
    <3>1. ToSet(order) = {}
      BY <2>1 DEF ToSet
    <3>2. QED
      BY <2>1, <3>1 DEF Pending
  <2>3. QED
    BY <2>1, <2>2, TakenStill
<1>7. CASE UNCHANGED loadVars
  <2>1. docs' = docs /\ types' = types /\ pc' = pc /\ order' = order
    BY <1>7 DEF loadVars, registry, search
  <2>2. Pending' = Pending /\ (Ranked' <=> Ranked)
    BY <2>1, DocsKept DEF Pending, Ranked
  <2>3. CASE pc \in {"cycle", "topo", "merge", "ready"}
    BY <2>1, <2>2, <2>3, TakenStill DEF MergeInv
  <2>4. CASE pc \notin {"cycle", "topo", "merge", "ready"}
    BY <2>1, <2>4 DEF MergeInv
  <2>5. QED
    BY <2>3, <2>4
<1>8. QED
  BY <1>1, <1>2, <1>3, <1>4, <1>5, <1>6, <1>7 DEF Next, LoadStep, Normalize, Assemble, pipeVars

-----------------------------------------------------------------------------
(* Rules: slices that may share an array.                                   *)

\* Sequences that have the same elements are the same.
LEMMA SameSequence ==
    ASSUME NEW S, NEW s \in Seq(S), NEW t \in Seq(S), Len(s) = Len(t),
           \A i \in 1 .. Len(s) : s[i] = t[i]
    PROVE  s = t
<1>1. s = [i \in 1 .. Len(s) |-> s[i]] /\ t = [i \in 1 .. Len(t) |-> t[i]]
  OBVIOUS
<1>2. QED
  BY <1>1

\* A sequence over a set is one over every larger set.
LEMMA Widened ==
    ASSUME NEW S, NEW T, S \subseteq T, NEW s \in Seq(S)
    PROVE  s \in Seq(T)
<1>1. Len(s) \in Nat /\ \A i \in 1 .. Len(s) : s[i] \in S
  OBVIOUS
<1>2. s = [i \in 1 .. Len(s) |-> s[i]]
  OBVIOUS
<1>3. QED
  BY <1>1, <1>2

\* What a concatenation holds.
LEMMA Joined ==
    ASSUME NEW S, NEW s \in Seq(S), NEW t \in Seq(S)
    PROVE  /\ s \o t \in Seq(S) /\ Len(s \o t) = Len(s) + Len(t)
           /\ \A i \in 1 .. Len(s) : (s \o t)[i] = s[i]
           /\ \A i \in 1 .. Len(t) : (s \o t)[Len(s) + i] = t[i]
OBVIOUS

\* A function on an interval that begins with 1 is a sequence.
LEMMA Sequenced ==
    ASSUME NEW S, NEW n \in Nat, NEW f \in [1 .. n -> S]
    PROVE  f \in Seq(S) /\ Len(f) = n
OBVIOUS

\* The first places of an array.
First(array, n) == IF n = 0 THEN <<>> ELSE SubSeq(array, 1, n)

\* They are a sequence of that length.
LEMMA FirstPlaces ==
    ASSUME NEW S, NEW array \in Seq(S), NEW n \in 0 .. Len(array)
    PROVE  /\ First(array, n) \in Seq(S) /\ Len(First(array, n)) = n
           /\ \A i \in 1 .. n : First(array, n)[i] = array[i]
<1>1. CASE n = 0
  BY <1>1 DEF First
<1>2. CASE n # 0
  <2>1. Len(array) \in Nat /\ n \in 1 .. Len(array)
    BY <1>2
  <2>2. First(array, n) = SubSeq(array, 1, n)
    BY <1>2 DEF First
  <2>3. QED
    BY <2>1, <2>2, SubSeqProperties
<1>3. QED
  BY <1>1, <1>2

\* A slice of the heap, and rules to be appended to it.
Appendable(s, more, S) ==
    /\ heap \in Seq(Seq(S)) /\ Hole \in S /\ more \in Seq(S)
    /\ s.arr \in 1 .. Len(heap) /\ s.len \in 0 .. Len(heap[s.arr])
    /\ s = [arr |-> s.arr, len |-> s.len]

\* The new slice holds the old rules and the added ones; of the arrays there
\* were, only that of the old slice may differ, and only behind it.
AppendedBehind(a, s, more, S) ==
    /\ a.heap \in Seq(Seq(S)) /\ Len(a.heap) >= Len(heap)
    /\ a.slice = [arr |-> a.slice.arr, len |-> s.len + Len(more)]
    /\ a.slice.arr \in {s.arr, Len(heap) + 1}
    /\ a.slice.arr \in 1 .. Len(a.heap)
    /\ a.slice.len \in 0 .. Len(a.heap[a.slice.arr])
    /\ \A i \in 1 .. Len(heap) : i # s.arr => a.heap[i] = heap[i]
    /\ Len(a.heap[s.arr]) = Len(heap[s.arr])
    /\ \A j \in 1 .. s.len : a.heap[s.arr][j] = heap[s.arr][j]
    /\ First(a.heap[a.slice.arr], a.slice.len) = First(heap[s.arr], s.len) \o more

\* What append does to the heap, whether the array has room or not.
LEMMA Appends ==
    ASSUME NEW S, NEW s, NEW more, Appendable(s, more, S)
    PROVE  AppendedBehind(AppendTo(s, more), s, more, S)
<1> SUFFICES ASSUME heap \in Seq(Seq(S)), Hole \in S, more \in Seq(S),
                    s.arr \in 1 .. Len(heap), s.len \in 0 .. Len(heap[s.arr]),
                    s = [arr |-> s.arr, len |-> s.len],
                    NEW a, a = AppendTo(s, more)
             PROVE  AppendedBehind(a, s, more, S)
  BY DEF Appendable
<1> DEFINE old == heap[s.arr]
           cap == Len(old)
           len == s.len + Len(more)
           Put(array) == [i \in DOMAIN array |->
               IF i \in s.len + 1 .. len THEN more[i - s.len] ELSE array[i]]
           longer == [i \in 1 .. Max({len, 2 * cap}) |->
               IF i <= s.len THEN heap[s.arr][i] ELSE Hole]
<1>1. /\ old \in Seq(S) /\ cap \in Nat /\ s.len \in Nat /\ s.len <= cap
      /\ Len(more) \in Nat /\ len \in Nat /\ Len(heap) \in Nat
  OBVIOUS
<1>2. a = IF more = <<>> THEN [heap |-> heap, slice |-> s]
          ELSE IF len <= cap
          THEN [heap |-> [heap EXCEPT ![s.arr] = Put(@)], slice |-> [s EXCEPT !.len = len]]
          ELSE [heap |-> Append(heap, Put(longer)),
                slice |-> [arr |-> Len(heap) + 1, len |-> len]]
  BY DEF AppendTo
<1>3. /\ First(old, s.len) \in Seq(S) /\ Len(First(old, s.len)) = s.len
      /\ \A i \in 1 .. s.len : First(old, s.len)[i] = old[i]
  BY FirstPlaces
<1>4. ASSUME NEW array \in Seq(S), len <= Len(array), \A i \in 1 .. s.len : array[i] = old[i]
      PROVE  /\ Put(array) \in Seq(S) /\ Len(Put(array)) = Len(array)
             /\ \A i \in 1 .. s.len : Put(array)[i] = old[i]
             /\ First(Put(array), len) = First(old, s.len) \o more
  <2> DEFINE q == Put(array)
             r == First(old, s.len) \o more
  <2>1. DOMAIN array = 1 .. Len(array) /\ Len(array) \in Nat
    BY <1>4
  <2>2. \A i \in s.len + 1 .. len : i - s.len \in 1 .. Len(more)
    BY <1>1
  <2>3. ASSUME NEW i \in 1 .. Len(array)
        PROVE  (IF i \in s.len + 1 .. len THEN more[i - s.len] ELSE array[i]) \in S
    BY <2>2
  <2>4. q \in Seq(S) /\ Len(q) = Len(array)
    <3>1. q \in [1 .. Len(array) -> S]
      BY <2>1, <2>3
    <3> HIDE DEF q
    <3>2. QED
      BY <2>1, <3>1, Sequenced
  <2>5. \A i \in 1 .. Len(array) : q[i] = IF i \in s.len + 1 .. len THEN more[i - s.len] ELSE array[i]
    BY <2>1
  <2> HIDE DEF q
  <2>6. ASSUME NEW i \in 1 .. s.len PROVE q[i] = old[i]
    <3>1. i \in 1 .. Len(array) /\ i \notin s.len + 1 .. len
      BY <1>1, <1>4, <2>1
    <3>2. QED
      BY <1>4, <2>5, <3>1
  <2>7. /\ First(q, len) \in Seq(S) /\ Len(First(q, len)) = len
        /\ \A i \in 1 .. len : First(q, len)[i] = q[i]
    <3>1. len \in 0 .. Len(q)
      BY <1>1, <1>4, <2>4
    <3> HIDE DEF len
    <3>2. QED
      BY <2>4, <3>1, FirstPlaces
  <2>8. /\ r \in Seq(S) /\ Len(r) = len
        /\ \A i \in 1 .. s.len : r[i] = old[i]
        /\ \A i \in 1 .. Len(more) : r[s.len + i] = more[i]
    <3> DEFINE f == First(old, s.len)
    <3>1. f \in Seq(S) /\ Len(f) = s.len /\ \A i \in 1 .. s.len : f[i] = old[i]
      BY <1>3
    <3> HIDE DEF old, len, f
    <3>2. f \in Seq(S) /\ more \in Seq(S)
      BY <3>1
    <3>3. /\ f \o more \in Seq(S) /\ Len(f \o more) = Len(f) + Len(more)
          /\ \A i \in 1 .. Len(f) : (f \o more)[i] = f[i]
          /\ \A i \in 1 .. Len(more) : (f \o more)[Len(f) + i] = more[i]
      BY ONLY <3>2, Joined
    <3>4. r = f \o more
      BY DEF f
    <3>5. QED
      BY <3>1, <3>3, <3>4 DEF len
  <2> HIDE DEF r
  <2>9. ASSUME NEW i \in 1 .. len PROVE First(q, len)[i] = r[i]
    <3>1. CASE i \in 1 .. s.len
      BY <2>6, <2>7, <2>8, <3>1
    <3>2. CASE i \notin 1 .. s.len
      <4>1. /\ i - s.len \in 1 .. Len(more) /\ s.len + (i - s.len) = i /\ i \in s.len + 1 .. len
            /\ i \in 1 .. Len(array)
        BY <1>1, <1>4, <2>1, <3>2
      <4>2. r[i] = more[i - s.len]
        BY <2>8, <4>1
      <4>3. q[i] = more[i - s.len]
        BY <2>5, <4>1
      <4>4. QED
        BY <2>7, <4>2, <4>3
    <3>3. QED
      BY <3>1, <3>2
  <2>10. First(q, len) = r
    <3> HIDE DEF len
    <3>1. QED
      BY <2>7, <2>8, <2>9, SameSequence
  <2>11. QED
    BY <2>4, <2>6, <2>10 DEF q, r
<1>5. CASE more = <<>>
  <2>1. a.heap = heap /\ a.slice = s /\ Len(more) = 0 /\ len = s.len
    BY <1>1, <1>2, <1>5
  <2>2. First(old, s.len) \o more = First(old, s.len)
    BY <1>3, <1>5
  <2> HIDE DEF Put, longer
  <2>3. QED
    BY <1>1, <2>1, <2>2 DEF AppendedBehind
<1>6. CASE more # <<>> /\ len <= cap
  <2> DEFINE q == Put(old)
  <2>1. a.heap = [heap EXCEPT ![s.arr] = q] /\ a.slice = [s EXCEPT !.len = len]
    BY <1>2, <1>6
  <2>2. /\ q \in Seq(S) /\ Len(q) = cap
        /\ \A i \in 1 .. s.len : q[i] = old[i]
        /\ First(q, len) = First(old, s.len) \o more
    BY <1>1, <1>4, <1>6
  <2> HIDE DEF q, Put, longer
  <2>3. /\ a.heap \in Seq(Seq(S)) /\ Len(a.heap) = Len(heap) /\ a.heap[s.arr] = q
        /\ \A i \in 1 .. Len(heap) : i # s.arr => a.heap[i] = heap[i]
    BY <2>1, <2>2
  <2>4. a.slice = [arr |-> s.arr, len |-> len]
    BY <2>1
  <2>5. a.slice.arr = s.arr /\ a.slice.len = len
    BY <2>4
  <2>6. len \in 0 .. cap
    BY <1>1, <1>6
  <2>7. Len(a.heap) >= Len(heap) /\ a.slice.arr \in 1 .. Len(a.heap)
    BY <1>1, <2>3, <2>5
  <2>8. First(a.heap[a.slice.arr], a.slice.len) = First(q, len)
    BY <2>3, <2>5
  <2>9. a.slice.len \in 0 .. Len(a.heap[a.slice.arr])
    BY <2>2, <2>3, <2>5, <2>6
  <2>10. \A j \in 1 .. s.len : a.heap[s.arr][j] = heap[s.arr][j]
    BY <2>2, <2>3
  <2>11. Len(a.heap[s.arr]) = Len(heap[s.arr])
    BY <2>2, <2>3
  <2>12. a.slice = [arr |-> a.slice.arr, len |-> s.len + Len(more)] /\ a.slice.arr \in {s.arr, Len(heap) + 1}
    BY <2>4, <2>5
  <2> HIDE DEF len, cap
  <2>13. First(a.heap[a.slice.arr], a.slice.len) = First(heap[s.arr], s.len) \o more
    BY <2>2, <2>8
  <2>14. QED
    BY <2>3, <2>7, <2>9, <2>10, <2>11, <2>12, <2>13 DEF AppendedBehind
<1>7. CASE more # <<>> /\ ~(len <= cap)
  <2> DEFINE m == Max({len, 2 * cap})
             q == Put(longer)
  <2>1. a.heap = Append(heap, q) /\ a.slice = [arr |-> Len(heap) + 1, len |-> len]
    BY <1>2, <1>7
  <2>2. m \in Nat /\ len <= m
    <3>1. 2 * cap \in Nat
      BY <1>1
    <3>2. \E x \in {len, 2 * cap} : \A y \in {len, 2 * cap} : x >= y
      BY <1>1, <3>1
    <3>3. m \in {len, 2 * cap} /\ \A y \in {len, 2 * cap} : m >= y
      BY <3>2 DEF Max
    <3> HIDE DEF m
    <3>4. QED
      BY <1>1, <3>1, <3>3
  <2>3. longer \in Seq(S) /\ Len(longer) = m /\ \A i \in 1 .. s.len : longer[i] = old[i]
    <3> HIDE DEF m
    <3>1. longer = [i \in 1 .. m |-> IF i <= s.len THEN old[i] ELSE Hole]
      BY DEF m
    <3>2. \A i \in 1 .. m : i <= s.len => old[i] \in S
      BY <1>1
    <3>3. longer \in [1 .. m -> S]
      BY <3>1, <3>2
    <3>4. \A i \in 1 .. s.len : i \in 1 .. m /\ i <= s.len
      BY <1>1, <2>2
    <3>5. \A i \in 1 .. s.len : longer[i] = old[i]
      <4> HIDE DEF longer
      <4>1. QED
        BY <3>1, <3>4
    <3> HIDE DEF longer
    <3>6. longer \in Seq(S) /\ Len(longer) = m
      BY <2>2, <3>3, Sequenced
    <3>7. QED
      BY <3>5, <3>6
  <2> HIDE DEF m, longer
  <2>4. /\ q \in Seq(S) /\ Len(q) = m
        /\ First(q, len) = First(old, s.len) \o more
    BY <1>4, <2>2, <2>3
  <2> HIDE DEF q, Put
  <2>5. /\ a.heap \in Seq(Seq(S)) /\ Len(a.heap) = Len(heap) + 1 /\ a.heap[Len(heap) + 1] = q
        /\ \A i \in 1 .. Len(heap) : a.heap[i] = heap[i]
    BY <2>1, <2>4, Appended
  <2>6. a.slice.arr = Len(heap) + 1 /\ a.slice.len = len
    BY <2>1
  <2>7. len \in 0 .. m /\ Len(heap) + 1 \in 1 .. Len(heap) + 1
    BY <1>1, <2>2
  <2>8. Len(a.heap) >= Len(heap) /\ a.slice.arr \in 1 .. Len(a.heap)
    BY <1>1, <2>5, <2>6
  <2>9. First(a.heap[a.slice.arr], a.slice.len) = First(q, len)
    BY <2>5, <2>6
  <2>10. a.slice.len \in 0 .. Len(a.heap[a.slice.arr])
    BY <2>4, <2>5, <2>6, <2>7
  <2>11. a.heap[s.arr] = heap[s.arr]
    BY <2>5
  <2>12. a.slice = [arr |-> a.slice.arr, len |-> s.len + Len(more)] /\ a.slice.arr \in {s.arr, Len(heap) + 1}
    BY <2>1, <2>6
  <2> HIDE DEF len, cap
  <2>13. First(a.heap[a.slice.arr], a.slice.len) = First(heap[s.arr], s.len) \o more
    BY <2>4, <2>9
  <2>14. QED
    BY <2>5, <2>8, <2>10, <2>11, <2>12, <2>13 DEF AppendedBehind
<1>8. QED
  BY <1>5, <1>6, <1>7

\* The rules of a slice.
LEMMA RulesFirst ==
    \A s : Rules(s) = First(heap[s.arr], s.len)
BY DEF Rules, First

-----------------------------------------------------------------------------
(* Who is in whose line.                                                    *)

\* A type's line is itself and its parent's line.
LEMMA LineMembers ==
    ASSUME docs \in Directories, ~Cyclic, NEW t \in Names
    PROVE  /\ t \in ToSet(Line(t)) /\ ToSet(Line(t)) \subseteq Names
           /\ Parent(t) \notin Names => ToSet(Line(t)) = {t}
           /\ Parent(t) \in Names => ToSet(Line(t)) = {t} \cup ToSet(Line(Parent(t)))
<1> DEFINE s == Line(t)
           q == Line(Parent(t))
<1>1. /\ s \in Seq(Names) /\ s[1] = t /\ Len(s) \in 1 .. Cardinality(Names)
      /\ Parent(t) \notin Names => Len(s) = 1
      /\ Parent(t) \in Names => /\ Len(s) = Len(q) + 1 /\ q \in Seq(Names)
                                /\ \A i \in 1 .. Len(q) : s[i + 1] = q[i]
  BY Lines
<1> HIDE DEF s, q
<1>2. DOMAIN s = 1 .. Len(s) /\ Len(s) \in Nat /\ 1 \in 1 .. Len(s)
  <2>1. Cardinality(Names) \in Nat
    BY NamesFinite
  <2>2. QED
    BY <1>1, <2>1
<1>3. t \in ToSet(s) /\ ToSet(s) \subseteq Names
  <2>1. \A i \in 1 .. Len(s) : s[i] \in Names
    <3>1. s \in Seq(Names)
      BY <1>1
    <3>2. QED
      BY <3>1
  <2>2. ToSet(s) = {s[i] : i \in 1 .. Len(s)}
    BY <1>2 DEF ToSet
  <2>3. QED
    BY <1>1, <1>2, <2>1, <2>2
<1>4. CASE Parent(t) \notin Names
  BY <1>1, <1>2, <1>3, <1>4 DEF ToSet, s
<1>5. CASE Parent(t) \in Names
  <2>1. DOMAIN q = 1 .. Len(q) /\ Len(q) \in Nat /\ Len(s) = Len(q) + 1
    BY <1>1, <1>5
  <2>2. \A i \in 1 .. Len(q) : i + 1 \in 1 .. Len(s) /\ s[i + 1] = q[i]
    BY <1>1, <1>5, <2>1
  <2>3. \A i \in 1 .. Len(s) : i = 1 \/ (i - 1 \in 1 .. Len(q) /\ (i - 1) + 1 = i)
    BY <2>1
  <2>4. ToSet(s) = {t} \cup ToSet(q)
    <3>1. ToSet(s) = {s[i] : i \in 1 .. Len(s)} /\ ToSet(q) = {q[i] : i \in 1 .. Len(q)}
      BY <1>2, <2>1 DEF ToSet
    <3>2. \A i \in 1 .. Len(s) : s[i] \in {t} \cup ToSet(q)
      <4> SUFFICES ASSUME NEW i \in 1 .. Len(s), i # 1 PROVE s[i] \in ToSet(q)
        BY <1>1
      <4>1. i - 1 \in 1 .. Len(q) /\ (i - 1) + 1 = i
        BY <2>3
      <4>2. s[i] = q[i - 1]
        BY <2>2, <4>1
      <4>3. QED
        BY <3>1, <4>1, <4>2
    <3>3. \A i \in 1 .. Len(q) : q[i] \in ToSet(s)
      BY <2>2, <3>1
    <3>4. QED
      BY <1>3, <3>1, <3>2, <3>3
  <2>5. QED
    BY <1>3, <1>5, <2>4 DEF s, q
<1>6. QED
  BY <1>3, <1>4, <1>5 DEF s, q

\* The line of an ancestor is part of the line.
LEMMA LineWithin ==
    ASSUME docs \in Directories, ~Cyclic
    PROVE  \A t \in Names : \A a \in ToSet(Line(t)) : ToSet(Line(a)) \subseteq ToSet(Line(t))
<1> DEFINE D == {t \in Names : \A a \in ToSet(Line(t)) : ToSet(Line(a)) \subseteq ToSet(Line(t))}
<1>1. ASSUME NEW t \in Names, Parent(t) \in Names => Parent(t) \in D PROVE t \in D
  BY <1>1, LineMembers
<1>2. Names \subseteq D
  <2>1. \A t \in Names : (Parent(t) \in Names => Parent(t) \in D) => t \in D
    BY <1>1
  <2> HIDE DEF D
  <2>2. QED
    BY <2>1, Descends
<1>3. QED
  BY <1>2

\* Below an ancestor, a line goes on with one of its children.
LEMMA ChildBetween ==
    ASSUME docs \in Directories, ~Cyclic
    PROVE  \A t \in Names : \A a \in ToSet(Line(t)) :
              a # t => \E k \in ToSet(Line(t)) : Parent(k) = a
<1> DEFINE D == {t \in Names : \A a \in ToSet(Line(t)) :
                    a # t => \E k \in ToSet(Line(t)) : Parent(k) = a}
<1>1. ASSUME NEW t \in Names, Parent(t) \in Names => Parent(t) \in D PROVE t \in D
  <2> SUFFICES ASSUME NEW a \in ToSet(Line(t)), a # t
               PROVE  \E k \in ToSet(Line(t)) : Parent(k) = a
    OBVIOUS
  <2>1. /\ Parent(t) \in Names /\ ToSet(Line(t)) = {t} \cup ToSet(Line(Parent(t)))
        /\ a \in ToSet(Line(Parent(t)))
    BY LineMembers
  <2>2. CASE a = Parent(t)
    BY <2>1, <2>2
  <2>3. CASE a # Parent(t)
    BY <1>1, <2>1, <2>3
  <2>4. QED
    BY <2>2, <2>3
<1>2. Names \subseteq D
  <2>1. \A t \in Names : (Parent(t) \in Names => Parent(t) \in D) => t \in D
    BY <1>1
  <2> HIDE DEF D
  <2>2. QED
    BY <2>1, Descends
<1>3. QED
  BY <1>2

\* The ancestors of a type without siblings in its line have none either.
LEMMA AloneAbove ==
    ASSUME docs \in Directories, ~Cyclic, NEW t \in Names, Alone(t), Parent(t) \in Names
    PROVE  Alone(Parent(t))
BY LineMembers DEF Alone

\* Of two related types of which one has no siblings in its line, one is the
\* other's ancestor.
LEMMA Comparable ==
    ASSUME docs \in Directories, ~Cyclic
    PROVE  \A x, y \in Names :
              Alone(x) /\ ToSet(Line(x)) \cap ToSet(Line(y)) # {} =>
                 x \in ToSet(Line(y)) \/ y \in ToSet(Line(x))
<1> DEFINE Good(x, y) == Alone(x) /\ ToSet(Line(x)) \cap ToSet(Line(y)) # {} =>
                            x \in ToSet(Line(y)) \/ y \in ToSet(Line(x))
           D == {x \in Names : \A y \in Names : Good(x, y)}
<1>1. ASSUME NEW x \in Names, Parent(x) \in Names => Parent(x) \in D PROVE x \in D
  <2> SUFFICES ASSUME NEW y \in Names, Alone(x), ToSet(Line(x)) \cap ToSet(Line(y)) # {},
                      x \notin ToSet(Line(y))
               PROVE  y \in ToSet(Line(x))
    OBVIOUS
  <2> DEFINE p == Parent(x)
  <2>1. /\ p \in Names /\ ToSet(Line(x)) = {x} \cup ToSet(Line(p)) /\ x \in ToSet(Line(x))
        /\ ToSet(Line(p)) \cap ToSet(Line(y)) # {} /\ ToSet(Line(y)) \subseteq Names
    BY LineMembers
  <2>2. Alone(p)
    BY <2>1, AloneAbove
  <2>3. p \in ToSet(Line(y)) \/ y \in ToSet(Line(p))
    BY <1>1, <2>1, <2>2
  <2>4. CASE p \in ToSet(Line(y)) /\ p # y
    <3>1. PICK k \in ToSet(Line(y)) : Parent(k) = p
      BY <2>4, ChildBetween
    <3>2. k \in Siblings(x)
      <4>1. p # 0
        BY <2>1, Declarations
      <4>2. QED
        BY <2>1, <3>1, <4>1 DEF Siblings
    <3>3. QED
      BY <2>1, <3>2 DEF Alone
  <2>5. CASE p = y
    BY <2>1, <2>5, LineMembers
  <2>6. QED
    BY <2>1, <2>3, <2>4, <2>5
<1>2. Names \subseteq D
  <2>1. \A x \in Names : (Parent(x) \in Names => Parent(x) \in D) => x \in D
    BY <1>1
  <2> HIDE DEF D
  <2>2. QED
    BY <2>1, Descends
<1>3. QED
  BY <1>2

\* The ancestors of a merged type are merged.
LEMMA LineMerged ==
    ASSUME docs \in Directories, ~Cyclic, TakenOver
    PROVE  \A t \in Names \ Pending : ToSet(Line(t)) \cap Pending = {}
<1> DEFINE D == {t \in Names : t \notin Pending => ToSet(Line(t)) \cap Pending = {}}
<1>1. ASSUME NEW t \in Names, Parent(t) \in Names => Parent(t) \in D PROVE t \in D
  <2> SUFFICES ASSUME t \notin Pending PROVE ToSet(Line(t)) \cap Pending = {}
    OBVIOUS
  <2>1. CASE Parent(t) \in Names
    <3>1. Parent(t) # 0
      BY <2>1, Declarations
    <3>2. Parent(t) \notin Pending
      BY <3>1 DEF TakenOver
    <3>3. QED
      BY <1>1, <2>1, <3>2, LineMembers
  <2>2. CASE Parent(t) \notin Names
    BY <2>2, LineMembers
  <2>3. QED
    BY <2>1, <2>2
<1>2. Names \subseteq D
  <2>1. \A t \in Names : (Parent(t) \in Names => Parent(t) \in D) => t \in D
    BY <1>1
  <2> HIDE DEF D
  <2>2. QED
    BY <2>1, Descends
<1>3. QED
  BY <1>2

\* Nor do lines change, nor what the arrays may hold.
LEMMA LinesKept ==
    ASSUME docs' = docs
    PROVE  /\ \A t : Line(t)' = Line(t) /\ Siblings(t)' = Siblings(t) /\ (Alone(t)' <=> Alone(t))
           /\ Cells' = Cells
<1>1. \A t : Line(t)' = Line(t)
  BY DEF Line, Names, Registered, Of, Parent, Declared
<1>2. \A t : Siblings(t)' = Siblings(t)
  BY DocsKept DEF Siblings
<1>3. Cells' = Cells
  BY DEF Cells, Of
<1>4. \A t : Alone(t)' <=> Alone(t)
  BY <1>1, <1>2 DEF Alone
<1>5. QED
  BY <1>1, <1>2, <1>3, <1>4

\* The rules that t has after a step.
NextRules(t) == First(heap'[types'[t].rules.arr], types'[t].rules.len)

\* The rules of a type in terms of its array.
LEMMA RulesAre ==
    /\ \A t : RulesOf(t) = First(heap[types[t].rules.arr], types[t].rules.len)
    /\ \A t : RulesOf(t)' = NextRules(t)
BY DEF RulesOf, Rules, First, NextRules

\* The rules of a document are cells.
LEMMA RulesCells ==
    ASSUME docs \in Directories, NEW t \in Names
    PROVE  Declared(t).rules \in Seq(Cells)
<1> DEFINE i == Registered("entity")[t]
           r == Declared(t).rules
<1>1. i \in Of("entity") /\ Declared(t) = docs[i] /\ r \in Seq(ToSet(r))
  BY Declarations
<1>2. ToSet(r) \subseteq Cells
  <2>1. r = docs[i].rules
    BY <1>1
  <2> HIDE DEF r, i
  <2>2. QED
    BY <1>1, <2>1 DEF Cells
<1> HIDE DEF r, i
<1>3. r \in Seq(Cells)
  BY <1>1, <1>2, Widened
<1>4. QED
  BY <1>3 DEF r

\* What stands still keeps what is said of the rules.
LEMMA RulesKept ==
    ASSUME docs' = docs, types' = types, heap' = heap, Pending' = Pending, RulesInv,
           pc \in {"cycle", "topo", "merge", "ready"}, pc' # "read"
    PROVE  RulesInv'
<1>1. Slices' /\ Shared' /\ Chains'
  <2>1. \A t : RulesOf(t)' = RulesOf(t)
    BY RulesAre DEF NextRules
  <2>2. Slices'
    BY DocsKept, LinesKept DEF RulesInv, Slices
  <2>3. Shared'
    BY DocsKept, LinesKept DEF RulesInv, Shared
  <2>4. Chains'
    BY <2>1, DocsKept, LinesKept DEF RulesInv, Chains
  <2>5. QED
    BY <2>2, <2>3, <2>4
<1>2. QED
  BY <1>1 DEF RulesInv

\* A document's slice is the whole of its array.
LEMMA RulesLoad ==
    ASSUME SearchInv, RulesInv, Load
    PROVE  RulesInv'
<1>1. /\ docs \in Directories /\ docs' = docs /\ heap' = heap /\ pc' \in {"cycle", "ready"}
      /\ heap = [i \in DOMAIN docs |-> IF docs[i].kind = "entity" THEN docs[i].rules ELSE <<>>]
      /\ (pc' = "ready" <=> Children(types') = {})
  BY DEF Load, SearchInv, RulesInv
<1>2. Pending' = Kids
  <2>1. Read'
    BY <1>1, SearchLoad DEF SearchInv
  <2>2. Children(types') = Kids
    BY <1>1, <2>1, DocsKept DEF Read, Children, Kids
  <2>3. QED
    BY <1>1, <2>2, DocsKept DEF Pending
<1>3. ASSUME NEW t \in Names
      PROVE  /\ types'[t].rules = [arr |-> types'[t].rules.arr, len |-> types'[t].rules.len]
             /\ types'[t].rules.arr = Registered("entity")[t]
             /\ types'[t].rules.len = Len(Declared(t).rules)
             /\ types'[t].rules.arr \in DOMAIN docs
             /\ heap[types'[t].rules.arr] = Declared(t).rules
             /\ Declared(t).rules \in Seq(Cells)
             /\ docs[types'[t].rules.arr].name = t
  <2>1. types'[t].rules = [arr |-> Registered("entity")[t], len |-> Len(Declared(t).rules)]
    BY <1>1, Registering
  <2>2. Registered("entity")[t] \in Of("entity") /\ Declared(t) = docs[Registered("entity")[t]]
    BY <1>1, Declarations
  <2>3. Declared(t).rules \in Seq(Cells)
    BY <1>1, RulesCells
  <2>4. Registered("entity")[t] \in DOMAIN docs /\ docs[Registered("entity")[t]].kind = "entity"
    BY <2>2 DEF Of
  <2>5. docs[Registered("entity")[t]].name = t
    BY <1>1, Declarations
  <2> HIDE DEF Registered, Declared
  <2>6. QED
    BY <1>1, <2>1, <2>2, <2>3, <2>4, <2>5
<1>4. heap \in Seq(Seq(Cells)) /\ Len(heap) = Len(docs) /\ DOMAIN docs = 1 .. Len(docs)
  <2>1. docs \in Seq(ToSet(docs))
    BY <1>1, DirectoriesAssumption
  <2>2. DOMAIN docs = 1 .. Len(docs) /\ Len(docs) \in Nat
    BY <2>1
  <2>3. \A i \in 1 .. Len(docs) : heap[i] \in Seq(Cells)
    <3> SUFFICES ASSUME NEW i \in DOMAIN docs, docs[i].kind = "entity" PROVE docs[i].rules \in Seq(Cells)
      BY <1>1, <2>2
    <3> DEFINE r == docs[i].rules
    <3>1. r \in Seq(ToSet(r))
      BY <1>1, DirectoriesAssumption DEF ToSet
    <3>2. ToSet(r) \subseteq Cells
      BY DEF Cells, Of
    <3> HIDE DEF r
    <3>3. r \in Seq(Cells)
      BY <3>1, <3>2, Widened
    <3>4. QED
      BY <3>3 DEF r
  <2>4. heap \in [1 .. Len(docs) -> Seq(Cells)]
    BY <1>1, <2>2, <2>3
  <2>5. QED
    BY <2>2, <2>4, Sequenced
<1>5. Slices'
  <2>1. \A t \in Names : types'[t].rules.arr \in 1 .. Len(heap)
    BY <1>3, <1>4
  <2>2. \A t \in Names : types'[t].rules.len \in 0 .. Len(heap[types'[t].rules.arr])
    <3> SUFFICES ASSUME NEW t \in Names PROVE types'[t].rules.len \in 0 .. Len(heap[types'[t].rules.arr])
      OBVIOUS
    <3>1. /\ Declared(t).rules \in Seq(Cells)
          /\ types'[t].rules.len = Len(Declared(t).rules)
          /\ heap[types'[t].rules.arr] = Declared(t).rules
      BY <1>3
    <3>2. Len(Declared(t).rules) \in Nat
      BY <3>1
    <3> HIDE DEF Declared
    <3>3. QED
      BY <3>1, <3>2
  <2>3. QED
    BY <1>1, <1>3, <1>4, <2>1, <2>2, DocsKept, LinesKept DEF Slices
<1>6. Shared'
  <2>1. \A u, v \in Names : types'[u].rules.arr = types'[v].rules.arr => u = v
    BY <1>3
  <2>2. QED
    BY <1>1, <2>1, DocsKept DEF Shared
<1>7. Chains'
  <2>1. ASSUME NEW t \in Names PROVE NextRules(t) = Declared(t).rules
    <3> DEFINE r == Declared(t).rules
    <3>1. NextRules(t) = First(r, Len(r))
      BY <1>1, <1>3 DEF NextRules
    <3>2. r \in Seq(Cells)
      BY <1>3
    <3> HIDE DEF r
    <3>3. Len(r) \in Nat /\ Len(r) \in 0 .. Len(r)
      BY <3>2
    <3>4. /\ First(r, Len(r)) \in Seq(Cells) /\ Len(First(r, Len(r))) = Len(r)
          /\ \A i \in 1 .. Len(r) : First(r, Len(r))[i] = r[i]
      BY <3>2, <3>3, FirstPlaces
    <3>5. First(r, Len(r)) = r
      BY <3>2, <3>4, SameSequence
    <3>6. QED
      BY <3>1, <3>5 DEF r
  <2>2. \A t \in Names : t \in Kids \/ Parent(t) = 0
    BY DEF Kids
  <2>3. \A t \in Names : RulesOf(t)' = Declared(t).rules
    BY <2>1, RulesAre
  <2>4. QED
    BY <1>1, <1>2, <2>2, <2>3, DocsKept DEF Chains
<1>8. QED
  BY <1>1, <1>5, <1>6, <1>7 DEF RulesInv

\* What merging c changes of the arrays: the rules of its parent's slice are
\* still there, and nobody's who has another array or no longer slice in it.
LEMMA MergeAppends ==
    ASSUME docs \in Directories, Read, TakenOver, RulesInv, pc = "merge",
           docs' = docs, NEW c \in Pending \cap Names, NEW p \in Names \ {c},
           mergeEntityType(c, p)
    PROVE  /\ Slices'
           /\ \A t \in Names \ {c} : types'[t] = types[t]
           /\ types'[c].rules.arr \in {types[p].rules.arr, Len(heap) + 1}
           /\ types'[c].rules.len >= types[p].rules.len
           /\ NextRules(c) = RulesOf(p) \o Declared(c).rules
           /\ \A t \in Names \ {c} :
                 \/ types[t].rules.arr # types[p].rules.arr
                 \/ types[t].rules.len <= types[p].rules.len
                 => NextRules(t) = RulesOf(t)
<1> DEFINE s == types[p].rules
           more == RulesOf(c)
           a == AppendTo(s, more)
<1>1. /\ types'[c].rules = a.slice /\ heap' = a.heap
      /\ \A t \in Names \ {c} : types'[t] = types[t]
  BY Merged
<1>2. Slices /\ Chains
  BY DEF RulesInv
<1>3. /\ heap \in Seq(Seq(Cells)) /\ Hole \in Cells
      /\ s = [arr |-> s.arr, len |-> s.len] /\ s.arr \in 1 .. Len(heap)
      /\ s.len \in 0 .. Len(heap[s.arr])
  BY <1>2 DEF Slices, Cells
<1>4. more = Declared(c).rules /\ more \in Seq(Cells)
  BY <1>2, RulesCells DEF Chains
<1> HIDE DEF s, more
<1>5. Appendable(s, more, Cells)
  BY <1>3, <1>4 DEF Appendable
<1>6. /\ a.heap \in Seq(Seq(Cells)) /\ Len(a.heap) >= Len(heap)
      /\ a.slice = [arr |-> a.slice.arr, len |-> s.len + Len(more)]
      /\ a.slice.arr \in {s.arr, Len(heap) + 1}
      /\ a.slice.arr \in 1 .. Len(a.heap)
      /\ a.slice.len \in 0 .. Len(a.heap[a.slice.arr])
      /\ \A i \in 1 .. Len(heap) : i # s.arr => a.heap[i] = heap[i]
      /\ Len(a.heap[s.arr]) = Len(heap[s.arr])
      /\ \A j \in 1 .. s.len : a.heap[s.arr][j] = heap[s.arr][j]
      /\ First(a.heap[a.slice.arr], a.slice.len) = First(heap[s.arr], s.len) \o more
  BY <1>5, Appends DEF AppendedBehind, a
<1>7. a.slice.len = s.len + Len(more) /\ s.len \in Nat /\ Len(more) \in Nat /\ a.slice.len >= s.len
  <2>1. a.slice.len = s.len + Len(more)
    BY <1>6
  <2>2. s.len \in Nat /\ Len(more) \in Nat
    BY <1>3, <1>4
  <2>3. QED
    BY <2>1, <2>2
<1>8. \A t \in Names : /\ types[t].rules = [arr |-> types[t].rules.arr, len |-> types[t].rules.len]
                       /\ types[t].rules.arr \in 1 .. Len(heap)
                       /\ types[t].rules.len \in 0 .. Len(heap[types[t].rules.arr])
  BY <1>2 DEF Slices
<1>9. /\ heap \in Seq(Seq(Cells)) /\ a.heap \in Seq(Seq(Cells))
      /\ Len(heap) \in Nat /\ Len(a.heap) \in Nat /\ Len(a.heap) >= Len(heap)
      /\ 1 .. Len(heap) \subseteq 1 .. Len(a.heap)
  <2>1. heap \in Seq(Seq(Cells)) /\ a.heap \in Seq(Seq(Cells)) /\ Len(a.heap) >= Len(heap)
    BY <1>3, <1>6
  <2>2. Len(heap) \in Nat /\ Len(a.heap) \in Nat
    BY <2>1
  <2>3. QED
    BY <2>1, <2>2
<1>10. Slices'
  <2>1. ASSUME NEW t \in Names
        PROVE  /\ types'[t].rules = [arr |-> types'[t].rules.arr, len |-> types'[t].rules.len]
               /\ types'[t].rules.arr \in 1 .. Len(heap')
               /\ types'[t].rules.len \in 0 .. Len(heap'[types'[t].rules.arr])
    <3>1. CASE t = c
      <4>1. a.slice = [arr |-> a.slice.arr, len |-> a.slice.len]
        BY <1>6, <1>7
      <4>2. QED
        BY <1>1, <1>6, <3>1, <4>1
    <3>2. CASE t # c
      <4>1. types'[t].rules = types[t].rules /\ types[t].rules.arr \in 1 .. Len(heap')
        <5>1. types'[t] = types[t] /\ heap' = a.heap /\ types[t].rules.arr \in 1 .. Len(heap)
          BY <1>1, <1>8, <3>2
        <5>2. QED
          BY <1>9, <5>1
      <4>2. Len(heap'[types[t].rules.arr]) = Len(heap[types[t].rules.arr])
        BY <1>1, <1>6, <1>8
      <4>3. QED
        BY <1>8, <4>1, <4>2
    <3>3. QED
      BY <3>1, <3>2
  <2>2. heap' \in Seq(Seq(Cells))
    BY <1>1, <1>6
  <2>3. docs' = docs
    OBVIOUS
  <2>4. QED
    BY <2>1, <2>2, <2>3, DocsKept, LinesKept DEF Slices
<1>11. NextRules(c) = RulesOf(p) \o Declared(c).rules
  <2>1. RulesOf(p) = First(heap[s.arr], s.len)
    BY RulesAre DEF s
  <2>2. NextRules(c) = First(a.heap[a.slice.arr], a.slice.len)
    BY <1>1 DEF NextRules
  <2>3. QED
    BY <1>4, <1>6, <2>1, <2>2
<1>12. ASSUME NEW t \in Names \ {c}, types[t].rules.arr # s.arr \/ types[t].rules.len <= s.len
       PROVE  NextRules(t) = RulesOf(t)
  <2> DEFINE n == types[t].rules.len
             x == types[t].rules.arr
  <2>1. RulesOf(t) = First(heap[x], n) /\ NextRules(t) = First(a.heap[x], n)
    BY <1>1, RulesAre DEF NextRules
  <2>2. x \in 1 .. Len(heap) /\ n \in 0 .. Len(heap[x]) /\ x \in 1 .. Len(a.heap)
    <3>1. x \in 1 .. Len(heap) /\ n \in 0 .. Len(heap[x])
      BY <1>8
    <3>2. QED
      BY <1>9, <3>1
  <2>3. x # s.arr \/ n <= s.len
    BY <1>12
  <2> HIDE DEF n, x
  <2>4. CASE x # s.arr
    BY <1>6, <2>1, <2>2, <2>4
  <2>5. CASE x = s.arr
    <3> DEFINE old == heap[s.arr]
               new == a.heap[s.arr]
    <3>1. old \in Seq(Cells) /\ new \in Seq(Cells) /\ Len(new) = Len(old) /\ n \in 0 .. Len(old)
      <4>1. s.arr \in 1 .. Len(heap) /\ s.arr \in 1 .. Len(a.heap)
        BY <2>2, <2>5
      <4>2. heap[s.arr] \in Seq(Cells)
        BY <1>9, <4>1
      <4>3. a.heap[s.arr] \in Seq(Cells)
        BY <1>9, <4>1
      <4>4. QED
        BY <1>6, <2>2, <2>5, <4>2, <4>3
    <3>2. Len(old) \in Nat
      BY <3>1
    <3>3. n \in Nat /\ n <= s.len /\ n \in 0 .. Len(new)
      BY <2>3, <2>5, <3>1, <3>2
    <3>4. \A j \in 1 .. n : new[j] = old[j]
      BY <1>6, <1>7, <3>3
    <3> HIDE DEF old, new
    <3>5. /\ First(old, n) \in Seq(Cells) /\ Len(First(old, n)) = n
          /\ \A i \in 1 .. n : First(old, n)[i] = old[i]
      BY <3>1, FirstPlaces
    <3>6. /\ First(new, n) \in Seq(Cells) /\ Len(First(new, n)) = n
          /\ \A i \in 1 .. n : First(new, n)[i] = new[i]
      BY <3>1, <3>3, FirstPlaces
    <3>7. First(new, n) = First(old, n)
      BY <3>4, <3>5, <3>6, SameSequence
    <3>8. QED
      BY <2>1, <2>5, <3>7 DEF old, new
  <2>6. QED
    BY <2>4, <2>5
<1>13. QED
  BY <1>1, <1>6, <1>7, <1>10, <1>11, <1>12 DEF s

\* Merging keeps the rules in order: a merged type whose line has no siblings
\* shares its array with its ancestors and descendants only, and the slices
\* grow from the ancestors down.
LEMMA RulesMerge ==
    ASSUME SearchInv, MergeInv, RulesInv, MergeNext
    PROVE  RulesInv'
<1> DEFINE c == Head(order)
           p == Up(c)
<1>1. /\ docs \in Directories /\ docs' = docs /\ ~Cyclic /\ Read /\ TakenOver /\ pc = "merge"
      /\ Slices /\ Shared /\ Chains
  BY NextMerged DEF MergeNext, RulesInv
<1>2. CASE types' = types /\ heap' = heap /\ pc' = "merge" /\ Pending' = Pending
  BY <1>1, <1>2, RulesKept
<1>3. CASE pc' = "failed"
  BY <1>3 DEF RulesInv
<1>4. CASE /\ c \in Pending /\ p = Parent(c) /\ p \in Names \ (Pending \cup {c})
           /\ mergeEntityType(c, p) /\ pc' = "merge" /\ Pending' = Pending \ {c}
  <2> DEFINE arr(t) == types[t].rules.arr
             len(t) == types[t].rules.len
  <2>1. c \in Names /\ p # 0 /\ p # c /\ p \in Names \ Pending
    BY <1>1, <1>4, NextMerged, Declarations DEF Kids
  <2>2. /\ Slices'
        /\ \A t \in Names \ {c} : types'[t] = types[t]
        /\ types'[c].rules.arr \in {arr(p), Len(heap) + 1}
        /\ types'[c].rules.len >= len(p)
        /\ NextRules(c) = RulesOf(p) \o Declared(c).rules
        /\ \A t \in Names \ {c} : arr(t) # arr(p) \/ len(t) <= len(p) => NextRules(t) = RulesOf(t)
    <3>1. c \in Pending \cap Names /\ p \in Names \ {c}
      BY <1>4, <2>1
    <3> HIDE DEF p, c
    <3>2. QED
      BY <1>1, <1>4, <3>1, MergeAppends
  <2>3. \A t \in Names : arr(t) \in 1 .. Len(heap) /\ len(t) \in Nat
    <3> SUFFICES ASSUME NEW t \in Names PROVE arr(t) \in 1 .. Len(heap) /\ len(t) \in Nat
      OBVIOUS
    <3>1. arr(t) \in 1 .. Len(heap) /\ len(t) \in 0 .. Len(heap[arr(t)])
      BY <1>1 DEF Slices
    <3>2. QED
      BY <3>1
  <2>4. Len(heap) + 1 \notin 1 .. Len(heap)
    <3>1. Len(heap) \in Nat
      BY <1>1 DEF Slices
    <3>2. QED
      BY <3>1
  <2>5. \A u, v \in Names : u # v /\ arr(u) = arr(v) =>
           /\ u \notin Pending
           /\ ToSet(Line(u)) \cap ToSet(Line(v)) # {}
           /\ u \in ToSet(Line(v)) => len(u) <= len(v)
    BY <1>1 DEF Shared
  <2>6. /\ ToSet(Line(c)) = {c} \cup ToSet(Line(p)) /\ p \in ToSet(Line(p)) /\ p \in ToSet(Line(c))
    BY <1>1, <1>4, <2>1, LineMembers
  \* Who has the parent's array is merged, and related to the parent.
  <2>7. ASSUME NEW t \in Names, arr(t) = arr(p)
        PROVE  /\ t \notin Pending /\ t # c
               /\ ToSet(Line(t)) \cap ToSet(Line(p)) # {}
               /\ t \in ToSet(Line(p)) => len(t) <= len(p)
    <3>1. CASE t = p
      BY <1>4, <2>1, <2>3, <2>6, <3>1
    <3>2. CASE t # p
      BY <1>4, <2>1, <2>5, <2>7, <3>2
    <3>3. QED
      BY <3>1, <3>2
  <2> HIDE DEF p, c
  <2>8. Shared'
    <3>1. ASSUME NEW u \in Names, NEW v \in Names, u # v, types'[u].rules.arr = types'[v].rules.arr
          PROVE  /\ u \notin Pending'
                 /\ ToSet(Line(u)) \cap ToSet(Line(v)) # {}
                 /\ u \in ToSet(Line(v)) => types'[u].rules.len <= types'[v].rules.len
      <4>1. CASE u # c /\ v # c
        BY <1>4, <2>2, <2>5, <3>1, <4>1
      <4>2. CASE u = c
        <5>1. v # c /\ arr(v) = types'[c].rules.arr
          BY <2>2, <3>1, <4>2
        <5>2. arr(v) = arr(p)
          BY <2>2, <2>3, <2>4, <5>1
        <5>3. v \notin Pending /\ ToSet(Line(v)) \cap ToSet(Line(p)) # {}
          BY <2>7, <5>2
        <5>4. c \notin ToSet(Line(v))
          BY <1>1, <1>4, <5>3, LineMerged
        <5>5. QED
          BY <1>4, <2>6, <4>2, <5>3, <5>4
      <4>3. CASE v = c
        <5>1. u # c /\ arr(u) = types'[c].rules.arr /\ types'[u] = types[u]
          BY <2>2, <3>1, <4>3
        <5>2. arr(u) = arr(p)
          BY <2>2, <2>3, <2>4, <5>1
        <5>3. /\ u \notin Pending /\ ToSet(Line(u)) \cap ToSet(Line(p)) # {}
              /\ u \in ToSet(Line(p)) => len(u) <= len(p)
          BY <2>7, <5>2
        <5>4. u \in ToSet(Line(c)) => types'[u].rules.len <= types'[c].rules.len
          <6>1. u \in ToSet(Line(c)) => len(u) <= len(p)
            BY <2>6, <5>1, <5>3
          <6>2. types'[c].rules.len \in Nat
            <7>1. Slices'
              BY <2>2
            <7>2. types'[c].rules.len \in 0 .. Len(heap'[types'[c].rules.arr])
              BY <1>1, <2>1, <7>1, DocsKept DEF Slices
            <7>3. QED
              BY <7>2
          <6>3. types'[u].rules.len = len(u) /\ len(u) \in Nat /\ len(p) \in Nat
            BY <2>1, <2>3, <5>1
          <6>4. QED
            BY <2>2, <6>1, <6>2, <6>3
        <5>5. QED
          BY <1>4, <2>6, <4>3, <5>3, <5>4
      <4>4. QED
        BY <4>1, <4>2, <4>3
    <3>2. QED
      BY <1>1, <3>1, DocsKept, LinesKept DEF Shared
  \* A merged type that need not share keeps its rules.
  <2>9. ASSUME NEW t \in Names \ Pending, Alone(t) PROVE NextRules(t) = RulesOf(t)
    <3>1. t # c
      BY <1>4
    <3>2. CASE arr(t) # arr(p)
      BY <2>2, <3>1, <3>2
    <3>3. CASE arr(t) = arr(p)
      <4>1. t \in ToSet(Line(p)) \/ p \in ToSet(Line(t))
        BY <1>1, <2>1, <2>7, <2>9, <3>3, Comparable
      <4>2. t \in ToSet(Line(p))
        <5> SUFFICES ASSUME p \in ToSet(Line(t)), p # t PROVE FALSE
          BY <2>6, <4>1
        <5>1. PICK k \in ToSet(Line(t)) : Parent(k) = p
          BY <1>1, <2>9, ChildBetween
        <5>2. k \in Names /\ k \notin Pending
          BY <1>1, <2>9, LineMembers, LineMerged
        <5>3. c \in Siblings(k)
          BY <1>4, <2>1, <5>1, <5>2 DEF Siblings
        <5>4. QED
          BY <2>9, <5>1, <5>3 DEF Alone
      <4>3. len(t) <= len(p)
        BY <2>7, <3>3, <4>2
      <4>4. QED
        BY <2>2, <3>1, <4>3
    <3>4. QED
      BY <3>2, <3>3
  <2>10. Chains'
    <3>1. ASSUME NEW t \in Names
          PROVE  IF t \in Pending' \/ Parent(t) = 0 THEN NextRules(t) = Declared(t).rules
                 ELSE Alone(t) => NextRules(t) = NextRules(Parent(t)) \o Declared(t).rules
      <4>1. IF t \in Pending \/ Parent(t) = 0 THEN RulesOf(t) = Declared(t).rules
            ELSE Alone(t) => RulesOf(t) = RulesOf(Parent(t)) \o Declared(t).rules
        BY <1>1 DEF Chains
      <4>2. CASE t = c
        <5>1. len(p) <= len(p)
          BY <2>1, <2>3
        <5>2. NextRules(p) = RulesOf(p)
          BY <2>1, <2>2, <5>1
        <5>3. QED
          BY <1>4, <2>1, <2>2, <4>2, <5>2
      <4>3. CASE t # c /\ t \in Pending
        <5>1. arr(t) # arr(p)
          BY <2>7, <4>3
        <5>2. NextRules(t) = RulesOf(t)
          BY <2>2, <4>3, <5>1
        <5>3. QED
          BY <1>4, <4>1, <4>3, <5>2
      <4>4. CASE t # c /\ t \notin Pending /\ Parent(t) = 0
        <5>1. ToSet(Line(t)) = {t}
          <6>1. 0 \notin Names
            BY <1>1, Declarations
          <6>2. QED
            BY <1>1, <4>4, <6>1, LineMembers
        <5>2. arr(t) # arr(p) \/ len(t) <= len(p)
          BY <2>7, <5>1
        <5>3. NextRules(t) = RulesOf(t)
          BY <2>2, <4>4, <5>2
        <5>4. QED
          BY <1>4, <4>1, <4>4, <5>3
      <4>5. CASE t # c /\ t \notin Pending /\ Parent(t) # 0
        <5> SUFFICES ASSUME Alone(t)
                     PROVE  NextRules(t) = NextRules(Parent(t)) \o Declared(t).rules
          BY <1>4, <4>5
        <5>1. NextRules(t) = RulesOf(t)
          BY <2>9, <4>5
        <5>2. Parent(t) \in Names \ Pending
          BY <1>1, <4>5 DEF TakenOver
        <5>3. Alone(Parent(t))
          BY <1>1, <5>2, AloneAbove
        <5>4. NextRules(Parent(t)) = RulesOf(Parent(t))
          BY <2>9, <5>2, <5>3
        <5>5. QED
          BY <4>1, <4>5, <5>1, <5>4
      <4>6. QED
        BY <4>2, <4>3, <4>4, <4>5
    <3>2. \A t : Parent(t)' = Parent(t) /\ Declared(t)' = Declared(t)
      BY <1>1, DocsKept
    <3>3. \A t : RulesOf(t)' = NextRules(t) /\ RulesOf(Parent(t))' = NextRules(Parent(t))
      BY <3>2, RulesAre DEF RulesOf, Rules, NextRules, First
    <3>4. QED
      BY <1>1, <3>1, <3>2, <3>3, DocsKept, LinesKept DEF Chains
  <2>11. QED
    BY <1>4, <2>2, <2>8, <2>10 DEF RulesInv
<1>5. QED
  <2>1. SearchInv /\ MergeInv /\ MergeNext
    OBVIOUS
  <2>2. QED
    BY <1>2, <1>3, <1>4, <2>1, NextMerged

\* Nothing is taken over at the start.
LEMMA RulesInit == Init => MergeInv /\ RulesInv
BY DEF Init, LoadInit, MergeInv, RulesInv

\* Every step of the loader keeps the rules in order.
LEMMA RulesStep ==
    ASSUME SearchInv, MergeInv, RulesInv, [Next]_pipeVars
    PROVE  RulesInv'
<1>1. CASE LoadFromDir \/ NothingFound
  BY <1>1 DEF LoadFromDir, NothingFound, Fails, RulesInv
<1>2. CASE Load
  BY <1>2, RulesLoad
<1>3. CASE DfsCall \/ DfsReturn \/ DfsNext \/ TopoCall \/ TopoReturn
  <2>1. docs' = docs /\ types' = types /\ heap' = heap /\ pc \in {"cycle", "topo"}
        /\ pc' \in {"cycle", "topo", "failed"}
    BY <1>3 DEF DfsCall, DfsReturn, DfsNext, TopoCall, TopoReturn, Fails, registry
  <2>2. Pending' = Pending
    BY <2>1, DocsKept DEF Pending
  <2>3. QED
    BY <2>1, <2>2, RulesKept
<1>4. CASE TopoNext
  <2>1. /\ docs' = docs /\ types' = types /\ heap' = heap /\ pc = "topo" /\ order' = order
        /\ path = <<>> /\ call = 0
        /\ (pc' = "topo" \/ (pc' = "merge" /\ todo = {})) /\ docs \in Directories /\ Sorting
    BY <1>4 DEF TopoNext, registry, SearchInv
  <2>2. pc' = "merge" => Kids \subseteq ToSet(order)
    <3>1. ToSet(path) = {}
      BY <2>1 DEF ToSet
    <3>2. 0 \notin Kids
      BY <2>1, Declarations
    <3>3. QED
      BY <2>1, <3>1, <3>2 DEF Sorting
  <2>3. Pending = Kids /\ Pending' = Kids
    BY <2>1, <2>2, DocsKept DEF Pending
  <2>4. QED
    BY <2>1, <2>3, RulesKept
<1>5. CASE MergeNext
  BY <1>5, RulesMerge
<1>6. CASE Resolved
  <2>1. /\ docs' = docs /\ types' = types /\ heap' = heap /\ pc = "merge" /\ pc' = "ready"
        /\ order = <<>>
    BY <1>6 DEF Resolved, registry
  <2>2. Pending = {} /\ Pending' = {}
    <3>1. ToSet(order) = {}
      BY <2>1 DEF ToSet
    <3>2. QED
      BY <2>1, <3>1 DEF Pending
  <2>3. QED
    BY <2>1, <2>2, RulesKept
<1>7. CASE UNCHANGED loadVars
  <2>1. docs' = docs /\ types' = types /\ heap' = heap /\ pc' = pc /\ order' = order
    BY <1>7 DEF loadVars, registry, search
  <2>2. Pending' = Pending
    BY <2>1, DocsKept DEF Pending
  <2>3. CASE pc \in {"cycle", "topo", "merge", "ready"}
    BY <2>1, <2>2, <2>3, RulesKept
  <2>4. CASE pc \notin {"cycle", "topo", "merge", "ready"}
    BY <2>1, <2>4 DEF RulesInv
  <2>5. QED
    BY <2>3, <2>4
<1>8. QED
  BY <1>1, <1>2, <1>3, <1>4, <1>5, <1>6, <1>7 DEF Next, LoadStep, Normalize, Assemble, pipeVars

-----------------------------------------------------------------------------
(* What every type has after loading.                                       *)

\* The least of the numbers moved up by one.
LEMMA LeastMoves ==
    ASSUME NEW S \in SUBSET Nat, S # {}
    PROVE  Min({i + 1 : i \in S}) = Min(S) + 1
<1> DEFINE T == {i + 1 : i \in S}
<1>1. Min(S) \in S /\ \A x \in S : Min(S) <= x
  BY Least
<1>2. T \in SUBSET Nat /\ T # {}
  <2>1. \A i \in S : i + 1 \in Nat
    OBVIOUS
  <2>2. T # {}
    BY <1>1
  <2>3. QED
    BY <2>1, <2>2
<1> HIDE DEF T
<1>3. Min(T) \in T /\ \A x \in T : Min(T) <= x
  BY <1>2, Least
<1> USE DEF T
<1>4. PICK i \in S : Min(T) = i + 1
  BY <1>3
<1>5. Min(S) + 1 \in T
  BY <1>1
<1>6. Min(T) <= Min(S) + 1 /\ Min(S) <= i
  BY <1>1, <1>3, <1>5
<1> HIDE DEF T
<1>7. Min(T) = Min(S) + 1
  <2>1. i \in Nat /\ Min(S) \in Nat
    BY <1>1
  <2>2. QED
    BY <1>4, <1>6, <2>1
<1>8. QED
  BY <1>7 DEF T

\* One is the least of the numbers from one on.
LEMMA LeastOne ==
    ASSUME NEW S \in SUBSET (Nat \ {0}), 1 \in S
    PROVE  Min(S) = 1
<1>1. S \in SUBSET Nat /\ S # {}
  OBVIOUS
<1>2. Min(S) \in S /\ \A x \in S : Min(S) <= x
  BY <1>1, Least
<1>3. Min(S) \in Nat \ {0} /\ Min(S) <= 1
  BY <1>2
<1>4. QED
  BY <1>3

\* With all types merged, each has what the nearest of its line says.
LEMMA DefinitionsTaken ==
    ASSUME docs \in Directories, ~Cyclic, TakenOver, Pending = {}
    PROVE  \A t \in Names : DefinitionsInherited(t)
<1>1. ASSUME NEW part \in Inheritable PROVE \A t \in Names : Inherits(t, part)
  <2> DEFINE D == {t \in Names : Inherits(t, part)}
             Says(n) == Declared(n)[part]
  <2>1. ASSUME NEW t \in Names, Parent(t) \in Names => Parent(t) \in D PROVE t \in D
    <3> DEFINE s == Line(t)
               q == Line(Parent(t))
               got == types[t][part]
               J(k) == {j \in DOMAIN s : k \in DOMAIN Says(s[j])}
               I(k) == {j \in DOMAIN q : k \in DOMAIN Says(q[j])}
    <3> SUFFICES /\ DOMAIN got = UNION {DOMAIN Says(s[i]) : i \in DOMAIN s}
                 /\ \A k \in DOMAIN got : got[k] = Says(s[Min(J(k))])[k]
      BY DEF Inherits, Nearest
    <3>1. /\ s[1] = t /\ DOMAIN s \subseteq Nat \ {0} /\ 1 \in DOMAIN s
          /\ Parent(t) \notin Names => DOMAIN s = {1}
          /\ Parent(t) \in Names => /\ DOMAIN s = {1} \cup {i + 1 : i \in DOMAIN q}
                                    /\ \A i \in DOMAIN q : s[i + 1] = q[i]
                                    /\ DOMAIN q \subseteq Nat
      <4>1. /\ s[1] = t
            /\ Parent(t) \notin Names => DOMAIN s = {1}
            /\ Parent(t) \in Names => /\ DOMAIN s = {1} \cup {i + 1 : i \in DOMAIN q}
                                      /\ \A i \in DOMAIN q : s[i + 1] = q[i]
            /\ DOMAIN s \subseteq 1 .. Cardinality(Names)
        BY LineGrows
      <4>2. Parent(t) \in Names => DOMAIN q \subseteq 1 .. Cardinality(Names)
        BY LineGrows
      <4>3. 1 .. Cardinality(Names) \subseteq Nat \ {0}
        BY NamesFinite
      <4> HIDE DEF s, q
      <4>4. QED
        BY <4>1, <4>2, <4>3
    <3>2. Parent(t) = 0 \/ Parent(t) \in Names
      BY DEF TakenOver
    <3>3. got = IF Parent(t) = 0 THEN Says(t) ELSE Under(Says(t), types[Parent(t)][part])
      BY DEF TakenOver
    <3> HIDE DEF s, q, got, Says
    <3>4. ASSUME NEW k, k \in DOMAIN Says(t) PROVE Min(J(k)) = 1
      <4>1. J(k) \in SUBSET (Nat \ {0}) /\ 1 \in J(k)
        BY <3>1, <3>4
      <4> HIDE DEF J
      <4>2. QED
        BY <4>1, LeastOne
    <3>5. CASE Parent(t) = 0
      <4>1. got = Says(t) /\ DOMAIN s = {1} /\ s[1] = t
        <5>1. 0 \notin Names
          BY Declarations
        <5>2. QED
          BY <3>1, <3>3, <3>5, <5>1
      <4>2. \A k \in DOMAIN got : got[k] = Says(s[Min(J(k))])[k]
        <5> SUFFICES ASSUME NEW k \in DOMAIN got PROVE got[k] = Says(s[Min(J(k))])[k]
          OBVIOUS
        <5>1. Min(J(k)) = 1
          BY <3>4, <4>1
        <5>2. QED
          BY <4>1, <5>1
      <4>3. QED
        BY <4>1, <4>2
    <3>6. CASE Parent(t) # 0
      <4> DEFINE p == Parent(t)
                 of == types[p][part]
      <4>1. p \in Names /\ Inherits(p, part) /\ got = Under(Says(t), of)
        BY <2>1, <3>2, <3>3, <3>6
      <4>2. /\ DOMAIN of = UNION {DOMAIN Says(q[i]) : i \in DOMAIN q}
            /\ \A k \in DOMAIN of : of[k] = Says(q[Min(I(k))])[k]
        BY <4>1 DEF Inherits, Nearest, Says, q
      <4>3. /\ DOMAIN s = {1} \cup {i + 1 : i \in DOMAIN q}
            /\ \A i \in DOMAIN q : s[i + 1] = q[i]
            /\ DOMAIN q \subseteq Nat /\ s[1] = t
        BY <3>1, <4>1
      <4> HIDE DEF of, p
      <4>4. /\ DOMAIN got = DOMAIN Says(t) \cup DOMAIN of
            /\ \A k \in DOMAIN got : got[k] = IF k \in DOMAIN Says(t) THEN Says(t)[k] ELSE of[k]
        BY <4>1 DEF Under
      <4>5. UNION {DOMAIN Says(s[i]) : i \in DOMAIN s}
               = DOMAIN Says(t) \cup UNION {DOMAIN Says(q[i]) : i \in DOMAIN q}
        <5> SUFFICES ASSUME NEW x
                     PROVE  x \in UNION {DOMAIN Says(s[i]) : i \in DOMAIN s}
                              <=> x \in DOMAIN Says(t) \/ \E i \in DOMAIN q : x \in DOMAIN Says(q[i])
          OBVIOUS
        <5>1. x \in UNION {DOMAIN Says(s[i]) : i \in DOMAIN s} <=> \E i \in DOMAIN s : x \in DOMAIN Says(s[i])
          OBVIOUS
        <5>2. (\E i \in DOMAIN s : x \in DOMAIN Says(s[i]))
                <=> x \in DOMAIN Says(t) \/ \E i \in DOMAIN q : x \in DOMAIN Says(q[i])
          BY <4>3
        <5>3. QED
          BY <5>1, <5>2
      <4>6. \A k \in DOMAIN got : got[k] = Says(s[Min(J(k))])[k]
        <5> SUFFICES ASSUME NEW k \in DOMAIN got PROVE got[k] = Says(s[Min(J(k))])[k]
          OBVIOUS
        <5>1. CASE k \in DOMAIN Says(t)
          <6>1. Min(J(k)) = 1
            BY <3>4, <5>1
          <6>2. QED
            BY <4>3, <4>4, <5>1, <6>1
        <5>2. CASE k \notin DOMAIN Says(t)
          <6>1. k \in DOMAIN of /\ got[k] = of[k]
            BY <4>4, <5>2
          <6>2. J(k) = {i + 1 : i \in I(k)}
            <7> SUFFICES ASSUME NEW x PROVE x \in J(k) <=> \E i \in I(k) : x = i + 1
              OBVIOUS
            <7>1. ASSUME x \in J(k) PROVE \E i \in I(k) : x = i + 1
              <8>1. x \in DOMAIN s /\ k \in DOMAIN Says(s[x]) /\ x # 1
                BY <4>3, <5>2, <7>1
              <8>2. PICK i \in DOMAIN q : x = i + 1
                BY <4>3, <8>1
              <8>3. QED
                BY <4>3, <8>1, <8>2
            <7>2. ASSUME NEW i \in I(k), x = i + 1 PROVE x \in J(k)
              BY <4>3, <7>2
            <7>3. QED
              BY <7>1, <7>2
          <6>3. I(k) \in SUBSET Nat /\ I(k) # {}
            <7>1. PICK i \in DOMAIN q : k \in DOMAIN Says(q[i])
              BY <4>2, <6>1
            <7>2. QED
              BY <4>3, <7>1
          <6>4. Min(J(k)) = Min(I(k)) + 1
            <7> HIDE DEF I, J
            <7>1. QED
              BY <6>2, <6>3, LeastMoves
          <6>5. Min(I(k)) \in I(k)
            <7> HIDE DEF I, J
            <7>1. QED
              BY <6>3, Least
          <6>6. s[Min(J(k))] = q[Min(I(k))]
            BY <4>3, <6>4, <6>5
          <6>7. QED
            BY <4>2, <6>1, <6>6
        <5>3. QED
          BY <5>1, <5>2
      <4>7. QED
        BY <4>2, <4>4, <4>5, <4>6
    <3>7. QED
      BY <3>5, <3>6
  <2>2. Names \subseteq D
    <3>1. \A t \in Names : (Parent(t) \in Names => Parent(t) \in D) => t \in D
      BY <2>1
    <3> HIDE DEF D
    <3>2. QED
      BY <3>1, Descends
  <2>3. QED
    BY <2>2
<1>2. QED
  BY <1>1 DEF DefinitionsInherited

\* The function FlattenSeq is read from.
Flattens(f, seqs, S) ==
    /\ f \in [1 .. Len(seqs) -> Seq(S)]
    /\ f[1] = seqs[1]
    /\ \A i \in 2 .. Len(seqs) : f[i] = f[i - 1] \o seqs[i]
    /\ FlattenSeq(seqs) = f[Len(seqs)]

\* Such a sequence of beginnings exists: what FlattenSeq folds is appended part by part.
LEMMA Flattened ==
    ASSUME NEW S, NEW seqs \in Seq(Seq(S)), Len(seqs) # 0
    PROVE  \E f : Flattens(f, seqs, S)
<1> DEFINE m == Len(seqs)
           F == [i \in 1 .. m |-> [v \in Seq(S) |-> IF i = 1 THEN seqs[1] ELSE v \o seqs[i]]]
           Reads(f) == f = [i \in 1 .. m |-> IF i = 1 THEN seqs[i] ELSE f[i - 1] \o seqs[i]]
<1>1. m \in Nat \ {0} /\ \A i \in 1 .. m : seqs[i] \in Seq(S)
  OBVIOUS
<1>2. 1 \in 1 .. m /\ <<>> \in Seq(S)
  BY <1>1
<1>3. Body(F, m, Seq(S))
  <2>1. \A i \in 1 .. m, v \in Seq(S) : (IF i = 1 THEN seqs[1] ELSE v \o seqs[i]) \in Seq(S)
    BY <1>1, <1>2
  <2> HIDE DEF m
  <2>2. QED
    BY <2>1 DEF Body
<1>4. PICK g : Values(g, F, m, Seq(S), <<>>)
  <2> HIDE DEF F, m
  <2>1. QED
    BY <1>1, <1>2, <1>3, Iterated
<1>5. \A i \in 1 .. m, v \in Seq(S) : F[i][v] = IF i = 1 THEN seqs[1] ELSE v \o seqs[i]
  OBVIOUS
<1>6. ASSUME NEW i \in 1 .. m PROVE g[i] = IF i = 1 THEN seqs[i] ELSE g[i - 1] \o seqs[i]
  <2>1. i - 1 \in 0 .. m
    BY <1>1
  <2> HIDE DEF F, m
  <2>2. g[i] = F[i][g[i - 1]] /\ g[i - 1] \in Seq(S)
    BY <1>4, <2>1 DEF Values
  <2>3. QED
    BY <1>5, <2>2
<1> DEFINE e == [i \in 1 .. m |-> g[i]]
<1>7. Reads(e)
  <2>1. \A i \in 1 .. m : i # 1 => i - 1 \in 1 .. m
    BY <1>1
  <2> HIDE DEF m
  <2>2. QED
    BY <1>6, <2>1
<1> DEFINE f == CHOOSE f : Reads(f)
<1>8. Reads(f)
  <2> HIDE DEF Reads, e
  <2>1. QED
    BY <1>7
<1>9. FlattenSeq(seqs) = f[m]
  BY DEF FlattenSeq
<1> HIDE DEF f
<1>10. \A i \in 1 .. m : f[i] = IF i = 1 THEN seqs[i] ELSE f[i - 1] \o seqs[i]
  <2> HIDE DEF m
  <2>1. QED
    BY <1>8
<1>11. \A i \in 1 .. m : f[i] \in Seq(S)
  <2> SUFFICES ASSUME NEW i \in 1 .. m PROVE f[i] \in Seq(S)
    OBVIOUS
  <2> DEFINE D == {k \in 0 .. i - 1 : f[k + 1] \in Seq(S)}
  <2>1. i - 1 \in Nat /\ (i - 1) + 1 = i
    BY <1>1
  <2>2. 0 \in D
    BY <1>1, <1>2, <1>10, <2>1
  <2>3. ASSUME NEW k \in 0 .. (i - 1) - 1, k \in D PROVE k + 1 \in D
    <3>1. (k + 1) + 1 \in 1 .. m /\ (k + 1) + 1 # 1 /\ ((k + 1) + 1) - 1 = k + 1 /\ k + 1 \in 0 .. i - 1
      BY <1>1, <2>1
    <3>2. f[(k + 1) + 1] = f[k + 1] \o seqs[(k + 1) + 1]
      BY <1>10, <3>1
    <3>3. f[k + 1] \in Seq(S) /\ seqs[(k + 1) + 1] \in Seq(S)
      BY <1>1, <2>3, <3>1
    <3>4. f[(k + 1) + 1] \in Seq(S)
      BY <3>2, <3>3
    <3>5. QED
      BY <3>1, <3>4
  <2>4. i - 1 \in D
    <3> HIDE DEF D
    <3>1. QED
      BY <2>1, <2>2, <2>3, Climbed
  <2>5. QED
    BY <2>1, <2>4
<1>12. f \in [1 .. m -> Seq(S)]
  <2> HIDE DEF m
  <2>1. f = [i \in 1 .. m |-> f[i]]
    BY <1>8, <1>10
  <2>2. QED
    BY <1>11, <2>1
<1>13. f[1] = seqs[1]
  BY <1>2, <1>10
<1>14. \A i \in 2 .. m : f[i] = f[i - 1] \o seqs[i]
  <2>1. \A i \in 2 .. m : i \in 1 .. m /\ i # 1
    BY <1>1
  <2>2. QED
    BY <1>10, <2>1
<1>15. QED
  BY <1>9, <1>12, <1>13, <1>14 DEF Flattens

\* One sequence more comes behind the others.
LEMMA FlattenGrows ==
    ASSUME NEW S, NEW seqs \in Seq(Seq(S)), Len(seqs) # 0, NEW more \in Seq(S)
    PROVE  FlattenSeq(Append(seqs, more)) = FlattenSeq(seqs) \o more
<1> DEFINE m == Len(seqs)
           longer == Append(seqs, more)
<1>1. /\ m \in Nat \ {0} /\ longer \in Seq(Seq(S)) /\ Len(longer) = m + 1 /\ longer[m + 1] = more
      /\ \A i \in 1 .. m : longer[i] = seqs[i]
  OBVIOUS
<1>2. PICK f : Flattens(f, seqs, S)
  BY Flattened
<1>3. PICK g : Flattens(g, longer, S)
  <2>1. Len(longer) # 0
    BY <1>1
  <2> HIDE DEF longer
  <2>2. QED
    BY <1>1, <2>1, Flattened
<1> HIDE DEF longer
<1>4. /\ f[1] = seqs[1] /\ \A i \in 2 .. m : f[i] = f[i - 1] \o seqs[i]
      /\ FlattenSeq(seqs) = f[m]
  BY <1>2 DEF Flattens
<1>5. /\ g[1] = longer[1] /\ \A i \in 2 .. m + 1 : g[i] = g[i - 1] \o longer[i]
      /\ FlattenSeq(longer) = g[m + 1]
  BY <1>1, <1>3 DEF Flattens
<1> HIDE DEF m
<1> DEFINE D == {k \in 0 .. m - 1 : g[k + 1] = f[k + 1]}
<1>6. m - 1 \in Nat /\ (m - 1) + 1 = m /\ 1 \in 1 .. m
  BY <1>1
<1>7. 0 \in D
  BY <1>1, <1>4, <1>5, <1>6
<1>8. ASSUME NEW k \in 0 .. (m - 1) - 1, k \in D PROVE k + 1 \in D
  <2>1. /\ (k + 1) + 1 \in 2 .. m /\ (k + 1) + 1 \in 2 .. m + 1 /\ (k + 1) + 1 \in 1 .. m
        /\ ((k + 1) + 1) - 1 = k + 1 /\ k + 1 \in 0 .. m - 1
    BY <1>1
  <2>2. /\ f[(k + 1) + 1] = f[k + 1] \o seqs[(k + 1) + 1]
        /\ g[(k + 1) + 1] = g[k + 1] \o longer[(k + 1) + 1]
        /\ longer[(k + 1) + 1] = seqs[(k + 1) + 1]
    BY <1>1, <1>4, <1>5, <2>1
  <2>3. QED
    BY <1>8, <2>1, <2>2
<1>9. m - 1 \in D
  <2> HIDE DEF D
  <2>1. QED
    BY <1>6, <1>7, <1>8, Climbed
<1>10. g[m] = f[m]
  BY <1>6, <1>9
<1>11. m + 1 \in 2 .. m + 1 /\ (m + 1) - 1 = m
  BY <1>1
<1>12. g[m + 1] = g[m] \o more
  BY <1>1, <1>5, <1>11
<1>13. QED
  BY <1>4, <1>5, <1>10, <1>12 DEF longer

\* The rules of t's line, the root's first, type by type.
Shares(t) == [i \in DOMAIN Line(t) |-> Declared(Reverse(Line(t))[i]).rules]

\* A type's line brings what its parent's brings, and then its own.
LEMMA SharesGrow ==
    ASSUME docs \in Directories, ~Cyclic, NEW t \in Names
    PROVE  /\ Shares(t) \in Seq(Seq(Cells)) /\ Len(Shares(t)) # 0
           /\ Parent(t) \notin Names => /\ Len(Shares(t)) = 1
                                        /\ Shares(t)[1] = Declared(t).rules
           /\ Parent(t) \in Names => Shares(t) = Append(Shares(Parent(t)), Declared(t).rules)
<1> DEFINE p == Parent(t)
           Right(u) == /\ Shares(u) \in Seq(Seq(Cells)) /\ Len(Shares(u)) = Len(Line(u))
                       /\ \A i \in 1 .. Len(Line(u)) :
                             Shares(u)[i] = Declared(Line(u)[(Len(Line(u)) - i) + 1]).rules
<1>1. ASSUME NEW u \in Names PROVE Right(u)
  <2> DEFINE s == Line(u)
             n == Len(s)
  <2>1. s \in Seq(Names)
    BY Lines
  <2> HIDE DEF s
  <2>2. n \in Nat /\ DOMAIN s = 1 .. n /\ \A i \in 1 .. n : s[i] \in Names /\ (n - i) + 1 \in 1 .. n
    BY <2>1
  <2>3. Reverse(s) = [i \in 1 .. n |-> s[(n - i) + 1]]
    BY DEF Reverse
  <2>4. Shares(u) = [i \in 1 .. n |-> Declared(s[(n - i) + 1]).rules]
    <3>1. Shares(u) = [i \in DOMAIN s |-> Declared(Reverse(s)[i]).rules]
      BY DEF Shares, s
    <3> HIDE DEF n
    <3>2. QED
      BY <2>2, <2>3, <3>1
  <2>5. \A x \in Names : Declared(x).rules \in Seq(Cells)
    BY RulesCells
  <2>6. Shares(u) \in [1 .. n -> Seq(Cells)]
    <3> HIDE DEF n
    <3>1. QED
      BY <2>2, <2>4, <2>5
  <2>7. Shares(u) \in Seq(Seq(Cells)) /\ Len(Shares(u)) = n
    <3> HIDE DEF n
    <3>1. QED
      BY <2>2, <2>6, Sequenced
  <2>8. \A i \in 1 .. n : Shares(u)[i] = Declared(s[(n - i) + 1]).rules
    BY <2>4
  <2>9. QED
    BY <2>7, <2>8 DEF s
<1>2. /\ Line(t)[1] = t /\ Len(Line(t)) \in 1 .. Cardinality(Names)
      /\ p \notin Names => Len(Line(t)) = 1
      /\ p \in Names => /\ Len(Line(t)) = Len(Line(p)) + 1
                        /\ \A i \in 1 .. Len(Line(p)) : Line(t)[i + 1] = Line(p)[i]
  BY Lines
<1>3. Len(Line(t)) # 0 /\ Len(Line(t)) \in Nat
  <2>1. Cardinality(Names) \in Nat
    BY NamesFinite
  <2>2. QED
    BY <1>2, <2>1
<1>4. /\ Shares(t) \in Seq(Seq(Cells)) /\ Len(Shares(t)) = Len(Line(t))
      /\ \A i \in 1 .. Len(Line(t)) : Shares(t)[i] = Declared(Line(t)[(Len(Line(t)) - i) + 1]).rules
  BY <1>1
<1>5. CASE p \notin Names
  <2>1. Len(Line(t)) = 1 /\ 1 \in 1 .. Len(Line(t)) /\ (Len(Line(t)) - 1) + 1 = 1
    BY <1>2, <1>5
  <2>2. Shares(t)[1] = Declared(t).rules
    BY <1>2, <1>4, <2>1
  <2>3. QED
    BY <1>4, <1>5, <2>1, <2>2
<1>6. CASE p \in Names
  <2> DEFINE a == Shares(t)
             b == Shares(p)
             d == Declared(t).rules
             n == Len(Line(p))
  <2>1. /\ b \in Seq(Seq(Cells)) /\ Len(b) = n /\ n \in Nat
        /\ \A i \in 1 .. n : b[i] = Declared(Line(p)[(n - i) + 1]).rules
    <3>1. Right(p)
      BY <1>1, <1>6
    <3>2. Len(b) \in Nat
      BY <3>1
    <3>3. QED
      BY <3>1, <3>2
  <2>2. /\ a \in Seq(Seq(Cells)) /\ Len(a) = n + 1
        /\ \A i \in 1 .. n + 1 : a[i] = Declared(Line(t)[((n + 1) - i) + 1]).rules
    BY <1>2, <1>4, <1>6
  <2>3. \A i \in 1 .. n : Line(t)[i + 1] = Line(p)[i]
    BY <1>2, <1>6
  <2>4. d \in Seq(Cells)
    BY RulesCells
  <2> HIDE DEF a, b, d, n
  <2>5. /\ Append(b, d) \in Seq(Seq(Cells)) /\ Len(Append(b, d)) = n + 1
        /\ \A i \in 1 .. n : Append(b, d)[i] = b[i]
        /\ Append(b, d)[n + 1] = d
    BY <2>1, <2>4, Appended
  <2>6. ASSUME NEW i \in 1 .. n + 1 PROVE a[i] = Append(b, d)[i]
    <3>1. CASE i = n + 1
      <4>1. ((n + 1) - i) + 1 = 1
        BY <2>1, <3>1
      <4>2. QED
        BY <1>2, <2>2, <2>5, <3>1, <4>1 DEF d
    <3>2. CASE i # n + 1
      <4>1. i \in 1 .. n /\ (n - i) + 1 \in 1 .. n /\ ((n + 1) - i) + 1 = ((n - i) + 1) + 1
        BY <2>1, <3>2
      <4>2. Line(t)[((n + 1) - i) + 1] = Line(p)[(n - i) + 1]
        BY <2>3, <4>1
      <4>3. QED
        BY <2>1, <2>2, <2>5, <4>1, <4>2
    <3>3. QED
      BY <3>1, <3>2
  <2>7. a = Append(b, d)
    <3>1. a \in Seq(Seq(Cells)) /\ Append(b, d) \in Seq(Seq(Cells)) /\ Len(a) = Len(Append(b, d))
      BY <2>2, <2>5
    <3>2. \A i \in 1 .. Len(a) : a[i] = Append(b, d)[i]
      BY <2>2, <2>6
    <3>3. QED
      BY <3>1, <3>2, SameSequence
  <2>8. QED
    BY <1>3, <1>4, <1>6, <2>7 DEF a, b, d
<1>7. QED
  BY <1>5, <1>6

\* With all types merged, those that share with no sibling have their line's rules.
LEMMA RulesTaken ==
    ASSUME docs \in Directories, ~Cyclic, TakenOver, Pending = {}, Chains
    PROVE  \A t \in Names : RulesChained(t)
<1> DEFINE Right(t) == Alone(t) => RulesOf(t) = FlattenSeq(Shares(t))
           D == {t \in Names : Right(t)}
<1>1. ASSUME NEW t \in Names, Parent(t) \in Names => Parent(t) \in D, Alone(t)
      PROVE  RulesOf(t) = FlattenSeq(Shares(t))
  <2> DEFINE p == Parent(t)
             d == Declared(t).rules
             a == Shares(t)
             b == Shares(p)
  <2>1. p = 0 \/ p \in Names
    BY DEF TakenOver
  <2>2. 0 \notin Names /\ d \in Seq(Cells)
    BY Declarations, RulesCells
  <2>3. IF p = 0 THEN RulesOf(t) = d ELSE RulesOf(t) = RulesOf(p) \o d
    BY <1>1 DEF Chains
  <2>4. /\ a \in Seq(Seq(Cells)) /\ Len(a) # 0
        /\ p \notin Names => Len(a) = 1 /\ a[1] = d
        /\ p \in Names => a = Append(b, d)
    BY SharesGrow
  <2>5. CASE p = 0
    <3>1. Len(a) = 1 /\ a[1] = d
      BY <2>2, <2>4, <2>5
    <3> HIDE DEF a
    <3>2. PICK f : Flattens(f, a, Cells)
      BY <2>4, Flattened
    <3>3. FlattenSeq(a) = d
      BY <3>1, <3>2 DEF Flattens
    <3>4. QED
      BY <2>3, <2>5, <3>3 DEF a
  <2>6. CASE p # 0
    <3>1. p \in Names /\ a = Append(b, d) /\ RulesOf(t) = RulesOf(p) \o d
      BY <2>1, <2>3, <2>4, <2>6
    <3>2. Alone(p)
      BY <1>1, <3>1, AloneAbove
    <3>3. RulesOf(p) = FlattenSeq(b)
      BY <1>1, <3>1, <3>2
    <3>4. b \in Seq(Seq(Cells)) /\ Len(b) # 0
      BY <3>1, SharesGrow
    <3> HIDE DEF a, b, d
    <3>5. FlattenSeq(Append(b, d)) = FlattenSeq(b) \o d
      BY <2>2, <3>4, FlattenGrows
    <3>6. QED
      BY <3>1, <3>3, <3>5 DEF a
  <2>7. QED
    BY <2>5, <2>6
<1>2. Names \subseteq D
  <2>1. \A t \in Names : (Parent(t) \in Names => Parent(t) \in D) => t \in D
    BY <1>1
  <2> HIDE DEF D
  <2>2. QED
    BY <2>1, Descends
<1>3. QED
  BY <1>2 DEF RulesChained, Chained, Alone, Shares

\* The search, the merge and the rules together.
LoaderInv == SearchInv /\ MergeInv /\ RulesInv

\* The three are inductive together (loader.go, registry.go).
LEMMA LoaderAlways == Spec => []LoaderInv
<1>1. Init => LoaderInv
  BY SearchInit, RulesInit DEF LoaderInv
<1>2. LoaderInv /\ [Next]_pipeVars => LoaderInv'
  BY SearchStep, MergeStep, RulesStep DEF LoaderInv
<1>3. QED
  BY <1>1, <1>2, PTL DEF Spec

\* At the end of loading, every type has what its line gives it.
LEMMA InheritedReady ==
    ASSUME LoaderInv
    PROVE  Inherited
<1> SUFFICES ASSUME pc = "ready" PROVE \A t \in Names : DefinitionsInherited(t) /\ RulesChained(t)
  BY DEF Inherited
<1>1. docs \in Directories /\ ~Cyclic /\ TakenOver /\ Chains /\ Pending = {}
  BY DEF LoaderInv, SearchInv, LoadVerdict, MergeInv, RulesInv, Pending
<1>2. QED
  BY <1>1, DefinitionsTaken, RulesTaken

\* Inheritance (resolveInheritance, mergeEntityType): whatever the directory,
\* the number of generations and the order of files and names, each type ends
\* with the properties, mappings and relation fields of its nearest ancestors
\* that define them, and with the rules of its line from the root down, if no
\* type of the line has a sibling.
THEOREM TypesInherit == Spec => []Inherited
<1>1. LoaderInv => Inherited
  BY InheritedReady
<1>2. QED
  BY <1>1, LoaderAlways, PTL

-----------------------------------------------------------------------------
(* The graph of a batch.                                                    *)

\* No type is among its own ancestors.
LEMMA NotAbove ==
    ASSUME docs \in Directories, ~Cyclic, NEW t \in Names, Parent(t) \in Names
    PROVE  t \notin ToSet(Line(Parent(t)))
<1> SUFFICES ASSUME t \in ToSet(Line(Parent(t))) PROVE FALSE
  OBVIOUS
<1> DEFINE p == Parent(t)
           S == {a \in ToSet(Line(p)) : t \in ToSet(Line(a))}
<1>1. p \in S /\ S \subseteq Names
  BY LineMembers
<1>2. ASSUME NEW a \in S PROVE Parent(a) \in S
  <2>1. CASE a = t
    BY <1>1, <2>1
  <2>2. CASE a # t
    <3>1. a \in Names /\ Parent(a) \in Names /\ t \in ToSet(Line(Parent(a)))
      BY <1>1, <2>2, LineMembers
    <3>2. Parent(a) \in ToSet(Line(a))
      BY <3>1, LineMembers
    <3>3. Parent(a) \in ToSet(Line(p))
      BY <3>2, LineWithin
    <3>4. QED
      BY <3>1, <3>3
  <2>3. QED
    BY <2>1, <2>2
<1> HIDE DEF S
<1>3. QED
  BY <1>1, <1>2, Cycles

\* In a line each type is followed by its parent, and none comes twice.
Climbs(s) ==
    /\ s \in Seq(Names) /\ Len(s) \in 1 .. Cardinality(Names)
    /\ \A i \in 1 .. Len(s) - 1 : Up(s[i]) = s[i + 1]
    /\ Up(s[Len(s)]) \notin Names
    /\ \A i, j \in 1 .. Len(s) : s[i] = s[j] => i = j

\* The line of every type climbs like that.
LEMMA LinesClimb ==
    ASSUME docs \in Directories, ~Cyclic
    PROVE  \A t \in Names : Climbs(Line(t))
<1> DEFINE D == {t \in Names : Climbs(Line(t))}
<1>1. ASSUME NEW t \in Names, Parent(t) \in Names => Parent(t) \in D PROVE t \in D
  <2> DEFINE s == Line(t)
             q == Line(Parent(t))
  <2>1. /\ s \in Seq(Names) /\ s[1] = t /\ Len(s) \in 1 .. Cardinality(Names)
        /\ Parent(t) \notin Names => Len(s) = 1
        /\ Parent(t) \in Names => /\ Len(s) = Len(q) + 1
                                  /\ \A i \in 1 .. Len(q) : s[i + 1] = q[i]
    BY Lines
  <2>2. Up(t) = Parent(t) /\ Cardinality(Names) \in Nat
    BY NamesFinite DEF Up
  <2>3. CASE Parent(t) \notin Names
    <3> HIDE DEF s
    <3>1. Len(s) = 1 /\ s[Len(s)] = t /\ Len(s) - 1 = 0
      <4>1. Len(s) = 1 /\ s[1] = t
        BY <2>1, <2>3
      <4>2. QED
        BY <4>1
    <3>2. Climbs(s)
      BY <2>1, <2>2, <2>3, <3>1 DEF Climbs
    <3>3. QED
      BY <3>2 DEF s
  <2>4. CASE Parent(t) \in Names
    <3>1. Climbs(q) /\ t \notin ToSet(q) /\ q[1] = Parent(t)
      BY <1>1, <2>4, NotAbove, Lines
    <3>2. Len(s) = Len(q) + 1 /\ \A i \in 1 .. Len(q) : s[i + 1] = q[i]
      BY <2>1, <2>4
    <3> HIDE DEF s, q
    <3>3. Len(q) \in Nat \ {0} /\ Len(s) \in Nat /\ DOMAIN q = 1 .. Len(q)
      <4>1. q \in Seq(Names) /\ Len(q) # 0
        BY <2>2, <3>1 DEF Climbs
      <4>2. QED
        BY <3>2, <4>1
    <3>4. \A i \in 1 .. Len(s) - 1 : Up(s[i]) = s[i + 1]
      <4> SUFFICES ASSUME NEW i \in 1 .. Len(s) - 1 PROVE Up(s[i]) = s[i + 1]
        OBVIOUS
      <4>1. i \in 1 .. Len(q) /\ s[i + 1] = q[i]
        BY <3>2, <3>3
      <4>2. CASE i = 1
        BY <2>1, <2>2, <3>1, <4>1, <4>2
      <4>3. CASE i # 1
        <5>1. i - 1 \in 1 .. Len(q) - 1 /\ i - 1 \in 1 .. Len(q) /\ (i - 1) + 1 = i
          BY <3>3, <4>1, <4>3
        <5>2. s[i] = q[i - 1] /\ Up(q[i - 1]) = q[i]
          BY <3>1, <3>2, <5>1 DEF Climbs
        <5>3. QED
          BY <4>1, <5>2
      <4>4. QED
        BY <4>2, <4>3
    <3>5. Up(s[Len(s)]) \notin Names
      <4>1. Len(q) \in 1 .. Len(q)
        BY <3>3
      <4>2. s[Len(s)] = q[Len(q)]
        BY <3>2, <4>1
      <4>3. QED
        BY <3>1, <4>2 DEF Climbs
    <3>6. \A i \in 2 .. Len(s) : i - 1 \in 1 .. Len(q) /\ s[i] = q[i - 1] /\ s[i] # t
      <4> SUFFICES ASSUME NEW i \in 2 .. Len(s)
                   PROVE  i - 1 \in 1 .. Len(q) /\ s[i] = q[i - 1] /\ s[i] # t
        OBVIOUS
      <4>1. i - 1 \in 1 .. Len(q) /\ (i - 1) + 1 = i
        BY <3>2, <3>3
      <4>2. s[i] = q[i - 1]
        BY <3>2, <4>1
      <4>3. q[i - 1] # t
        BY <3>1, <3>3, <4>1 DEF ToSet
      <4>4. QED
        BY <4>1, <4>2, <4>3
    <3>7. \A i, j \in 1 .. Len(s) : s[i] = s[j] => i = j
      <4> SUFFICES ASSUME NEW i \in 1 .. Len(s), NEW j \in 1 .. Len(s), s[i] = s[j] PROVE i = j
        OBVIOUS
      <4>1. i = 1 \/ i \in 2 .. Len(s)
        BY <3>3
      <4>2. j = 1 \/ j \in 2 .. Len(s)
        BY <3>3
      <4>3. CASE i = 1 \/ j = 1
        BY <2>1, <3>6, <4>1, <4>2, <4>3
      <4>4. CASE i # 1 /\ j # 1
        <5>1. i - 1 \in 1 .. Len(q) /\ j - 1 \in 1 .. Len(q) /\ q[i - 1] = q[j - 1]
          BY <3>6, <4>1, <4>2, <4>4
        <5>2. i - 1 = j - 1
          BY <3>1, <5>1 DEF Climbs
        <5>3. QED
          BY <3>3, <5>2
      <4>5. QED
        BY <4>3, <4>4
    <3>8. Climbs(s)
      BY <2>1, <3>4, <3>5, <3>7 DEF Climbs
    <3>9. QED
      BY <3>8 DEF s
  <2>5. QED
    BY <2>3, <2>4
<1>2. Names \subseteq D
  <2>1. \A t \in Names : (Parent(t) \in Names => Parent(t) \in D) => t \in D
    BY <1>1
  <2> HIDE DEF D
  <2>2. QED
    BY <2>1, Descends
<1>3. QED
  BY <1>2

\* The first k of a sequence, the last of them first.
Backwards(s, k) == [j \in 1 .. k |-> s[(k - j) + 1]]

\* Backwards grows at its head.
LEMMA BackwardsGrows ==
    ASSUME NEW S, NEW s \in Seq(S), NEW k \in 1 .. Len(s)
    PROVE  /\ Backwards(s, k) \in Seq(S) /\ Len(Backwards(s, k)) = k
           /\ Head(Backwards(s, k)) = s[k]
           /\ ToSet(Backwards(s, k)) = {s[i] : i \in 1 .. k}
           /\ k < Len(s) => Backwards(s, k + 1) = <<s[k + 1]>> \o Backwards(s, k)
<1>1. ASSUME NEW n \in 1 .. Len(s)
      PROVE  /\ Backwards(s, n) \in Seq(S) /\ Len(Backwards(s, n)) = n
             /\ \A j \in 1 .. n : Backwards(s, n)[j] = s[(n - j) + 1]
  <2>1. n \in Nat /\ \A j \in 1 .. n : (n - j) + 1 \in 1 .. Len(s)
    OBVIOUS
  <2>2. \A j \in 1 .. Len(s) : s[j] \in S
    OBVIOUS
  <2>3. Backwards(s, n) \in [1 .. n -> S]
    BY <2>1, <2>2 DEF Backwards
  <2>4. Backwards(s, n) \in Seq(S) /\ Len(Backwards(s, n)) = n
    BY <2>1, <2>3, Sequenced
  <2>5. QED
    BY <2>4 DEF Backwards
<1> DEFINE b == Backwards(s, k)
<1>2. /\ b \in Seq(S) /\ Len(b) = k /\ k \in Nat /\ 1 \in 1 .. k
      /\ \A j \in 1 .. k : b[j] = s[(k - j) + 1]
  BY <1>1
<1> HIDE DEF b
<1>3. Head(b) = s[k]
  <2>1. Head(b) = b[1] /\ (k - 1) + 1 = k
    BY <1>2
  <2>2. QED
    BY <1>2, <2>1
<1> DEFINE K == 1 .. k
<1>4. ToSet(b) = {s[i] : i \in K}
  <2>1. DOMAIN b = K
    BY <1>2
  <2>2. \A j \in K : (k - j) + 1 \in K /\ b[j] = s[(k - j) + 1]
    BY <1>2
  <2>3. \A i \in K : (k - ((k - i) + 1)) + 1 = i
    BY <1>2
  <2> HIDE DEF K
  <2>4. \A i \in K : (k - i) + 1 \in K /\ b[(k - i) + 1] = s[i]
    BY <2>2, <2>3
  <2>5. QED
    BY <2>1, <2>2, <2>4 DEF ToSet
<1>5. ASSUME k < Len(s) PROVE Backwards(s, k + 1) = <<s[k + 1]>> \o b
  <2> DEFINE c == Backwards(s, k + 1)
             h == <<s[k + 1]>>
  <2>1. k + 1 \in 1 .. Len(s)
    BY <1>2, <1>5
  <2>2. /\ c \in Seq(S) /\ Len(c) = k + 1
        /\ \A j \in 1 .. k + 1 : c[j] = s[((k + 1) - j) + 1]
    BY <1>1, <2>1
  <2>3. h \in Seq(S) /\ Len(h) = 1 /\ h[1] = s[k + 1]
    BY <2>1
  <2> HIDE DEF c, h
  <2>4. /\ h \o b \in Seq(S) /\ Len(h \o b) = 1 + k
        /\ \A i \in 1 .. 1 : (h \o b)[i] = h[i]
        /\ \A i \in 1 .. k : (h \o b)[1 + i] = b[i]
    <3>1. h \in Seq(S) /\ b \in Seq(S)
      BY <1>2, <2>3
    <3>2. /\ h \o b \in Seq(S) /\ Len(h \o b) = Len(h) + Len(b)
          /\ \A i \in 1 .. Len(h) : (h \o b)[i] = h[i]
          /\ \A i \in 1 .. Len(b) : (h \o b)[Len(h) + i] = b[i]
      BY ONLY <3>1, Joined
    <3>3. QED
      BY <1>2, <2>3, <3>2
  <2>5. ASSUME NEW j \in 1 .. k + 1 PROVE c[j] = (h \o b)[j]
    <3>1. CASE j = 1
      <4>1. ((k + 1) - j) + 1 = k + 1 /\ 1 \in 1 .. 1
        BY <1>2, <3>1
      <4>2. QED
        BY <2>2, <2>3, <2>4, <3>1, <4>1
    <3>2. CASE j # 1
      <4>1. j - 1 \in 1 .. k /\ 1 + (j - 1) = j /\ ((k + 1) - j) + 1 = (k - (j - 1)) + 1
        BY <1>2, <3>2
      <4>2. c[j] = s[(k - (j - 1)) + 1]
        BY <2>2, <4>1
      <4>3. (h \o b)[j] = b[j - 1]
        BY <2>4, <4>1
      <4>4. b[j - 1] = s[(k - (j - 1)) + 1]
        BY <1>2, <4>1
      <4>5. QED
        BY <4>2, <4>3, <4>4
    <3>3. QED
      BY <3>1, <3>2
  <2>6. c = h \o b
    <3>1. Len(c) = Len(h \o b) /\ \A j \in 1 .. Len(c) : c[j] = (h \o b)[j]
      BY <1>2, <2>2, <2>4, <2>5
    <3>2. c \in Seq(S) /\ h \o b \in Seq(S)
      BY <2>2, <2>4
    <3>3. QED
      BY ONLY <3>1, <3>2, SameSequence
  <2>7. QED
    BY <2>6 DEF c, h
<1>6. QED
  BY <1>2, <1>3, <1>4, <1>5 DEF b

\* One round of GetLabels' loop: the parent is put in front, if there is one.
Round(labels) ==
    LET p == ParentOf(Head(labels))
    IN IF p \in {0} \cup ToSet(labels) THEN labels ELSE <<p>> \o labels

\* A round makes the line one type longer, until the root.
LEMMA RoundClimbs ==
    ASSUME Read, docs \in Directories, NEW s, Climbs(s), Up(s[Len(s)]) = 0, NEW k \in 1 .. Len(s)
    PROVE  Round(Backwards(s, k)) = Backwards(s, IF k < Len(s) THEN k + 1 ELSE k)
<1> DEFINE b == Backwards(s, k)
<1>1. /\ s \in Seq(Names) /\ \A i \in 1 .. Len(s) - 1 : Up(s[i]) = s[i + 1]
      /\ \A i, j \in 1 .. Len(s) : s[i] = s[j] => i = j
      /\ Names \subseteq Nat \ {0}
  BY Declarations DEF Climbs
<1>2. /\ Head(b) = s[k] /\ ToSet(b) = {s[i] : i \in 1 .. k}
      /\ k < Len(s) => Backwards(s, k + 1) = <<s[k + 1]>> \o b
  <2>1. s \in Seq(Names) /\ k \in 1 .. Len(s)
    BY <1>1
  <2>2. QED
    BY ONLY <2>1, BackwardsGrows, Zenon
<1>3. ParentOf(s[k]) = Up(s[k])
  BY ParentsDeclared
<1> HIDE DEF b
<1>4. CASE k < Len(s)
  <2>1. k \in 1 .. Len(s) - 1 /\ k + 1 \in 1 .. Len(s)
    BY <1>4
  <2>2. Up(s[k]) = s[k + 1] /\ s[k + 1] \in Names
    <3>1. s \in Seq(Names)
      BY <1>1
    <3>2. s[k + 1] \in Names
      BY <2>1, <3>1
    <3>3. QED
      BY <1>1, <2>1, <3>2
  <2>3. s[k + 1] # 0
    BY <1>1, <2>2
  <2>4. s[k + 1] \notin ToSet(b)
    <3>1. \A i \in 1 .. k : i \in 1 .. Len(s) /\ i # k + 1
      BY <1>4
    <3>2. QED
      BY <1>1, <1>2, <2>1, <3>1
  <2>5. Round(b) = <<s[k + 1]>> \o b
    BY <1>2, <1>3, <2>2, <2>3, <2>4 DEF Round
  <2>6. QED
    BY <1>2, <1>4, <2>5 DEF b
<1>5. CASE ~(k < Len(s))
  <2>1. k = Len(s)
    BY <1>1, <1>5
  <2>2. Round(b) = b
    BY <1>2, <1>3, <2>1 DEF Round
  <2>3. QED
    BY <1>5, <2>2 DEF b
<1>6. QED
  BY <1>4, <1>5

\* A round turns labels into labels.
LEMMA RoundLabels ==
    ASSUME Read, docs \in Directories, NEW v \in Seq(Nat)
    PROVE  Round(v) \in Seq(Nat)
<1>1. ParentOf(Head(v)) \in Nat
  BY ParentsDeclared, Declarations
<1>2. <<ParentOf(Head(v))>> \o v \in Seq(Nat)
  BY <1>1
<1>3. QED
  BY <1>2 DEF Round

\* GetLabels climbs to the root of the line.
LEMMA LabelsAreLines ==
    ASSUME Read, docs \in Directories, ~Cyclic, NEW kind \in Names,
           \A t \in Names : Parent(t) = 0 \/ Parent(t) \in Names
    PROVE  GetLabels(kind) = Reverse(Line(kind))
<1> DEFINE rounds == Cardinality(DOMAIN types)
           s == Line(kind)
           m == Len(s)
           F == [i \in 1 .. rounds |-> [v \in Seq(Nat) |-> Round(v)]]
           Reads(f) == f = [n \in 0 .. rounds |->
                              IF n = 0 THEN <<kind>>
                              ELSE LET p == ParentOf(Head(f[n - 1]))
                                   IN IF p \in {0} \cup ToSet(f[n - 1]) THEN f[n - 1]
                                      ELSE <<p>> \o f[n - 1]]
           At(n) == Backwards(s, IF n + 1 <= m THEN n + 1 ELSE m)
<1>1. rounds \in Nat /\ rounds = Cardinality(Names) /\ kind \in Nat
  BY NamesFinite, Declarations DEF Read
<1>2. Climbs(s) /\ s[1] = kind
  BY LinesClimb, Lines
<1>3. s \in Seq(Names) /\ m \in 1 .. rounds /\ m \in Nat
  <2> HIDE DEF s
  <2>1. QED
    BY <1>1, <1>2 DEF Climbs
<1>4. Up(s[m]) = 0
  <2>1. s[m] \in Names
    <3> HIDE DEF s
    <3>1. s \in Seq(Names) /\ m \in 1 .. m
      BY <1>3
    <3>2. QED
      BY <3>1
  <2>2. Up(s[m]) = Parent(s[m])
    BY <2>1 DEF Up
  <2>3. QED
    BY <1>2, <2>1, <2>2 DEF Climbs
<1> HIDE DEF s
<1>5. Body(F, rounds, Seq(Nat)) /\ <<kind>> \in Seq(Nat)
  <2>1. \A v \in Seq(Nat) : Round(v) \in Seq(Nat)
    BY RoundLabels
  <2> HIDE DEF rounds
  <2>2. QED
    BY <1>1, <2>1 DEF Body
<1>6. PICK g : Values(g, F, rounds, Seq(Nat), <<kind>>)
  <2> HIDE DEF F, rounds
  <2>1. QED
    BY <1>1, <1>5, Iterated
<1>7. \A i \in 1 .. rounds, v \in Seq(Nat) : F[i][v] = Round(v)
  OBVIOUS
<1>8. ASSUME NEW n \in 0 .. rounds
      PROVE  g[n] = IF n = 0 THEN <<kind>> ELSE Round(g[n - 1])
  <2> HIDE DEF F, rounds
  <2>1. CASE n = 0
    BY <1>6, <2>1 DEF Values
  <2>2. CASE n # 0
    <3>1. n \in 1 .. rounds /\ n - 1 \in 0 .. rounds
      BY <1>1, <2>2
    <3>2. g[n] = F[n][g[n - 1]] /\ g[n - 1] \in Seq(Nat)
      BY <1>6, <3>1 DEF Values
    <3>3. QED
      BY <1>7, <2>2, <3>1, <3>2
  <2>3. QED
    BY <2>1, <2>2
<1>9. Reads(g)
  <2>1. g = [n \in 0 .. rounds |-> g[n]]
    BY <1>6 DEF Values
  <2> HIDE DEF rounds, F
  <2>2. QED
    BY <1>8, <2>1 DEF Round
<1> DEFINE h == CHOOSE f : Reads(f)
<1>10. Reads(h)
  <2> HIDE DEF Reads
  <2>1. QED
    BY <1>9
<1>11. GetLabels(kind) = h[rounds]
  BY DEF GetLabels
<1> HIDE DEF h
<1>12. \A n \in 0 .. rounds : h[n] = IF n = 0 THEN <<kind>> ELSE Round(h[n - 1])
  <2> HIDE DEF rounds
  <2>1. QED
    BY <1>10 DEF Round
<1> HIDE DEF Reads, rounds
<1> DEFINE D == {n \in 0 .. rounds : h[n] = At(n)}
<1>13. 0 \in D
  <2>1. 0 + 1 <= m /\ 1 \in 1 .. m
    BY <1>3
  <2>2. At(0) = Backwards(s, 1)
    BY <2>1
  <2>3. Backwards(s, 1) = <<kind>>
    <3>1. Backwards(s, 1) = [j \in 1 .. 1 |-> s[(1 - j) + 1]]
      BY DEF Backwards
    <3>2. \A j \in 1 .. 1 : (1 - j) + 1 = 1
      OBVIOUS
    <3>3. QED
      BY <1>2, <3>1, <3>2
  <2>4. QED
    BY <1>1, <1>12, <2>2, <2>3
<1>14. ASSUME NEW n \in 0 .. rounds - 1, n \in D PROVE n + 1 \in D
  <2> DEFINE k == IF n + 1 <= m THEN n + 1 ELSE m
  <2>1. /\ n \in Nat /\ k \in 1 .. m /\ n + 1 \in 0 .. rounds /\ n + 1 # 0 /\ (n + 1) - 1 = n
        /\ (IF (n + 1) + 1 <= m THEN (n + 1) + 1 ELSE m) = IF k < m THEN k + 1 ELSE k
    BY <1>1, <1>3
  <2>2. h[n + 1] = Round(h[n])
    BY <1>12, <2>1
  <2>3. h[n] = Backwards(s, k)
    BY <1>14
  <2> HIDE DEF k
  <2>4. Round(Backwards(s, k)) = Backwards(s, IF k < m THEN k + 1 ELSE k)
    BY <1>2, <1>4, <2>1, RoundClimbs
  <2>5. h[n + 1] = At(n + 1)
    BY <2>1, <2>2, <2>3, <2>4
  <2>6. QED
    BY <2>1, <2>5
<1>15. rounds \in D
  <2> HIDE DEF D
  <2>1. QED
    BY <1>1, <1>13, <1>14, Climbed
<1>16. h[rounds] = Backwards(s, m)
  <2>1. ~(rounds + 1 <= m)
    BY <1>1, <1>3
  <2>2. QED
    BY <1>15, <2>1
<1>17. Backwards(s, m) = Reverse(s)
  BY DEF Backwards, Reverse
<1>18. QED
  BY <1>11, <1>16, <1>17 DEF s

-----------------------------------------------------------------------------
(* The resources of a batch, and its graph.                                 *)

\* What Assemble makes of the batch.
Assembled ==
    LET valid == {r \in Derived : r.to \in Uris}
    IN [nodes |-> [i \in DOMAIN batch |-> NodeOf(batch[i])],
        relations |-> valid, warnings |-> Derived \ valid]

\* The properties of r as they are validated, with the mapping in the order s.
Made(r, s) ==
    LET et == types[r.kind]
    IN applyDefaults(et.props, Standardized(Mapped(r.props, et.mapping, s), RulesOf(r.kind)))

\* A resource as Normalize accepts it.
Normal(a) ==
    /\ a.kind \in DOMAIN types /\ a.raw \in Resources /\ a.kind = a.raw.kind
    /\ \E s \in SetToSeqs(DOMAIN types[a.kind].mapping) : a.props = Made(a.raw, s)
    /\ Valid(types[a.kind], a.props)
    /\ a.uri = GenerateURI(types[a.kind].template, types[a.kind].keys, a.props)

\* Resources are taken when all types are loaded; the graph is that of the batch.
GraphInv ==
    /\ batch # <<>> => pc = "ready"
    /\ \E S : batch \in Seq(S) /\ \A a \in S : Normal(a)
    /\ Graph => pc = "ready" /\ model = Assembled

\* Nothing has been taken at the start.
LEMMA GraphInit == Init => GraphInv
<1> SUFFICES ASSUME Init PROVE GraphInv
  OBVIOUS
<1>1. batch \in Seq({}) /\ \A a \in {} : Normal(a)
  BY DEF Init
<1>2. QED
  BY <1>1 DEF Init, GraphInv, Graph

\* The loader stops when it is ready.
LEMMA LoaderStops == LoadStep => pc # "ready"
BY DEF LoadStep, LoadFromDir, NothingFound, Load, DfsCall, DfsReturn, DfsNext, TopoCall,
       TopoReturn, TopoNext, MergeNext, Resolved

\* With the types and the batch, the graph of the batch stays what it is.
LEMMA AssembledKept ==
    ASSUME UNCHANGED <<loadVars, batch>>
    PROVE  Assembled' = Assembled /\ \A a : Normal(a)' <=> Normal(a)
<1>1. types' = types /\ heap' = heap /\ relations' = relations /\ batch' = batch
  BY DEF loadVars, registry
<1>2. Derived' = Derived /\ Uris' = Uris
  BY <1>1 DEF Derived, Derives, Uris
<1>3. \A a : NodeOf(a)' = NodeOf(a)
  BY <1>1 DEF NodeOf, GetLabels, ParentOf
<1>4. Assembled' = Assembled
  BY <1>1, <1>2, <1>3 DEF Assembled
<1>5. \A a : Normal(a)' <=> Normal(a)
  BY <1>1 DEF Normal, Made, RulesOf, Rules
<1>6. QED
  BY <1>4, <1>5

\* Normalize appends a resource of a known kind, with its defaults, and valid.
LEMMA NormalizeAppends ==
    ASSUME NEW r \in Resources, Normalize(r), GraphInv
    PROVE  \E S : batch' \in Seq(S) /\ \A a \in S : Normal(a)
<1>1. PICK S : batch \in Seq(S) /\ \A a \in S : Normal(a)
  BY DEF GraphInv
<1>2. PICK e : batch' = Append(batch, e) /\ Normal(e)
  <2> DEFINE et == types[r.kind]
             made(s) == [raw |-> r, kind |-> r.kind, props |-> Made(r, s),
                         uri |-> GenerateURI(et.template, et.keys, Made(r, s))]
  <2>1. PICK s \in SetToSeqs(DOMAIN et.mapping) :
            Valid(et, Made(r, s)) /\ batch' = Append(batch, made(s))
    BY DEF Normalize, Made
  <2>2. r.kind \in DOMAIN types
    BY DEF Normalize
  <2>3. /\ made(s).raw = r /\ made(s).kind = r.kind /\ made(s).props = Made(r, s)
        /\ made(s).uri = GenerateURI(et.template, et.keys, Made(r, s))
    OBVIOUS
  <2>4. Normal(made(s))
    BY <2>1, <2>2, <2>3 DEF Normal
  <2>5. QED
    BY <2>1, <2>4
<1>3. batch \in Seq(S \cup {e}) /\ e \in S \cup {e} /\ \A a \in S \cup {e} : Normal(a)
  BY <1>1, <1>2, Widened
<1>4. batch' \in Seq(S \cup {e})
  BY <1>2, <1>3, Appended
<1>5. QED
  BY <1>3, <1>4

\* Every step of the loader, of Normalize and of Assemble.
LEMMA GraphStep == GraphInv /\ [Next]_pipeVars => GraphInv'
<1> SUFFICES ASSUME GraphInv, [Next]_pipeVars PROVE GraphInv'
  OBVIOUS
<1>1. CASE LoadStep /\ UNCHANGED <<batch, model>>
  <2>1. batch = <<>> /\ batch' = <<>> /\ ~Graph /\ ~Graph'
    BY <1>1, LoaderStops DEF GraphInv, Graph
  <2>2. batch' \in Seq({}) /\ \A a \in {} : Normal(a)'
    BY <2>1
  <2>3. QED
    BY <2>1, <2>2 DEF GraphInv
<1>2. CASE model = NoModel /\ UNCHANGED model /\ \E r \in Resources : Normalize(r)
  <2>1. PICK r \in Resources : Normalize(r)
    BY <1>2
  <2>2. pc' = "ready" /\ types' = types /\ heap' = heap /\ ~Graph'
    BY <1>2, <2>1 DEF Normalize, loadVars, registry, Graph
  <2>3. PICK S : batch' \in Seq(S) /\ \A a \in S : Normal(a)
    BY <2>1, NormalizeAppends
  <2>4. \A a \in S : Normal(a)'
    BY <2>2, <2>3 DEF Normal, Made, RulesOf, Rules
  <2>5. QED
    BY <2>2, <2>3, <2>4 DEF GraphInv
<1>3. CASE Assemble
  <2>1. UNCHANGED <<loadVars, batch>> /\ model' = Assembled /\ pc' = "ready"
    BY <1>3 DEF Assemble, Assembled, loadVars
  <2>2. Assembled' = Assembled /\ \A a : Normal(a)' <=> Normal(a)
    BY <2>1, AssembledKept
  <2>3. QED
    BY <2>1, <2>2 DEF GraphInv
<1>4. CASE UNCHANGED pipeVars
  <2>1. UNCHANGED <<loadVars, batch>> /\ model' = model /\ pc' = pc
    BY <1>4 DEF pipeVars, loadVars
  <2>2. Assembled' = Assembled /\ \A a : Normal(a)' <=> Normal(a)
    BY <2>1, AssembledKept
  <2>3. QED
    BY <2>1, <2>2 DEF GraphInv, Graph
<1>5. QED
  BY <1>1, <1>2, <1>3, <1>4 DEF Next

\* Loading, normalizing and assembling together.
LEMMA PipelineAlways == Spec => [](LoaderInv /\ GraphInv)
<1>1. Init => GraphInv
  BY GraphInit
<1>2. GraphInv /\ [Next]_pipeVars => GraphInv'
  BY GraphStep
<1>3. QED
  BY <1>1, <1>2, LoaderAlways, PTL DEF Spec

\* In the order Assemble left them, the nodes are the resources with their labels.
LEMMA NodesReady ==
    ASSUME LoaderInv, GraphInv
    PROVE  NodesFaithful
<1> SUFFICES ASSUME Graph, NEW i \in DOMAIN batch
             PROVE  LET node == model.nodes[i]
                    IN /\ node.labels = Reverse(Line(batch[i].kind))
                       /\ DOMAIN node.props = {f \in DOMAIN batch[i].props :
                                                  ~IsRelation(batch[i].kind, f)}
                       /\ \A f \in DOMAIN node.props : node.props[f] = batch[i].props[f]
  BY DEF NodesFaithful
<1> DEFINE a == batch[i]
           node == model.nodes[i]
<1>1. pc = "ready" /\ model = Assembled
  BY DEF GraphInv
<1>2. a.kind \in DOMAIN types
  BY DEF GraphInv, Normal
<1>3. /\ docs \in Directories /\ ~Cyclic /\ Read /\ TakenOver /\ Pending = {}
      /\ \A t \in Names : Parent(t) = 0 \/ Parent(t) \in Names
  BY <1>1 DEF LoaderInv, SearchInv, LoadVerdict, MergeInv, Pending, Orphans
<1>4. a.kind \in Names
  BY <1>2, <1>3 DEF Read
<1>5. node = NodeOf(a)
  BY <1>1 DEF Assembled
<1>6. GetLabels(a.kind) = Reverse(Line(a.kind))
  BY <1>3, <1>4, LabelsAreLines
<1>7. \A f : f \in DOMAIN types[a.kind].fields <=> IsRelation(a.kind, f)
  <2>1. Inherits(a.kind, "fields")
    BY <1>3, <1>4, DefinitionsTaken DEF DefinitionsInherited, Inheritable
  <2>2. DOMAIN types[a.kind].fields
          = UNION {DOMAIN Declared(Line(a.kind)[j]).fields : j \in DOMAIN Line(a.kind)}
    BY <2>1 DEF Inherits
  <2>3. QED
    BY <2>2 DEF IsRelation, ToSet
<1>8. /\ node.labels = GetLabels(a.kind)
      /\ node.props = Restrict(a.props, DOMAIN a.props \ DOMAIN types[a.kind].fields)
  BY <1>5 DEF NodeOf
<1>9. QED
  BY <1>6, <1>7, <1>8 DEF Restrict

\* Every entry of a relation field is a relation or a warning.
LEMMA EdgesReady ==
    ASSUME LoaderInv, GraphInv
    PROVE  EdgesClosed
<1> SUFFICES ASSUME Graph, NEW i \in DOMAIN batch, NEW f \in DOMAIN batch[i].props,
                    IsRelation(batch[i].kind, f), Derives(batch[i], f),
                    NEW n \in DOMAIN batch[i].props[f].v
             PROVE  LET to == batch[i].props[f].v[n]
                        Has(S) == \E r \in S : r.from = batch[i].uri /\ r.to = to
                                               /\ r.i = i /\ r.field = f
                    IN IF \E j \in DOMAIN model.nodes : model.nodes[j].uri = to
                       THEN Has(model.relations) ELSE Has(model.warnings)
  BY DEF EdgesClosed
<1> DEFINE a == batch[i]
           to == a.props[f].v[n]
           r == [i |-> i, field |-> f, n |-> n, type |-> types[a.kind].fields[f],
                 from |-> a.uri, to |-> to]
<1>1. pc = "ready" /\ model = Assembled
  BY DEF GraphInv
<1>2. /\ docs \in Directories /\ ~Cyclic /\ Read /\ TakenOver /\ Pending = {}
      /\ a.kind \in Names
  BY <1>1 DEF LoaderInv, SearchInv, LoadVerdict, MergeInv, Pending, GraphInv, Normal, Read
<1>3. f \in DOMAIN types[a.kind].fields
  <2>1. Inherits(a.kind, "fields")
    BY <1>2, DefinitionsTaken DEF DefinitionsInherited, Inheritable
  <2>2. DOMAIN types[a.kind].fields
          = UNION {DOMAIN Declared(Line(a.kind)[j]).fields : j \in DOMAIN Line(a.kind)}
    BY <2>1 DEF Inherits
  <2>3. QED
    BY <2>2 DEF IsRelation, ToSet
<1>4. r \in Derived
  BY <1>3 DEF Derived
<1>5. (\E j \in DOMAIN model.nodes : model.nodes[j].uri = to) <=> to \in Uris
  <2>1. /\ DOMAIN model.nodes = DOMAIN batch
        /\ \A j \in DOMAIN batch : model.nodes[j].uri = batch[j].uri
    BY <1>1 DEF Assembled, NodeOf
  <2>2. QED
    BY <2>1 DEF Uris
<1>6. r.from = a.uri /\ r.to = to /\ r.i = i /\ r.field = f
  OBVIOUS
<1>7. IF to \in Uris THEN r \in model.relations ELSE r \in model.warnings
  BY <1>1, <1>4, <1>6 DEF Assembled
<1>8. QED
  BY <1>5, <1>6, <1>7

\* The graph (assembler.go): whatever the directory and the resources, each
\* resource of the batch is one node with the labels of its line, the root's
\* first, and without its relation fields, inherited ones included; and each
\* entry of a relation field is an edge if its target is in the batch, before
\* or behind it, and else a warning.
THEOREM GraphIsFaithful == Spec => []GraphFaithful
<1>1. LoaderInv /\ GraphInv => GraphFaithful
  BY NodesReady, EdgesReady DEF GraphFaithful
<1>2. QED
  BY <1>1, PipelineAlways, PTL

-----------------------------------------------------------------------------
(* What is accepted.                                                        *)

\* What the resources of a batch are known to be.
LEMMA AcceptedNormal ==
    ASSUME LoaderInv, GraphInv, NEW a \in Accepted
    PROVE  /\ docs \in Directories /\ ~Cyclic /\ Read /\ TakenOver /\ Pending = {} /\ Slices
           /\ Normal(a) /\ a.kind \in Names
<1>1. PICK S : batch \in Seq(S) /\ \A b \in S : Normal(b)
  BY DEF GraphInv
<1>2. PICK i \in DOMAIN batch : a = batch[i]
  BY DEF Accepted, ToSet
<1>3. Normal(a) /\ batch # <<>>
  BY <1>1, <1>2
<1>4. pc = "ready"
  BY <1>3 DEF GraphInv
<1>5. docs \in Directories /\ ~Cyclic /\ Read /\ TakenOver /\ Pending = {} /\ Slices
  BY <1>4 DEF LoaderInv, SearchInv, LoadVerdict, MergeInv, RulesInv, Pending
<1>6. QED
  BY <1>3, <1>5 DEF Normal, Read

\* What a property has to be, by the nearest of the line that declares it.
LEMMA PropsReady ==
    ASSUME LoaderInv, GraphInv
    PROVE  PropsConform
<1> SUFFICES ASSUME NEW a \in Accepted
             PROVE  /\ \A f \in UNION {DOMAIN Declared(t).props : t \in ToSet(Line(a.kind))} :
                          LET spec == Nearest(Line(a.kind), f, "props")
                          IN /\ spec.required => Filled(a.props, f)
                             /\ f \in DOMAIN a.props =>
                                   /\ checkType(a.props[f], spec.type)
                                   /\ InEnum(a.props[f], spec.enum)
                             /\ spec.default.t # "nil" => f \in DOMAIN a.props
                    /\ \A k \in ToSet(Declared(a.kind).keys) : Filled(a.props, k)
  BY DEF PropsConform
<1> DEFINE et == types[a.kind]
           line == Line(a.kind)
<1>1. /\ docs \in Directories /\ ~Cyclic /\ Read /\ TakenOver /\ Pending = {}
      /\ Normal(a) /\ a.kind \in Names
  BY AcceptedNormal
<1>2. Inherits(a.kind, "props")
  BY <1>1, DefinitionsTaken DEF DefinitionsInherited, Inheritable
<1>3. /\ DOMAIN et.props = UNION {DOMAIN Declared(line[i]).props : i \in DOMAIN line}
      /\ \A f \in DOMAIN et.props : et.props[f] = Nearest(line, f, "props")
  BY <1>2 DEF Inherits
<1>4. et.keys = Declared(a.kind).keys
  BY <1>1 DEF TakenOver, Identity
<1>5. PICK s : a.props = Made(a.raw, s)
  BY <1>1 DEF Normal
<1>6. \A f \in DOMAIN et.props : et.props[f].default.t # "nil" => f \in DOMAIN a.props
  <2>1. a.kind = a.raw.kind
    BY <1>1 DEF Normal
  <2>2. PICK p : a.props = applyDefaults(et.props, p)
    BY <1>5, <2>1 DEF Made
  <2>3. QED
    BY <2>2 DEF applyDefaults
<1>7. Valid(et, a.props)
  BY <1>1 DEF Normal
<1>8. \A f : Present(a.props, f) => Filled(a.props, f)
  BY DEF Present, isEmpty, Filled
<1>9. \A f \in UNION {DOMAIN Declared(t).props : t \in ToSet(line)} : f \in DOMAIN et.props
  BY <1>3 DEF ToSet
<1>10. \A k \in ToSet(et.keys) : Present(a.props, k)
  BY <1>7 DEF Valid, ToSet
<1>11. ASSUME NEW f \in DOMAIN et.props
       PROVE  /\ et.props[f].required => Filled(a.props, f)
              /\ f \in DOMAIN a.props => /\ checkType(a.props[f], et.props[f].type)
                                         /\ InEnum(a.props[f], et.props[f].enum)
              /\ et.props[f].default.t # "nil" => f \in DOMAIN a.props
  BY <1>6, <1>7, <1>8 DEF Valid
<1>12. QED
  BY <1>3, <1>4, <1>8, <1>9, <1>10, <1>11

-----------------------------------------------------------------------------
(* The loops of Normalize and GenerateURI, step by step.                    *)

\* The copy after each field of the mapping.
Renames(g, props, mapping, sequence) ==
    /\ g[0] = props
    /\ \A n \in 1 .. Len(sequence) : g[n] = MapOne(g[n - 1], sequence[n], mapping[sequence[n]])

\* Such copies exist, and the last is the outcome.
LEMMA Renaming ==
    ASSUME NEW S, NEW sequence \in Seq(S), NEW props, NEW mapping
    PROVE  \E g : /\ Renames(g, props, mapping, sequence)
                 /\ Mapped(props, mapping, sequence) = g[Len(sequence)]
<1> DEFINE m == Len(sequence)
           Upto(g, l) == g = [n \in 0 .. l |-> IF n = 0 THEN props
                                               ELSE MapOne(g[n - 1], sequence[n], mapping[sequence[n]])]
           D == {l \in 0 .. m : \E g : Upto(g, l)}
<1>1. m \in Nat
  OBVIOUS
<1>2. 0 \in D
  <2>1. \E g : Upto(g, 0)
    <3>1. Upto([n \in 0 .. 0 |-> props], 0)
      OBVIOUS
    <3> HIDE DEF Upto
    <3>2. QED
      BY <3>1
  <2> HIDE DEF Upto
  <2>2. QED
    BY <1>1, <2>1
<1>3. ASSUME NEW l \in 0 .. m - 1, l \in D PROVE l + 1 \in D
  <2>1. PICK g : Upto(g, l)
    BY <1>3
  <2>2. l \in Nat /\ l + 1 \in 0 .. m /\ l \in 0 .. l
    BY <1>1
  <2> DEFINE h == [n \in 0 .. l + 1 |-> IF n \in 0 .. l THEN g[n]
                                       ELSE MapOne(g[l], sequence[l + 1], mapping[sequence[l + 1]])]
  <2>3. ASSUME NEW n \in 0 .. l + 1
        PROVE  h[n] = IF n = 0 THEN props ELSE MapOne(h[n - 1], sequence[n], mapping[sequence[n]])
    <3>1. CASE n = 0
      BY <2>1, <2>2, <3>1
    <3>2. CASE n # 0 /\ n \in 0 .. l
      <4>1. n - 1 \in 0 .. l /\ n - 1 \in 0 .. l + 1
        BY <2>2, <3>2
      <4>2. h[n] = g[n] /\ h[n - 1] = g[n - 1]
        BY <3>2, <4>1
      <4>3. g[n] = MapOne(g[n - 1], sequence[n], mapping[sequence[n]])
        BY <2>1, <3>2
      <4>4. QED
        BY <3>2, <4>2, <4>3
    <3>3. CASE n \notin 0 .. l
      <4>1. n = l + 1 /\ n - 1 = l /\ n # 0 /\ l \in 0 .. l + 1
        BY <2>2, <3>3
      <4>2. h[n] = MapOne(g[l], sequence[n], mapping[sequence[n]]) /\ h[l] = g[l]
        BY <2>2, <3>3, <4>1
      <4>3. QED
        BY <4>1, <4>2
    <3>4. QED
      BY <3>1, <3>2, <3>3
  <2>4. h = [n \in 0 .. l + 1 |-> h[n]]
    OBVIOUS
  <2> HIDE DEF h
  <2>5. Upto(h, l + 1)
    BY <2>3, <2>4
  <2>6. QED
    BY <2>2, <2>5
<1>4. m \in D
  <2> HIDE DEF D
  <2>1. QED
    BY <1>1, <1>2, <1>3, Climbed
<1> DEFINE f == CHOOSE g : Upto(g, m)
<1>5. Upto(f, m)
  <2>1. \E g : Upto(g, m)
    BY <1>4
  <2> HIDE DEF Upto
  <2>2. QED
    BY <2>1
<1>6. Mapped(props, mapping, sequence) = f[m]
  BY DEF Mapped
<1> HIDE DEF f
<1>7. Renames(f, props, mapping, sequence)
  <2>1. \A n \in 0 .. m : f[n] = IF n = 0 THEN props ELSE MapOne(f[n - 1], sequence[n], mapping[sequence[n]])
    BY <1>5
  <2>2. 0 \in 0 .. m /\ \A n \in 1 .. m : n \in 0 .. m /\ n # 0
    BY <1>1
  <2> HIDE DEF Upto
  <2>3. QED
    BY <2>1, <2>2 DEF Renames
<1>8. QED
  BY <1>6, <1>7

\* The properties after each rule.
Replaces(g, props, rules) ==
    /\ g[0] = props
    /\ \A n \in 1 .. Len(rules) : g[n] = Replaced(g[n - 1], rules[n])

\* Such properties exist, and the last are the outcome.
LEMMA Replacing ==
    ASSUME NEW S, NEW rules \in Seq(S), NEW props
    PROVE  \E g : /\ Replaces(g, props, rules)
                 /\ Standardized(props, rules) = g[Len(rules)]
<1> DEFINE m == Len(rules)
           Upto(g, l) == g = [n \in 0 .. l |-> IF n = 0 THEN props
                                               ELSE Replaced(g[n - 1], rules[n])]
           D == {l \in 0 .. m : \E g : Upto(g, l)}
<1>1. m \in Nat
  OBVIOUS
<1>2. 0 \in D
  <2>1. \E g : Upto(g, 0)
    <3>1. Upto([n \in 0 .. 0 |-> props], 0)
      OBVIOUS
    <3> HIDE DEF Upto
    <3>2. QED
      BY <3>1
  <2> HIDE DEF Upto
  <2>2. QED
    BY <1>1, <2>1
<1>3. ASSUME NEW l \in 0 .. m - 1, l \in D PROVE l + 1 \in D
  <2>1. PICK g : Upto(g, l)
    BY <1>3
  <2>2. l \in Nat /\ l + 1 \in 0 .. m /\ l \in 0 .. l
    BY <1>1
  <2> DEFINE h == [n \in 0 .. l + 1 |-> IF n \in 0 .. l THEN g[n]
                                       ELSE Replaced(g[l], rules[l + 1])]
  <2>3. ASSUME NEW n \in 0 .. l + 1
        PROVE  h[n] = IF n = 0 THEN props ELSE Replaced(h[n - 1], rules[n])
    <3>1. CASE n = 0
      BY <2>1, <2>2, <3>1
    <3>2. CASE n # 0 /\ n \in 0 .. l
      <4>1. n - 1 \in 0 .. l /\ n - 1 \in 0 .. l + 1
        BY <2>2, <3>2
      <4>2. h[n] = g[n] /\ h[n - 1] = g[n - 1]
        BY <3>2, <4>1
      <4>3. g[n] = Replaced(g[n - 1], rules[n])
        BY <2>1, <3>2
      <4>4. QED
        BY <3>2, <4>2, <4>3
    <3>3. CASE n \notin 0 .. l
      <4>1. n = l + 1 /\ n - 1 = l /\ n # 0 /\ l \in 0 .. l + 1
        BY <2>2, <3>3
      <4>2. h[n] = Replaced(g[l], rules[n]) /\ h[l] = g[l]
        BY <2>2, <3>3, <4>1
      <4>3. QED
        BY <4>1, <4>2
    <3>4. QED
      BY <3>1, <3>2, <3>3
  <2>4. h = [n \in 0 .. l + 1 |-> h[n]]
    OBVIOUS
  <2> HIDE DEF h
  <2>5. Upto(h, l + 1)
    BY <2>3, <2>4
  <2>6. QED
    BY <2>2, <2>5
<1>4. m \in D
  <2> HIDE DEF D
  <2>1. QED
    BY <1>1, <1>2, <1>3, Climbed
<1> DEFINE f == CHOOSE g : Upto(g, m)
<1>5. Upto(f, m)
  <2>1. \E g : Upto(g, m)
    BY <1>4
  <2> HIDE DEF Upto
  <2>2. QED
    BY <2>1
<1>6. Standardized(props, rules) = f[m]
  BY DEF Standardized
<1> HIDE DEF f
<1>7. Replaces(f, props, rules)
  <2>1. \A n \in 0 .. m : f[n] = IF n = 0 THEN props ELSE Replaced(f[n - 1], rules[n])
    BY <1>5
  <2>2. 0 \in 0 .. m /\ \A n \in 1 .. m : n \in 0 .. m /\ n # 0
    BY <1>1
  <2> HIDE DEF Upto
  <2>3. QED
    BY <2>1, <2>2 DEF Replaces
<1>8. QED
  BY <1>6, <1>7

\* The template after each key.
Fills(g, template, keys, props) ==
    /\ g[0] = template
    /\ \A n \in 1 .. Len(keys) : g[n] = Fill(g[n - 1], keys[n], props[keys[n]].v)

\* Such templates exist, and the last is the URI.
LEMMA Filling ==
    ASSUME NEW S, NEW keys \in Seq(S), NEW template, NEW props
    PROVE  \E g : /\ Fills(g, template, keys, props)
                 /\ GenerateURI(template, keys, props) = g[Len(keys)]
<1> DEFINE m == Len(keys)
           Upto(g, l) == g = [n \in 0 .. l |-> IF n = 0 THEN template
                                               ELSE Fill(g[n - 1], keys[n], props[keys[n]].v)]
           D == {l \in 0 .. m : \E g : Upto(g, l)}
<1>1. m \in Nat
  OBVIOUS
<1>2. 0 \in D
  <2>1. \E g : Upto(g, 0)
    <3>1. Upto([n \in 0 .. 0 |-> template], 0)
      OBVIOUS
    <3> HIDE DEF Upto
    <3>2. QED
      BY <3>1
  <2> HIDE DEF Upto
  <2>2. QED
    BY <1>1, <2>1
<1>3. ASSUME NEW l \in 0 .. m - 1, l \in D PROVE l + 1 \in D
  <2>1. PICK g : Upto(g, l)
    BY <1>3
  <2>2. l \in Nat /\ l + 1 \in 0 .. m /\ l \in 0 .. l
    BY <1>1
  <2> DEFINE h == [n \in 0 .. l + 1 |-> IF n \in 0 .. l THEN g[n]
                                       ELSE Fill(g[l], keys[l + 1], props[keys[l + 1]].v)]
  <2>3. ASSUME NEW n \in 0 .. l + 1
        PROVE  h[n] = IF n = 0 THEN template ELSE Fill(h[n - 1], keys[n], props[keys[n]].v)
    <3>1. CASE n = 0
      BY <2>1, <2>2, <3>1
    <3>2. CASE n # 0 /\ n \in 0 .. l
      <4>1. n - 1 \in 0 .. l /\ n - 1 \in 0 .. l + 1
        BY <2>2, <3>2
      <4>2. h[n] = g[n] /\ h[n - 1] = g[n - 1]
        BY <3>2, <4>1
      <4>3. g[n] = Fill(g[n - 1], keys[n], props[keys[n]].v)
        BY <2>1, <3>2
      <4>4. QED
        BY <3>2, <4>2, <4>3
    <3>3. CASE n \notin 0 .. l
      <4>1. n = l + 1 /\ n - 1 = l /\ n # 0 /\ l \in 0 .. l + 1
        BY <2>2, <3>3
      <4>2. h[n] = Fill(g[l], keys[n], props[keys[n]].v) /\ h[l] = g[l]
        BY <2>2, <3>3, <4>1
      <4>3. QED
        BY <4>1, <4>2
    <3>4. QED
      BY <3>1, <3>2, <3>3
  <2>4. h = [n \in 0 .. l + 1 |-> h[n]]
    OBVIOUS
  <2> HIDE DEF h
  <2>5. Upto(h, l + 1)
    BY <2>3, <2>4
  <2>6. QED
    BY <2>2, <2>5
<1>4. m \in D
  <2> HIDE DEF D
  <2>1. QED
    BY <1>1, <1>2, <1>3, Climbed
<1> DEFINE f == CHOOSE g : Upto(g, m)
<1>5. Upto(f, m)
  <2>1. \E g : Upto(g, m)
    BY <1>4
  <2> HIDE DEF Upto
  <2>2. QED
    BY <2>1
<1>6. GenerateURI(template, keys, props) = f[m]
  BY DEF GenerateURI
<1> HIDE DEF f
<1>7. Fills(f, template, keys, props)
  <2>1. \A n \in 0 .. m : f[n] = IF n = 0 THEN template ELSE Fill(f[n - 1], keys[n], props[keys[n]].v)
    BY <1>5
  <2>2. 0 \in 0 .. m /\ \A n \in 1 .. m : n \in 0 .. m /\ n # 0
    BY <1>1
  <2> HIDE DEF Upto
  <2>3. QED
    BY <2>1, <2>2 DEF Fills
<1>8. QED
  BY <1>6, <1>7

-----------------------------------------------------------------------------
(* The mapping of the fields, in any order.                                 *)

\* The name of f in the copy, once the fields in moved have been.
NewName(mapping, moved, f) == IF f \in moved THEN mapping[f] ELSE f

\* The copy holds what the resource has, under the new names.
Renamed(p, props, mapping, moved) ==
    /\ DOMAIN p = {NewName(mapping, moved, f) : f \in DOMAIN props}
    /\ \A f \in DOMAIN props : p[NewName(mapping, moved, f)] = props[f]

\* Clean, without its names.
LEMMA CleanMeans ==
    ASSUME NEW mapping, NEW props, Clean(mapping, props)
    PROVE  /\ \A f \in DOMAIN mapping \cap DOMAIN props :
                 mapping[f] \notin DOMAIN mapping /\ mapping[f] \notin DOMAIN props
           /\ \A e, f \in DOMAIN mapping \cap DOMAIN props : mapping[e] = mapping[f] => e = f
<1> DEFINE sources == DOMAIN mapping \cap DOMAIN props
           h == [s \in sources |-> mapping[s]]
<1>1. {mapping[s] : s \in sources} \cap (DOMAIN mapping \cup DOMAIN props) = {}
  BY DEF Clean
<1>2. IsInjective(h)
  BY DEF Clean
<1>3. DOMAIN h = sources /\ \A s \in sources : h[s] = mapping[s]
  OBVIOUS
<1>4. \A e, f \in sources : h[e] = h[f] => e = f
  <2> HIDE DEF h
  <2>1. QED
    BY <1>2, <1>3 DEF IsInjective
<1>5. QED
  BY <1>1, <1>3, <1>4

\* One field more.
LEMMA RenamedOne ==
    ASSUME NEW mapping, NEW props, Clean(mapping, props), NEW moved \in SUBSET DOMAIN mapping,
           NEW src \in DOMAIN mapping \ moved, NEW p, Renamed(p, props, mapping, moved)
    PROVE  Renamed(MapOne(p, src, mapping[src]), props, mapping, moved \cup {src})
<1> DEFINE P == DOMAIN props
           M == DOMAIN mapping
           dst == mapping[src]
           old(f) == NewName(mapping, moved, f)
           new(f) == NewName(mapping, moved \cup {src}, f)
           q == MapOne(p, src, dst)
<1>1. /\ \A f \in M \cap P : mapping[f] \notin M /\ mapping[f] \notin P
      /\ \A e, f \in M \cap P : mapping[e] = mapping[f] => e = f
  BY CleanMeans
<1>2. DOMAIN p = {old(f) : f \in P} /\ \A f \in P : p[old(f)] = props[f]
  BY DEF Renamed
<1>3. \A f \in P : f # src => new(f) = old(f) /\ old(f) # src
  BY <1>1 DEF NewName
<1>4. old(src) = src /\ new(src) = dst
  BY DEF NewName
<1>5. CASE src \notin P
  <2>1. \A f \in P : new(f) = old(f) /\ old(f) # src
    BY <1>3, <1>5
  <2>2. src \notin DOMAIN p
    BY <1>2, <2>1
  <2>3. q = p
    BY <2>2 DEF MapOne
  <2>4. {new(f) : f \in P} = {old(f) : f \in P}
    <3> HIDE DEF old, new
    <3>1. QED
      BY <2>1
  <2>5. QED
    BY <1>2, <2>1, <2>3, <2>4 DEF Renamed
<1>6. CASE src \in P
  <2>1. src \in DOMAIN p /\ p[src] = props[src]
    BY <1>2, <1>4, <1>6
  <2>2. dst \notin M /\ dst \notin P /\ dst # src
    BY <1>1, <1>6
  <2>3. \A f \in P : f # src => old(f) # dst
    BY <1>1, <1>6, <2>2 DEF NewName
  <2>4. q = [f \in (DOMAIN p \cup {dst}) \ {src} |-> IF f = dst THEN p[src] ELSE p[f]]
    BY <2>1 DEF MapOne
  <2> HIDE DEF old, new, q, P, M, dst
  <2>5. DOMAIN q = {new(f) : f \in P}
    <3>1. DOMAIN q = (DOMAIN p \cup {dst}) \ {src}
      BY <2>4
    <3>2. ASSUME NEW x PROVE x \in DOMAIN q <=> x \in {new(f) : f \in P}
      <4>1. x \in DOMAIN q => x \in {new(f) : f \in P}
        BY <1>2, <1>3, <1>4, <1>6, <2>2, <3>1
      <4>2. x \in {new(f) : f \in P} => x \in DOMAIN q
        BY <1>2, <1>3, <1>4, <1>6, <2>2, <3>1
      <4>3. QED
        BY <4>1, <4>2
    <3>3. QED
      BY <3>2
  <2>6. ASSUME NEW f \in P PROVE q[new(f)] = props[f]
    <3>1. new(f) \in DOMAIN q /\ DOMAIN q = (DOMAIN p \cup {dst}) \ {src}
      BY <2>4, <2>5
    <3>2. q[new(f)] = IF new(f) = dst THEN p[src] ELSE p[new(f)]
      BY <2>4, <3>1
    <3>3. CASE f = src
      BY <1>4, <2>1, <3>2, <3>3
    <3>4. CASE f # src
      BY <1>2, <1>3, <2>3, <3>2, <3>4
    <3>5. QED
      BY <3>3, <3>4
  <2>7. QED
    BY <2>5, <2>6 DEF Renamed, new, P, q, dst
<1>7. QED
  BY <1>5, <1>6

\* An order of a finite set has each of its elements once.
LEMMA OrderOf ==
    ASSUME NEW M, IsFiniteSet(M), NEW s \in SetToSeqs(M)
    PROVE  /\ s \in Seq(M) /\ Len(s) \in Nat
           /\ \A i, j \in 1 .. Len(s) : s[i] = s[j] => i = j
           /\ {s[i] : i \in 1 .. Len(s)} = M
<1> DEFINE c == Cardinality(M)
<1>1. c \in Nat
  BY FS_CardinalityType
<1>2. s \in [1 .. c -> M] /\ \A i, j \in 1 .. c : i # j => s[i] # s[j]
  BY DEF SetToSeqs
<1> HIDE DEF c
<1>3. s \in Seq(M) /\ Len(s) = c
  BY <1>1, <1>2, Sequenced
<1>4. ASSUME NEW x \in M, \A i \in 1 .. c : s[i] # x PROVE FALSE
  <2>1. IsFiniteSet(M \ {x}) /\ Cardinality(M \ {x}) = c - 1
    BY FS_RemoveElement DEF c
  <2>2. IsFiniteSet(1 .. c) /\ Cardinality(1 .. c) = c
    <3>1. IsFiniteSet(1 .. c) /\ Cardinality(1 .. c) = IF 1 > c THEN 0 ELSE c - 1 + 1
      BY <1>1, FS_Interval
    <3>2. QED
      BY <1>1, <3>1
  <2>3. s \in [1 .. c -> M \ {x}] /\ c - 1 < c
    BY <1>1, <1>2, <1>4
  <2>4. \E i, j \in 1 .. c : i # j /\ s[i] = s[j]
    BY <2>1, <2>2, <2>3, FS_PigeonHole
  <2>5. QED
    BY <1>2, <2>4
<1>5. {s[i] : i \in 1 .. c} = M
  <2> DEFINE K == 1 .. c
  <2>1. (\A i \in K : s[i] \in M) /\ \A x \in M : \E i \in K : s[i] = x
    BY <1>2, <1>4
  <2> HIDE DEF K
  <2>2. {s[i] : i \in K} = M
    BY <2>1
  <2>3. QED
    BY <2>2 DEF K
<1>6. QED
  BY <1>1, <1>2, <1>3, <1>5

\* A clean mapping renames, whatever the order.
LEMMA MappedExactly ==
    ASSUME NEW mapping, NEW props, Clean(mapping, props), IsFiniteSet(DOMAIN mapping),
           NEW s \in SetToSeqs(DOMAIN mapping)
    PROVE  Renamed(Mapped(props, mapping, s), props, mapping, DOMAIN mapping)
<1> DEFINE m == Len(s)
           moved(n) == {s[i] : i \in 1 .. n}
<1>1. /\ s \in Seq(DOMAIN mapping) /\ m \in Nat
      /\ \A i, j \in 1 .. m : s[i] = s[j] => i = j
      /\ moved(m) = DOMAIN mapping
  BY OrderOf
<1>2. PICK g : Renames(g, props, mapping, s) /\ Mapped(props, mapping, s) = g[m]
  BY <1>1, Renaming
<1> DEFINE right(n) == Renamed(g[n], props, mapping, moved(n))
           D == {n \in 0 .. m : right(n)}
<1>3. 0 \in D
  <2>1. g[0] = props /\ moved(0) = {}
    BY <1>2 DEF Renames
  <2>2. Renamed(props, props, mapping, {})
    <3>1. \A f : NewName(mapping, {}, f) = f
      BY DEF NewName
    <3>2. QED
      BY <3>1 DEF Renamed
  <2>3. right(0) /\ 0 \in 0 .. m
    <3> DEFINE none == moved(0)
    <3>1. none = {} /\ g[0] = props
      BY <2>1
    <3> HIDE DEF none
    <3>2. Renamed(g[0], props, mapping, none)
      BY <2>2, <3>1
    <3>3. right(0)
      BY ONLY <3>2 DEF none
    <3>4. QED
      BY <1>1, <3>3
  <2> HIDE DEF right
  <2>4. QED
    BY <2>3
<1>4. ASSUME NEW n \in 0 .. m - 1, n \in D PROVE n + 1 \in D
  <2>1. n \in Nat /\ n + 1 \in 1 .. m /\ n + 1 \in 0 .. m /\ (n + 1) - 1 = n
    BY <1>1
  <2>2. g[n + 1] = MapOne(g[n], s[n + 1], mapping[s[n + 1]])
    BY <1>2, <2>1 DEF Renames
  <2>3. \A i \in 1 .. n : i \in 1 .. m /\ i # n + 1
    BY <1>1, <2>1
  <2>4. moved(n) \in SUBSET DOMAIN mapping /\ s[n + 1] \in DOMAIN mapping \ moved(n)
    BY <1>1, <2>1, <2>3
  <2>5. moved(n + 1) = moved(n) \cup {s[n + 1]}
    <3> DEFINE K == 1 .. n
               L == 1 .. n + 1
    <3>1. L = K \cup {n + 1}
      BY <2>1
    <3> HIDE DEF K, L
    <3>2. {s[i] : i \in L} = {s[i] : i \in K} \cup {s[n + 1]}
      BY <3>1
    <3>3. QED
      BY <3>2 DEF K, L
  <2>6. Renamed(g[n], props, mapping, moved(n))
    BY <1>4
  <2> HIDE DEF moved
  <2>7. Renamed(MapOne(g[n], s[n + 1], mapping[s[n + 1]]), props, mapping, moved(n) \cup {s[n + 1]})
    BY <2>4, <2>6, RenamedOne
  <2>8. QED
    BY <2>1, <2>2, <2>5, <2>7
<1>5. m \in D
  <2> HIDE DEF D
  <2>1. QED
    BY <1>1, <1>3, <1>4, Climbed
<1>6. QED
  BY <1>1, <1>2, <1>5

-----------------------------------------------------------------------------
(* The rules, on each property by itself.                                   *)

\* A value with a text.
Textual(val) == DOMAIN val = {"t", "v"} /\ val.v \in Seq(ToSet(val.v))

\* A rule looks at one property only.
LEMMA ReplacedOne ==
    ASSUME NEW p, NEW rule
    PROVE  /\ DOMAIN Replaced(p, rule) = DOMAIN p
           /\ \A q : \A x \in DOMAIN p \cap DOMAIN q :
                 p[x] = q[x] => Replaced(p, rule)[x] = Replaced(q, rule)[x]
           /\ \A x \in DOMAIN p : Textual(p[x]) => Textual(Replaced(p, rule)[x])
<1> DEFINE y == rule.field
           text(val) == [val EXCEPT !.v = ReplaceAll(@, rule.pattern, rule.replace)]
           applies(r) == y \in DOMAIN r /\ r[y].t = "string"
<1>1. \A r : Replaced(r, rule) = IF applies(r) THEN [r EXCEPT ![y] = text(r[y])] ELSE r
  BY DEF Replaced
<1>2. ASSUME NEW val, Textual(val) PROVE Textual(text(val))
  <2> DEFINE new == ReplaceAll(val.v, rule.pattern, rule.replace)
  <2>1. val.v \in Seq(ToSet(val.v)) /\ Len(val.v) \in Nat /\ DOMAIN val = {"t", "v"}
    BY <1>2 DEF Textual
  <2>2. new = [i \in 1 .. Len(val.v) |->
                  IF val.v[i] = rule.pattern THEN rule.replace ELSE val.v[i]]
    BY DEF ReplaceAll
  <2>3. new \in Seq(ToSet(new))
    <3> HIDE DEF new
    <3>1. DOMAIN new = 1 .. Len(val.v)
      BY <2>2
    <3>2. new \in [1 .. Len(val.v) -> ToSet(new)]
      BY <2>2, <3>1 DEF ToSet
    <3>3. QED
      BY <2>1, <3>2, Sequenced
  <2> HIDE DEF new
  <2>4. text(val).v = new /\ DOMAIN text(val) = {"t", "v"}
    BY <2>1 DEF new
  <2> HIDE DEF text
  <2>5. QED
    BY <2>3, <2>4 DEF Textual
<1> HIDE DEF text, y
<1>3. DOMAIN Replaced(p, rule) = DOMAIN p
  BY <1>1
<1>4. ASSUME NEW r, NEW x \in DOMAIN r
      PROVE  Replaced(r, rule)[x] = IF x = y /\ r[x].t = "string" THEN text(r[x]) ELSE r[x]
  <2>1. CASE applies(r)
    <3>1. Replaced(r, rule) = [r EXCEPT ![y] = text(r[y])]
      BY <1>1, <2>1
    <3>2. QED
      BY <2>1, <3>1
  <2>2. CASE ~applies(r)
    <3>1. Replaced(r, rule) = r
      BY <1>1, <2>2
    <3>2. QED
      BY <2>2, <3>1
  <2>3. QED
    BY <2>1, <2>2
<1>5. \A q : \A x \in DOMAIN p \cap DOMAIN q :
          p[x] = q[x] => Replaced(p, rule)[x] = Replaced(q, rule)[x]
  BY <1>4
<1>6. \A x \in DOMAIN p : Textual(p[x]) => Textual(Replaced(p, rule)[x])
  BY <1>2, <1>4
<1>7. QED
  BY <1>3, <1>5, <1>6

\* What the rules make of a property does not depend on the others.
LEMMA StandardizedAt ==
    ASSUME NEW S, NEW rules \in Seq(S), NEW p, NEW q, NEW x \in DOMAIN p \cap DOMAIN q,
           p[x] = q[x]
    PROVE  Standardized(p, rules)[x] = Standardized(q, rules)[x]
<1> DEFINE m == Len(rules)
<1>1. PICK g : Replaces(g, p, rules) /\ Standardized(p, rules) = g[m]
  BY Replacing
<1>2. PICK h : Replaces(h, q, rules) /\ Standardized(q, rules) = h[m]
  BY Replacing
<1> DEFINE right(n) == x \in DOMAIN g[n] \cap DOMAIN h[n] /\ g[n][x] = h[n][x]
           D == {n \in 0 .. m : right(n)}
<1>3. m \in Nat
  OBVIOUS
<1>4. 0 \in D
  BY <1>1, <1>2, <1>3 DEF Replaces
<1>5. ASSUME NEW n \in 0 .. m - 1, n \in D PROVE n + 1 \in D
  <2>1. n + 1 \in 1 .. m /\ n + 1 \in 0 .. m /\ (n + 1) - 1 = n
    BY <1>3
  <2>2. g[n + 1] = Replaced(g[n], rules[n + 1]) /\ h[n + 1] = Replaced(h[n], rules[n + 1])
    BY <1>1, <1>2, <2>1 DEF Replaces
  <2>3. x \in DOMAIN g[n] \cap DOMAIN h[n] /\ g[n][x] = h[n][x]
    BY <1>5
  <2>4. right(n + 1)
    BY <2>2, <2>3, ReplacedOne
  <2> HIDE DEF right
  <2>5. QED
    BY <2>1, <2>4
<1>6. m \in D
  <2> HIDE DEF D
  <2>1. QED
    BY <1>3, <1>4, <1>5, Climbed
<1>7. QED
  BY <1>1, <1>2, <1>6

\* The rules leave the properties' names alone, and texts remain texts.
LEMMA StandardizedKeeps ==
    ASSUME NEW S, NEW rules \in Seq(S), NEW p
    PROVE  /\ DOMAIN Standardized(p, rules) = DOMAIN p
           /\ \A x \in DOMAIN p : Textual(p[x]) => Textual(Standardized(p, rules)[x])
<1> DEFINE m == Len(rules)
<1>1. PICK g : Replaces(g, p, rules) /\ Standardized(p, rules) = g[m]
  BY Replacing
<1> DEFINE right(n) == /\ DOMAIN g[n] = DOMAIN p
                       /\ \A x \in DOMAIN p : Textual(p[x]) => Textual(g[n][x])
           D == {n \in 0 .. m : right(n)}
<1>2. m \in Nat
  OBVIOUS
<1>3. 0 \in D
  BY <1>1, <1>2 DEF Replaces
<1>4. ASSUME NEW n \in 0 .. m - 1, n \in D PROVE n + 1 \in D
  <2>1. n + 1 \in 1 .. m /\ n + 1 \in 0 .. m /\ (n + 1) - 1 = n
    BY <1>2
  <2>2. g[n + 1] = Replaced(g[n], rules[n + 1])
    BY <1>1, <2>1 DEF Replaces
  <2>3. right(n)
    BY <1>4
  <2>4. right(n + 1)
    BY <2>2, <2>3, ReplacedOne
  <2> HIDE DEF right
  <2>5. QED
    BY <2>1, <2>4
<1>5. m \in D
  <2> HIDE DEF D
  <2>1. QED
    BY <1>2, <1>3, <1>4, Climbed
<1>6. QED
  BY <1>1, <1>5

-----------------------------------------------------------------------------
(* What arrives of a resource.                                              *)

\* What the documents say of keys, templates, mappings and defaults.
LEMMA Documents ==
    ASSUME docs \in Directories, NEW t \in Names
    PROVE  /\ Declared(t).keys \in Seq(ToSet(Declared(t).keys))
           /\ Declared(t).template \in Seq(ToSet(Declared(t).template))
           /\ IsFiniteSet(DOMAIN Declared(t).mapping)
           /\ \A f \in DOMAIN Declared(t).props :
                 Declared(t).props[f].default.v \in Seq(ToSet(Declared(t).props[f].default.v))
<1>1. /\ Declared(t) = docs[Registered("entity")[t]]
      /\ Registered("entity")[t] \in Of("entity")
  BY Declarations
<1>2. Declared(t).kind = "entity" /\ Declared(t) \in ToSet(docs)
  BY <1>1 DEF Of, ToSet
<1>3. QED
  BY <1>2, DirectoriesAssumption

\* A type maps finitely many fields, whatever it has taken over.
LEMMA MappingsFinite ==
    ASSUME docs \in Directories, ~Cyclic, TakenOver, Pending = {}, NEW t \in Names
    PROVE  IsFiniteSet(DOMAIN types[t].mapping)
<1> DEFINE line == Line(t)
           m == Len(line)
           of(i) == DOMAIN Declared(line[i]).mapping
           upto(n) == UNION {of(i) : i \in 1 .. n}
           D == {n \in 0 .. m : IsFiniteSet(upto(n))}
<1>1. line \in Seq(Names)
  BY Lines
<1>2. m \in Nat /\ DOMAIN line = 1 .. m /\ \A i \in 1 .. m : line[i] \in Names
  <2> HIDE DEF line
  <2>1. QED
    BY <1>1
<1>3. Inherits(t, "mapping")
  BY DefinitionsTaken DEF DefinitionsInherited, Inheritable
<1>4. DOMAIN types[t].mapping = upto(m)
  BY <1>2, <1>3 DEF Inherits
<1>5. \A i \in 1 .. m : IsFiniteSet(of(i))
  BY <1>2, Documents
<1> HIDE DEF line, of, m
<1>6. 0 \in D
  <2>1. upto(0) = {}
    OBVIOUS
  <2>2. IsFiniteSet({})
    BY FS_EmptySet
  <2>3. IsFiniteSet(upto(0))
    BY <2>1, <2>2
  <2> HIDE DEF upto
  <2>4. QED
    BY <1>2, <2>3
<1>7. ASSUME NEW n \in 0 .. m - 1, n \in D PROVE n + 1 \in D
  <2>1. n + 1 \in 1 .. m /\ n + 1 \in 0 .. m
    BY <1>2
  <2>2. upto(n + 1) = upto(n) \cup of(n + 1)
    <3> DEFINE K == 1 .. n
               L == 1 .. n + 1
    <3>1. L = K \cup {n + 1}
      BY <1>2
    <3> HIDE DEF K, L
    <3>2. UNION {of(i) : i \in L} = (UNION {of(i) : i \in K}) \cup of(n + 1)
      BY <3>1
    <3>3. QED
      BY <3>2 DEF K, L
  <2> HIDE DEF upto
  <2>3. IsFiniteSet(upto(n)) /\ IsFiniteSet(of(n + 1))
    BY <1>5, <1>7, <2>1
  <2>4. IsFiniteSet(upto(n) \cup of(n + 1))
    BY <2>3, FS_Union
  <2>5. QED
    BY <2>1, <2>2, <2>4
<1>8. m \in D
  <2> HIDE DEF D
  <2>1. QED
    BY <1>2, <1>6, <1>7, Climbed
<1>9. QED
  BY <1>4, <1>8

\* A type's rules are a sequence.
LEMMA RulesSequence ==
    ASSUME Slices, NEW t \in Names
    PROVE  RulesOf(t) \in Seq(Cells)
<1> DEFINE s == types[t].rules
           array == heap[s.arr]
<1>1. s.arr \in 1 .. Len(heap) /\ s.len \in 0 .. Len(array) /\ heap \in Seq(Seq(Cells))
  BY DEF Slices
<1>2. array \in Seq(Cells)
  BY <1>1
<1> HIDE DEF s, array
<1>3. s.len \in Nat /\ \A i \in 1 .. s.len : array[i] \in Cells
  BY <1>1, <1>2
<1>4. SubSeq(array, 1, s.len) \in Seq(Cells)
  BY <1>1, <1>2, <1>3, SubSeqProperties
<1>5. <<>> \in Seq(Cells)
  OBVIOUS
<1>6. RulesOf(t) = IF s.len = 0 THEN <<>> ELSE SubSeq(array, 1, s.len)
  BY DEF RulesOf, Rules, s, array
<1>7. QED
  BY <1>4, <1>5, <1>6

\* A clean mapping brings every field under its new name, and nothing else but
\* defaults arrives.
LEMMA MappingReady ==
    ASSUME LoaderInv, GraphInv
    PROVE  MappingExact
<1> SUFFICES ASSUME NEW a \in Accepted, Clean(types[a.kind].mapping, a.raw.props)
             PROVE  LET m == types[a.kind].mapping
                        raw == a.raw.props
                        New(f) == IF f \in DOMAIN m THEN m[f] ELSE f
                        Expected(f) ==
                            Standardized([x \in {New(f)} |-> raw[f]], RulesOf(a.kind))[New(f)]
                    IN /\ \A f \in DOMAIN raw : New(f) \in DOMAIN a.props
                                                /\ a.props[New(f)] = Expected(f)
                       /\ \A f \in DOMAIN a.props \ {New(g) : g \in DOMAIN raw} :
                             /\ f \in DOMAIN types[a.kind].props
                             /\ a.props[f] = types[a.kind].props[f].default
  BY DEF MappingExact
<1> DEFINE et == types[a.kind]
           m == et.mapping
           raw == a.raw.props
           rules == RulesOf(a.kind)
           New(f) == IF f \in DOMAIN m THEN m[f] ELSE f
<1>1. /\ docs \in Directories /\ ~Cyclic /\ TakenOver /\ Pending = {} /\ Slices
      /\ Normal(a) /\ a.kind \in Names
  BY AcceptedNormal
<1>2. PICK s \in SetToSeqs(DOMAIN m) : a.props = Made(a.raw, s)
  BY <1>1 DEF Normal
<1> DEFINE moved == Mapped(raw, m, s)
           props == Standardized(moved, rules)
<1>3. a.props = applyDefaults(et.props, props)
  BY <1>1, <1>2 DEF Made, Normal
<1>4. IsFiniteSet(DOMAIN m) /\ rules \in Seq(Cells)
  BY <1>1, MappingsFinite, RulesSequence
<1>5. Renamed(moved, raw, m, DOMAIN m)
  BY <1>2, <1>4, MappedExactly
<1>6. DOMAIN moved = {New(f) : f \in DOMAIN raw} /\ \A f \in DOMAIN raw : moved[New(f)] = raw[f]
  BY <1>5 DEF Renamed, NewName
<1> HIDE DEF moved, rules
<1>7. DOMAIN props = DOMAIN moved
  BY <1>4, StandardizedKeeps
<1>8. ASSUME NEW f \in DOMAIN raw
      PROVE  New(f) \in DOMAIN props /\ props[New(f)] = Standardized([x \in {New(f)} |-> raw[f]], rules)[New(f)]
  <2> DEFINE q == [x \in {New(f)} |-> raw[f]]
             y == New(f)
  <2>1. y \in DOMAIN q /\ q[y] = raw[f]
    OBVIOUS
  <2>2. y \in DOMAIN moved /\ moved[y] = raw[f]
    BY <1>6
  <2> HIDE DEF q, y, New
  <2>3. Standardized(moved, rules)[y] = Standardized(q, rules)[y]
    BY <1>4, <2>1, <2>2, StandardizedAt
  <2>4. QED
    BY <1>7, <2>2, <2>3 DEF q, y
<1> HIDE DEF New, props
<1>9. /\ \A f \in DOMAIN props : f \in DOMAIN a.props /\ a.props[f] = props[f]
      /\ \A f \in DOMAIN a.props \ DOMAIN props :
            f \in DOMAIN et.props /\ a.props[f] = et.props[f].default
  BY <1>3 DEF applyDefaults
<1>10. \A f \in DOMAIN raw : /\ New(f) \in DOMAIN a.props
                             /\ a.props[New(f)] = Standardized([x \in {New(f)} |-> raw[f]], rules)[New(f)]
  BY <1>8, <1>9
<1>11. \A f \in DOMAIN a.props \ {New(g) : g \in DOMAIN raw} :
          f \in DOMAIN et.props /\ a.props[f] = et.props[f].default
  BY <1>6, <1>7, <1>9
<1>12. QED
  BY <1>10, <1>11 DEF New, rules

\* The mapping (normalizer.go): if no field is both source and target, no two
\* have one target and none is there already, the order in which Go visits the
\* mapping does not matter; every field arrives under its new name, changed by
\* nothing but the rules for that name, and all else are defaults.
THEOREM MappingIsExact == Spec => []MappingExact
<1>1. LoaderInv /\ GraphInv => MappingExact
  BY MappingReady
<1>2. QED
  BY <1>1, PipelineAlways, PTL

-----------------------------------------------------------------------------
(* URIs: two texts filled into one template.                                *)

Blank(k) == [hole |-> TRUE, s |-> k]

\* Two sequences of parts of one length, with the same holes.
Aligned(A, B) ==
    /\ Len(A) = Len(B)
    /\ \A i \in 1 .. Len(A) : \A k : A[i] = Blank(k) <=> B[i] = Blank(k)

\* The elements of a sequence.
LEMMA Elements ==
    ASSUME NEW S, NEW s \in Seq(S)
    PROVE  \A i \in 1 .. Len(s) : s[i] \in S
OBVIOUS

\* What is known of two sequences put together from halves.
Halved(A, B, C, E) ==
    /\ Aligned(A \o C, B \o E)
    /\ A \o C = B \o E => A = B /\ C = E
    /\ ToSet(A \o C) = ToSet(A) \cup ToSet(C)

\* Aligned halves are aligned, and equal ones have equal halves.
LEMMA AlignedJoins ==
    ASSUME NEW S, NEW A \in Seq(S), NEW B \in Seq(S), NEW C \in Seq(S), NEW E \in Seq(S),
           Aligned(A, B), Aligned(C, E)
    PROVE  Halved(A, B, C, E)
<1> DEFINE n == Len(A)
           m == Len(C)
<1>1. /\ A \o C \in Seq(S) /\ Len(A \o C) = n + m
      /\ \A i \in 1 .. n : (A \o C)[i] = A[i]
      /\ \A i \in 1 .. m : (A \o C)[n + i] = C[i]
  BY Joined
<1>2. n = Len(B) /\ m = Len(E) /\ n \in Nat /\ m \in Nat
  BY DEF Aligned
<1>3. /\ B \o E \in Seq(S) /\ Len(B \o E) = n + m
      /\ \A i \in 1 .. n : (B \o E)[i] = B[i]
      /\ \A i \in 1 .. m : (B \o E)[n + i] = E[i]
  <2>1. /\ B \o E \in Seq(S) /\ Len(B \o E) = Len(B) + Len(E)
        /\ \A i \in 1 .. Len(B) : (B \o E)[i] = B[i]
        /\ \A i \in 1 .. Len(E) : (B \o E)[Len(B) + i] = E[i]
    BY Joined
  <2>2. QED
    BY <1>2, <2>1
<1> DEFINE X == A \o C
           Y == B \o E
<1>4. \A i \in 1 .. n + m : i \in 1 .. n \/ (i - n \in 1 .. m /\ n + (i - n) = i)
  BY <1>2
<1> HIDE DEF X, Y
<1>5. Aligned(X, Y)
  <2> SUFFICES ASSUME NEW i \in 1 .. n + m, NEW k PROVE X[i] = Blank(k) <=> Y[i] = Blank(k)
    BY <1>1, <1>3 DEF Aligned, X, Y
  <2>1. CASE i \in 1 .. n
    <3>1. X[i] = A[i] /\ Y[i] = B[i]
      BY <1>1, <1>3, <2>1 DEF X, Y
    <3>2. QED
      BY <2>1, <3>1 DEF Aligned
  <2>2. CASE i - n \in 1 .. m /\ n + (i - n) = i
    <3>1. X[i] = C[i - n] /\ Y[i] = E[i - n]
      BY <1>1, <1>3, <2>2 DEF X, Y
    <3>2. QED
      BY <2>2, <3>1 DEF Aligned
  <2>3. QED
    BY <1>4, <2>1, <2>2
<1>6. ASSUME X = Y PROVE A = B /\ C = E
  <2>1. \A i \in 1 .. n : A[i] = B[i]
    BY <1>1, <1>3, <1>6 DEF X, Y
  <2>2. \A i \in 1 .. m : C[i] = E[i]
    BY <1>1, <1>3, <1>6 DEF X, Y
  <2>3. QED
    BY <1>2, <2>1, <2>2, SameSequence
<1>7. ToSet(X) = ToSet(A) \cup ToSet(C)
  <2>1. DOMAIN X = 1 .. n + m /\ DOMAIN A = 1 .. n /\ DOMAIN C = 1 .. m
    BY <1>1, <1>2 DEF X
  <2>2. \A i \in 1 .. n : i \in 1 .. n + m /\ X[i] = A[i]
    BY <1>1, <1>2 DEF X
  <2>3. \A i \in 1 .. m : n + i \in 1 .. n + m /\ X[n + i] = C[i]
    BY <1>1, <1>2 DEF X
  <2>4. ASSUME NEW x \in ToSet(X) PROVE x \in ToSet(A) \cup ToSet(C)
    <3>1. PICK i \in 1 .. n + m : X[i] = x
      BY <2>1 DEF ToSet
    <3>2. CASE i \in 1 .. n
      BY <2>1, <2>2, <3>1, <3>2 DEF ToSet
    <3>3. CASE i - n \in 1 .. m /\ n + (i - n) = i
      <4>1. X[i] = C[i - n]
        BY <2>3, <3>3
      <4>2. QED
        BY <2>1, <3>1, <3>3, <4>1 DEF ToSet
    <3>4. QED
      BY <1>4, <3>2, <3>3
  <2>5. \A x : x \in ToSet(A) \cup ToSet(C) => x \in ToSet(X)
    <3> HIDE DEF n, m
    <3>1. QED
      BY <2>1, <2>2, <2>3 DEF ToSet
  <2>6. QED
    BY <2>4, <2>5
<1>8. QED
  BY <1>5, <1>6, <1>7 DEF Halved, X, Y

\* Aligned sequences, and their concatenations.
AlignedAll(S, as, bs) ==
    /\ as \in Seq(Seq(S)) /\ bs \in Seq(Seq(S))
    /\ Len(as) = Len(bs) /\ Len(as) # 0
    /\ \A i \in 1 .. Len(as) : Aligned(as[i], bs[i])

Flat(S, as, bs) ==
    /\ FlattenSeq(as) \in Seq(S) /\ FlattenSeq(bs) \in Seq(S)
    /\ Aligned(FlattenSeq(as), FlattenSeq(bs))
    /\ FlattenSeq(as) = FlattenSeq(bs) => \A i \in 1 .. Len(as) : as[i] = bs[i]
    /\ \A i \in 1 .. Len(as) : ToSet(as[i]) \subseteq ToSet(FlattenSeq(as))

\* The same of many.
LEMMA AlignedFlattens ==
    ASSUME NEW S, NEW as, NEW bs, AlignedAll(S, as, bs)
    PROVE  Flat(S, as, bs)
<1> /\ as \in Seq(Seq(S)) /\ bs \in Seq(Seq(S))
    /\ Len(as) = Len(bs) /\ Len(as) # 0
    /\ \A i \in 1 .. Len(as) : Aligned(as[i], bs[i])
  BY DEF AlignedAll
<1> DEFINE m == Len(as)
<1>1. m \in Nat \ {0} /\ m - 1 \in Nat /\ (m - 1) + 1 = m /\ 1 \in 1 .. m
  OBVIOUS
<1>2. \A i \in 1 .. m : as[i] \in Seq(S) /\ bs[i] \in Seq(S)
  BY Elements
<1>3. PICK f : Flattens(f, as, S)
  BY <1>1, Flattened
<1>4. PICK g : Flattens(g, bs, S)
  BY <1>1, Flattened
<1>5. /\ f \in [1 .. m -> Seq(S)] /\ f[1] = as[1] /\ FlattenSeq(as) = f[m]
      /\ \A i \in 2 .. m : f[i] = f[i - 1] \o as[i]
  BY <1>3 DEF Flattens
<1>6. /\ g \in [1 .. m -> Seq(S)] /\ g[1] = bs[1] /\ FlattenSeq(bs) = g[m]
      /\ \A i \in 2 .. m : g[i] = g[i - 1] \o bs[i]
  BY <1>4 DEF Flattens
<1> DEFINE right(n) == /\ Aligned(f[n], g[n])
                       /\ f[n] = g[n] => \A i \in 1 .. n : as[i] = bs[i]
                       /\ \A i \in 1 .. n : ToSet(as[i]) \subseteq ToSet(f[n])
           D == {n \in 0 .. m - 1 : right(n + 1)}
<1> HIDE DEF m
<1>7. 0 \in D
  <2>1. \A i \in 1 .. 0 + 1 : i = 1
    OBVIOUS
  <2>2. right(0 + 1)
    <3>1. f[1] = as[1] /\ g[1] = bs[1] /\ Aligned(as[1], bs[1])
      BY <1>1, <1>5, <1>6 DEF m
    <3>2. 0 + 1 = 1
      OBVIOUS
    <3>3. right(1)
      BY <2>1, <3>1, <3>2
    <3> HIDE DEF right
    <3>4. QED
      BY <3>2, <3>3
  <2> HIDE DEF right
  <2>3. QED
    BY <1>1, <2>2
<1>8. ASSUME NEW n \in 0 .. (m - 1) - 1, n \in D PROVE n + 1 \in D
  <2> DEFINE k == n + 1
  <2>1. /\ k \in 1 .. m /\ k + 1 \in 1 .. m /\ k + 1 \in 2 .. m /\ (k + 1) - 1 = k
        /\ k \in 0 .. m - 1
    BY <1>1
  <2>2. \A i \in 1 .. k + 1 : i \in 1 .. k \/ i = k + 1
    BY <1>1
  <2>3. right(k)
    BY <1>8
  <2> HIDE DEF k
  <2>4. /\ f[k] \in Seq(S) /\ g[k] \in Seq(S) /\ as[k + 1] \in Seq(S) /\ bs[k + 1] \in Seq(S)
        /\ Aligned(f[k], g[k]) /\ Aligned(as[k + 1], bs[k + 1])
    BY <1>2, <1>5, <1>6, <2>1, <2>3 DEF m
  <2>5. f[k + 1] = f[k] \o as[k + 1] /\ g[k + 1] = g[k] \o bs[k + 1]
    BY <1>5, <1>6, <2>1
  <2>6. /\ Aligned(f[k] \o as[k + 1], g[k] \o bs[k + 1])
        /\ f[k] \o as[k + 1] = g[k] \o bs[k + 1] => f[k] = g[k] /\ as[k + 1] = bs[k + 1]
        /\ ToSet(f[k] \o as[k + 1]) = ToSet(f[k]) \cup ToSet(as[k + 1])
    <3> DEFINE A == f[k]
               B == g[k]
               C == as[k + 1]
               E == bs[k + 1]
    <3>1. /\ A \in Seq(S) /\ B \in Seq(S) /\ C \in Seq(S) /\ E \in Seq(S)
          /\ Aligned(A, B) /\ Aligned(C, E)
      BY <2>4
    <3> HIDE DEF A, B, C, E
    <3>2. Halved(A, B, C, E)
      BY ONLY <3>1, AlignedJoins, Zenon
    <3>3. QED
      BY <3>2 DEF Halved, A, B, C, E
  <2>7. right(k + 1)
    <3>1. f[k + 1] = g[k + 1] => \A i \in 1 .. k + 1 : as[i] = bs[i]
      BY <2>2, <2>3, <2>5, <2>6
    <3>2. \A i \in 1 .. k + 1 : ToSet(as[i]) \subseteq ToSet(f[k + 1])
      BY <2>2, <2>3, <2>5, <2>6
    <3>3. QED
      BY <2>5, <2>6, <3>1, <3>2
  <2> HIDE DEF right
  <2>8. QED
    BY <2>1, <2>7 DEF k
<1>9. m - 1 \in D
  <2> HIDE DEF D
  <2>1. QED
    BY <1>1, <1>7, <1>8, Climbed
<1>10. right(m)
  BY <1>1, <1>9
<1>11. m \in 1 .. m
  BY <1>1
<1>12. QED
  BY <1>5, <1>6, <1>10, <1>11 DEF m, Flat

Token(x) == [hole |-> FALSE, s |-> x]

\* What stands for each part of a template, with one key filled in.
Pieces(parts, key, text) ==
    [i \in DOMAIN parts |-> IF parts[i] = Blank(key) THEN [j \in DOMAIN text |-> Token(text[j])]
                            ELSE <<parts[i]>>]

Piecewise(V, A, key, text, p) ==
    /\ p \in Seq(Seq(V)) /\ Len(p) = Len(A)
    /\ Fill(A, key, text) = FlattenSeq(p)
    /\ \A i \in 1 .. Len(A) :
          IF A[i] = Blank(key)
          THEN /\ Len(p[i]) = Len(text)
               /\ \A j \in 1 .. Len(text) : p[i][j] = Token(text[j])
          ELSE p[i] = <<A[i]>>

\* They are sequences.
LEMMA PiecesType ==
    ASSUME NEW U, NEW T, NEW A \in Seq(U), NEW key, NEW text \in Seq(T)
    PROVE  Piecewise(U \cup {Token(x) : x \in T}, A, key, text, Pieces(A, key, text))
<1> DEFINE V == U \cup {Token(x) : x \in T}
           Q == Seq(V)
           filled == [j \in DOMAIN text |-> Token(text[j])]
           p == Pieces(A, key, text)
<1>1. Len(A) \in Nat /\ DOMAIN A = 1 .. Len(A) /\ \A i \in 1 .. Len(A) : A[i] \in U
  BY Elements
<1>2. filled \in Q /\ Len(filled) = Len(text) /\ \A j \in 1 .. Len(text) : filled[j] = Token(text[j])
  <2>1. DOMAIN text = 1 .. Len(text) /\ Len(text) \in Nat /\ \A j \in 1 .. Len(text) : text[j] \in T
    BY Elements
  <2>2. filled \in [1 .. Len(text) -> V]
    BY <2>1
  <2>3. \A j \in 1 .. Len(text) : filled[j] = Token(text[j])
    BY <2>1
  <2> HIDE DEF filled, V
  <2>4. filled \in Seq(V) /\ Len(filled) = Len(text)
    BY <2>1, <2>2, Sequenced
  <2>5. QED
    BY <2>3, <2>4
<1>3. \A i \in 1 .. Len(A) : <<A[i]>> \in Q
  <2> SUFFICES ASSUME NEW i \in 1 .. Len(A) PROVE <<A[i]>> \in Seq(V)
    OBVIOUS
  <2>1. A[i] \in V
    BY <1>1
  <2> HIDE DEF V
  <2>2. QED
    BY <2>1
<1>4. p = [i \in 1 .. Len(A) |-> IF A[i] = Blank(key) THEN filled ELSE <<A[i]>>]
  BY <1>1 DEF Pieces
<1>5. p \in Seq(Q) /\ Len(p) = Len(A)
  <2> HIDE DEF p, Q, filled
  <2>1. p \in [1 .. Len(A) -> Q]
    BY <1>2, <1>3, <1>4
  <2>2. QED
    BY <1>1, <2>1, Sequenced
<1>6. Fill(A, key, text) = FlattenSeq(p)
  BY DEF Fill, Pieces, Blank, Token
<1> HIDE DEF p, filled
<1>7. \A i \in 1 .. Len(A) : p[i] = IF A[i] = Blank(key) THEN filled ELSE <<A[i]>>
  BY <1>4
<1>8. Piecewise(V, A, key, text, p)
  BY <1>2, <1>5, <1>6, <1>7 DEF Piecewise
<1>9. QED
  BY <1>8 DEF p

\* Two templates, and what a key makes of them.
Met(V, A, B, key, ta, tb, FA, FB) ==
    /\ FA \in Seq(V) /\ FB \in Seq(V) /\ Aligned(FA, FB)
    /\ FA = FB => A = B /\ (Blank(key) \in ToSet(A) => ta = tb)
    /\ \A l : l # key /\ Blank(l) \in ToSet(A) => Blank(l) \in ToSet(FA)

\* With texts of one length, a key makes aligned templates of aligned ones, and
\* the same only of the same.
LEMMA FillsMeet ==
    ASSUME NEW U, NEW T, NEW A \in Seq(U), NEW B \in Seq(U), Aligned(A, B),
           NEW key, NEW ta \in Seq(T), NEW tb \in Seq(T), Len(ta) = Len(tb)
    PROVE  Met(U \cup {Token(x) : x \in T}, A, B, key, ta, tb, Fill(A, key, ta), Fill(B, key, tb))
<1> DEFINE V == U \cup {Token(x) : x \in T}
           n == Len(A)
           as == Pieces(A, key, ta)
           bs == Pieces(B, key, tb)
<1>1. n = Len(B) /\ n \in Nat /\ DOMAIN A = 1 .. n /\ DOMAIN B = 1 .. n
      /\ \A i \in 1 .. n : \A k : A[i] = Blank(k) <=> B[i] = Blank(k)
  BY DEF Aligned
<1>a. Piecewise(V, A, key, ta, as) /\ Piecewise(V, B, key, tb, bs)
  <2>1. Piecewise(V, A, key, ta, as)
    BY ONLY A \in Seq(U), ta \in Seq(T), PiecesType, Zenon
  <2>2. Piecewise(V, B, key, tb, bs)
    BY ONLY B \in Seq(U), tb \in Seq(T), PiecesType, Zenon
  <2>3. QED
    BY <2>1, <2>2
<1> HIDE DEF V, as, bs
<1>2. /\ as \in Seq(Seq(V)) /\ Len(as) = n /\ Fill(A, key, ta) = FlattenSeq(as)
      /\ \A i \in 1 .. n :
            IF A[i] = Blank(key)
            THEN Len(as[i]) = Len(ta) /\ \A j \in 1 .. Len(ta) : as[i][j] = Token(ta[j])
            ELSE as[i] = <<A[i]>>
  BY <1>a DEF Piecewise
<1>3. /\ bs \in Seq(Seq(V)) /\ Len(bs) = n /\ Fill(B, key, tb) = FlattenSeq(bs)
      /\ \A i \in 1 .. n :
            IF B[i] = Blank(key)
            THEN Len(bs[i]) = Len(tb) /\ \A j \in 1 .. Len(tb) : bs[i][j] = Token(tb[j])
            ELSE bs[i] = <<B[i]>>
  BY <1>a, <1>1 DEF Piecewise
<1>4. ASSUME NEW i \in 1 .. n PROVE Aligned(as[i], bs[i])
  <2>1. CASE A[i] = Blank(key)
    <3>1. \A x, k : Token(x) # Blank(k)
      BY DEF Token, Blank
    <3>2. B[i] = Blank(key)
      BY <1>1, <2>1
    <3>3. /\ Len(as[i]) = Len(ta) /\ \A j \in 1 .. Len(ta) : as[i][j] = Token(ta[j])
          /\ Len(bs[i]) = Len(tb) /\ \A j \in 1 .. Len(tb) : bs[i][j] = Token(tb[j])
      BY <1>2, <1>3, <2>1, <3>2
    <3> DEFINE x == as[i]
               y == bs[i]
    <3>4. Len(x) = Len(ta) /\ Len(y) = Len(ta)
          /\ \A j \in 1 .. Len(ta) : x[j] = Token(ta[j]) /\ y[j] = Token(tb[j])
      BY <3>3
    <3> HIDE DEF x, y
    <3>5. Aligned(x, y)
      BY ONLY <3>1, <3>4 DEF Aligned
    <3>6. QED
      BY <3>5 DEF x, y
  <2>2. CASE A[i] # Blank(key)
    <3>1. as[i] = <<A[i]>> /\ bs[i] = <<B[i]>>
      BY <1>1, <1>2, <1>3, <2>2
    <3>2. Len(<<A[i]>>) = 1 /\ Len(<<B[i]>>) = 1 /\ <<A[i]>>[1] = A[i] /\ <<B[i]>>[1] = B[i]
      OBVIOUS
    <3>3. \A j \in 1 .. 1 : j = 1
      OBVIOUS
    <3>4. Aligned(<<A[i]>>, <<B[i]>>)
      BY <1>1, <3>2, <3>3 DEF Aligned
    <3>5. QED
      BY <3>1, <3>4
  <2>3. QED
    BY <2>1, <2>2
<1>5. CASE n = 0
  <2>1. as = <<>> /\ bs = <<>> /\ A = <<>> /\ B = <<>>
    BY <1>1, <1>2, <1>3, <1>5
  <2>2. Len(as) = 0 /\ Len(bs) = 0
    BY <1>2, <1>3, <1>5
  <2>3. FlattenSeq(as) = as /\ FlattenSeq(bs) = bs
    BY <2>2 DEF FlattenSeq
  <2>4. Aligned(<<>>, <<>>) /\ ToSet(<<>>) = {} /\ <<>> \in Seq(V)
    BY DEF Aligned, ToSet
  <2>5. QED
    BY <1>2, <1>3, <2>1, <2>3, <2>4 DEF Met, V
<1>6. CASE n # 0
  <2>1. /\ FlattenSeq(as) \in Seq(V) /\ FlattenSeq(bs) \in Seq(V)
        /\ Aligned(FlattenSeq(as), FlattenSeq(bs))
        /\ FlattenSeq(as) = FlattenSeq(bs) => \A i \in 1 .. n : as[i] = bs[i]
        /\ \A i \in 1 .. n : ToSet(as[i]) \subseteq ToSet(FlattenSeq(as))
    <3>1. AlignedAll(V, as, bs)
      BY <1>2, <1>3, <1>4, <1>6 DEF AlignedAll
    <3>2. Flat(V, as, bs)
      BY ONLY <3>1, AlignedFlattens, Zenon
    <3>3. QED
      BY <1>2, <3>2 DEF Flat
  <2>2. ASSUME \A i \in 1 .. n : as[i] = bs[i]
        PROVE  A = B /\ (Blank(key) \in ToSet(A) => ta = tb)
    <3>1. \A i \in 1 .. n : A[i] = B[i]
      <4> SUFFICES ASSUME NEW i \in 1 .. n, A[i] # Blank(key) PROVE A[i] = B[i]
        BY <1>1
      <4>1. <<A[i]>> = <<B[i]>>
        BY <1>1, <1>2, <1>3, <2>2
      <4>2. QED
        BY <4>1
    <3>2. A = B
      BY <1>1, <3>1, SameSequence
    <3>3. ASSUME NEW i \in 1 .. n, A[i] = Blank(key) PROVE ta = tb
      <4>1. B[i] = Blank(key)
        BY <1>1, <3>3
      <4>2. \A j \in 1 .. Len(ta) : Token(ta[j]) = Token(tb[j])
        BY <1>2, <1>3, <2>2, <3>3, <4>1
      <4>3. \A j \in 1 .. Len(ta) : ta[j] = tb[j]
        <5>1. \A x : Token(x).s = x
          BY DEF Token
        <5>2. QED
          BY <4>2, <5>1
      <4>4. QED
        BY <4>3, SameSequence
    <3>4. QED
      BY <1>1, <3>2, <3>3 DEF ToSet
  <2>3. ASSUME NEW l, l # key, Blank(l) \in ToSet(A) PROVE Blank(l) \in ToSet(FlattenSeq(as))
    <3>1. PICK i \in 1 .. n : A[i] = Blank(l)
      BY <1>1, <2>3 DEF ToSet
    <3>2. Blank(l) # Blank(key)
      <4>1. \A k : Blank(k).s = k
        BY DEF Blank
      <4>2. QED
        BY <2>3, <4>1
    <3>3. as[i] = <<Blank(l)>>
      BY <1>2, <3>1, <3>2
    <3>4. Blank(l) \in ToSet(<<Blank(l)>>)
      BY DEF ToSet
    <3>5. QED
      BY <2>1, <3>1, <3>3, <3>4
  <2>4. QED
    BY <1>2, <1>3, <2>1, <2>2, <2>3 DEF Met, V
<1>7. QED
  BY <1>5, <1>6

-----------------------------------------------------------------------------
(* The URI of a resource.                                                   *)

\* A copy holds nothing but what the resource holds.
LEMMA MappedValues ==
    ASSUME NEW S, NEW sequence \in Seq(S), NEW props, NEW mapping
    PROVE  \A x \in DOMAIN Mapped(props, mapping, sequence) :
              \E f \in DOMAIN props : Mapped(props, mapping, sequence)[x] = props[f]
<1> DEFINE m == Len(sequence)
<1>1. PICK g : Renames(g, props, mapping, sequence) /\ Mapped(props, mapping, sequence) = g[m]
  BY Renaming
<1> DEFINE right(n) == \A x \in DOMAIN g[n] : \E f \in DOMAIN props : g[n][x] = props[f]
           D == {n \in 0 .. m : right(n)}
<1>2. m \in Nat
  OBVIOUS
<1>3. 0 \in D
  BY <1>1, <1>2 DEF Renames
<1>4. ASSUME NEW n \in 0 .. m - 1, n \in D PROVE n + 1 \in D
  <2>1. n + 1 \in 1 .. m /\ n + 1 \in 0 .. m /\ (n + 1) - 1 = n
    BY <1>2
  <2>2. g[n + 1] = MapOne(g[n], sequence[n + 1], mapping[sequence[n + 1]])
    BY <1>1, <2>1 DEF Renames
  <2>3. right(n)
    BY <1>4
  <2> DEFINE p == g[n]
             q == g[n + 1]
  <2>4. \A x \in DOMAIN q : \E y \in DOMAIN p : q[x] = p[y]
    BY <2>2 DEF MapOne
  <2>5. right(n + 1)
    BY <2>3, <2>4
  <2> HIDE DEF right
  <2>6. QED
    BY <2>1, <2>5
<1>5. m \in D
  <2> HIDE DEF D
  <2>1. QED
    BY <1>2, <1>3, <1>4, Climbed
<1>6. QED
  BY <1>1, <1>5

\* The texts of the defaults are texts, whatever a type has taken over.
LEMMA DefaultTexts ==
    ASSUME docs \in Directories, ~Cyclic, TakenOver, Pending = {}
    PROVE  \A t \in Names : \A f \in DOMAIN types[t].props :
              types[t].props[f].default.v \in Seq(ToSet(types[t].props[f].default.v))
<1> DEFINE text(x) == x \in Seq(ToSet(x))
           fine(t) == \A f \in DOMAIN types[t].props : text(types[t].props[f].default.v)
           D == {t \in Names : fine(t)}
<1> HIDE DEF text
<1>1. ASSUME NEW t \in Names, Parent(t) \in Names => Parent(t) \in D PROVE t \in D
  <2>1. \A f \in DOMAIN Declared(t).props : text(Declared(t).props[f].default.v)
    BY Documents DEF text
  <2>2. types[t].props = IF Parent(t) = 0 THEN Declared(t).props
                         ELSE Under(Declared(t).props, types[Parent(t)].props)
    BY DEF TakenOver, Inheritable
  <2>3. Parent(t) # 0 => Parent(t) \in Names
    BY DEF TakenOver
  <2>4. CASE Parent(t) = 0
    <3>1. fine(t)
      BY <2>1, <2>2, <2>4
    <3> HIDE DEF fine
    <3>2. QED
      BY <3>1
  <2>5. CASE Parent(t) # 0
    <3> DEFINE u == Parent(t)
    <3>1. fine(u)
      BY <1>1, <2>3, <2>5
    <3>2. types[t].props = Under(Declared(t).props, types[u].props)
      BY <2>2, <2>5
    <3>3. fine(t)
      BY <2>1, <3>1, <3>2 DEF Under
    <3> HIDE DEF fine
    <3>4. QED
      BY <3>3
  <2>6. QED
    BY <2>4, <2>5
<1>2. Names \subseteq D
  <2> HIDE DEF D
  <2>1. QED
    BY <1>1, Descends
<1>3. QED
  BY <1>2 DEF text

\* The text of every property of an accepted resource is one.
LEMMA Texts ==
    ASSUME LoaderInv, GraphInv, NEW a \in Accepted, NEW k \in DOMAIN a.props
    PROVE  a.props[k].v \in Seq(ToSet(a.props[k].v))
<1> DEFINE et == types[a.kind]
           m == et.mapping
           raw == a.raw.props
           rules == RulesOf(a.kind)
<1>1. /\ docs \in Directories /\ ~Cyclic /\ TakenOver /\ Pending = {} /\ Slices
      /\ Normal(a) /\ a.kind \in Names
  BY AcceptedNormal
<1>2. PICK s \in SetToSeqs(DOMAIN m) : a.props = Made(a.raw, s)
  BY <1>1 DEF Normal
<1> DEFINE moved == Mapped(raw, m, s)
           props == Standardized(moved, rules)
<1>3. a.props = applyDefaults(et.props, props)
  BY <1>1, <1>2 DEF Made, Normal
<1>4. IsFiniteSet(DOMAIN m) /\ rules \in Seq(Cells)
  BY <1>1, MappingsFinite, RulesSequence
<1>5. s \in Seq(DOMAIN m)
  BY <1>2, <1>4, OrderOf
<1>6. \A f \in DOMAIN raw : Textual(raw[f])
  BY <1>1, ResourcesAssumption DEF Normal, Textual
<1>7. \A x \in DOMAIN moved : Textual(moved[x])
  <2>1. \A x \in DOMAIN moved : \E f \in DOMAIN raw : moved[x] = raw[f]
    <3> HIDE DEF raw, m
    <3>1. QED
      BY <1>5, MappedValues
  <2> HIDE DEF moved, raw
  <2>2. QED
    BY <1>6, <2>1
<1> HIDE DEF moved, rules
<1>8. \A x \in DOMAIN props : Textual(props[x])
  BY <1>4, <1>7, StandardizedKeeps
<1> HIDE DEF props
<1>9. IF k \in DOMAIN props THEN a.props[k] = props[k]
      ELSE k \in DOMAIN et.props /\ a.props[k] = et.props[k].default
  BY <1>3 DEF applyDefaults
<1>10. QED
  BY <1>1, <1>8, <1>9, DefaultTexts DEF Textual

\* Resources with the same texts of the keys have the same URI.
LEMMA UrisFollow ==
    ASSUME NEW S, NEW keys \in Seq(S), NEW template, NEW p, NEW q,
           \A i \in 1 .. Len(keys) : p[keys[i]].v = q[keys[i]].v
    PROVE  GenerateURI(template, keys, p) = GenerateURI(template, keys, q)
<1> DEFINE m == Len(keys)
<1>1. PICK f : Fills(f, template, keys, p) /\ GenerateURI(template, keys, p) = f[m]
  BY Filling
<1>2. PICK g : Fills(g, template, keys, q) /\ GenerateURI(template, keys, q) = g[m]
  BY Filling
<1> DEFINE D == {n \in 0 .. m : f[n] = g[n]}
<1>3. m \in Nat
  OBVIOUS
<1>4. 0 \in D
  BY <1>1, <1>2, <1>3 DEF Fills
<1>5. ASSUME NEW n \in 0 .. m - 1, n \in D PROVE n + 1 \in D
  <2>1. n + 1 \in 1 .. m /\ n + 1 \in 0 .. m /\ (n + 1) - 1 = n
    BY <1>3
  <2>2. /\ f[n + 1] = Fill(f[n], keys[n + 1], p[keys[n + 1]].v)
        /\ g[n + 1] = Fill(g[n], keys[n + 1], q[keys[n + 1]].v)
    BY <1>1, <1>2, <2>1 DEF Fills
  <2>3. p[keys[n + 1]].v = q[keys[n + 1]].v /\ f[n] = g[n]
    BY <1>5, <2>1
  <2>4. f[n + 1] = g[n + 1]
    BY <2>2, <2>3
  <2>5. QED
    BY <2>1, <2>4
<1>6. m \in D
  <2> HIDE DEF D
  <2>1. QED
    BY <1>3, <1>4, <1>5, Climbed
<1>7. QED
  BY <1>1, <1>2, <1>6

\* A template filled with the texts x and y of the keys, so far.
Meeting(V, template, keys, x, y, n, A, B) ==
    /\ A \in Seq(V) /\ B \in Seq(V) /\ Aligned(A, B)
    /\ A = B => \A i \in 1 .. n : Blank(keys[i]) \in ToSet(template) => x[i] = y[i]
    /\ \A k : Blank(k) \in ToSet(template) =>
          Blank(k) \in ToSet(A) \/ \E i \in 1 .. n : keys[i] = k

\* One key more.
LEMMA MeetOne ==
    ASSUME NEW S, NEW keys \in Seq(S), NEW U, NEW T, NEW V, V = U \cup {Token(z) : z \in T},
           NEW template, NEW x, NEW y,
           NEW n \in Nat, n + 1 <= Len(keys), NEW A, NEW B,
           \A i, j \in 1 .. Len(keys) : keys[i] = keys[j] => x[i] = x[j] /\ y[i] = y[j],
           x[n + 1] \in Seq(T), y[n + 1] \in Seq(T), Len(x[n + 1]) = Len(y[n + 1]),
           Meeting(V, template, keys, x, y, n, A, B)
    PROVE  Meeting(V, template, keys, x, y, n + 1,
                   Fill(A, keys[n + 1], x[n + 1]), Fill(B, keys[n + 1], y[n + 1]))
<1> DEFINE key == keys[n + 1]
           ta == x[n + 1]
           tb == y[n + 1]
           FA == Fill(A, key, ta)
           FB == Fill(B, key, tb)
<1>1. V \cup {Token(z) : z \in T} = V
  OBVIOUS
<1>2. A \in Seq(V) /\ B \in Seq(V) /\ Aligned(A, B)
  BY DEF Meeting
<1>3. ta \in Seq(T) /\ tb \in Seq(T) /\ Len(ta) = Len(tb)
  OBVIOUS
<1> HIDE DEF key, ta, tb
<1>4. Met(V \cup {Token(z) : z \in T}, A, B, key, ta, tb, Fill(A, key, ta), Fill(B, key, tb))
  BY ONLY <1>2, <1>3, FillsMeet, Zenon
<1>5. Met(V, A, B, key, ta, tb, FA, FB)
  BY ONLY <1>1, <1>4, Zenon
<1> HIDE DEF FA, FB
<1>6. /\ FA \in Seq(V) /\ FB \in Seq(V) /\ Aligned(FA, FB)
      /\ FA = FB => A = B /\ (Blank(key) \in ToSet(A) => ta = tb)
      /\ \A l : l # key /\ Blank(l) \in ToSet(A) => Blank(l) \in ToSet(FA)
  BY ONLY <1>5 DEF Met
<1>7. \A i \in 1 .. n + 1 : i \in 1 .. n \/ i = n + 1
  OBVIOUS
<1>8. /\ A = B => \A i \in 1 .. n : Blank(keys[i]) \in ToSet(template) => x[i] = y[i]
      /\ \A k : Blank(k) \in ToSet(template) =>
            Blank(k) \in ToSet(A) \/ \E i \in 1 .. n : keys[i] = k
  BY DEF Meeting
<1>9. n + 1 \in 1 .. n + 1 /\ \A i \in 1 .. n : i \in 1 .. n + 1
  OBVIOUS
<1>10. ASSUME FA = FB, NEW i \in 1 .. n + 1, Blank(keys[i]) \in ToSet(template)
       PROVE  x[i] = y[i]
  <2>1. CASE i \in 1 .. n
    BY <1>6, <1>8, <1>10, <2>1
  <2>2. CASE i = n + 1
    <3>1. CASE Blank(key) \in ToSet(A)
      BY <1>6, <1>10, <2>2, <3>1 DEF ta, tb
    <3>2. CASE \E j \in 1 .. n : keys[j] = key
      <4>1. PICK j \in 1 .. n : keys[j] = key
        BY <3>2
      <4>2. j \in 1 .. Len(keys) /\ n + 1 \in 1 .. Len(keys) /\ Len(keys) \in Nat
        OBVIOUS
      <4>3. x[j] = x[i] /\ y[j] = y[i]
        BY <2>2, <4>1, <4>2 DEF key
      <4>4. Blank(keys[j]) \in ToSet(template)
        BY <1>10, <2>2, <4>1 DEF key
      <4>5. x[j] = y[j]
        BY <1>6, <1>8, <1>10, <4>1, <4>4
      <4>6. QED
        BY <4>3, <4>5
    <3>3. QED
      BY <1>8, <1>10, <2>2, <3>1, <3>2 DEF key
  <2>3. QED
    BY <1>7, <2>1, <2>2
<1>11. ASSUME NEW k, Blank(k) \in ToSet(template)
       PROVE  Blank(k) \in ToSet(FA) \/ \E i \in 1 .. n + 1 : keys[i] = k
  <2>1. CASE k = key
    BY <1>9, <2>1 DEF key
  <2>2. CASE k # key
    BY <1>6, <1>8, <1>9, <1>11, <2>2
  <2>3. QED
    BY <2>1, <2>2
<1>12. Meeting(V, template, keys, x, y, n + 1, FA, FB)
  BY <1>6, <1>10, <1>11 DEF Meeting
<1>13. QED
  BY <1>12 DEF FA, FB, key, ta, tb

\* The keys' texts are texts, and equally long.
AsLong(keys, p, q) ==
    \A i \in 1 .. Len(keys) :
        /\ p[keys[i]].v \in Seq(ToSet(p[keys[i]].v))
        /\ q[keys[i]].v \in Seq(ToSet(q[keys[i]].v))
        /\ Len(p[keys[i]].v) = Len(q[keys[i]].v)

\* The keys the template names have the same texts.
Agreeing(keys, template, p, q) ==
    \A i \in 1 .. Len(keys) :
        Blank(keys[i]) \in ToSet(template) => p[keys[i]].v = q[keys[i]].v

\* One URI is that of one resource, if the texts of each key are equally long.
LEMMA UrisMeet ==
    ASSUME NEW S, NEW keys \in Seq(S), NEW U, NEW template \in Seq(U), NEW p, NEW q,
           AsLong(keys, p, q),
           GenerateURI(template, keys, p) = GenerateURI(template, keys, q)
    PROVE  Agreeing(keys, template, p, q)
<1> DEFINE m == Len(keys)
           x == [i \in 1 .. m |-> p[keys[i]].v]
           y == [i \in 1 .. m |-> q[keys[i]].v]
           T == UNION {ToSet(x[i]) \cup ToSet(y[i]) : i \in 1 .. m}
           V == U \cup {Token(z) : z \in T}
<1>1. PICK f : Fills(f, template, keys, p) /\ GenerateURI(template, keys, p) = f[m]
  BY Filling
<1>2. PICK g : Fills(g, template, keys, q) /\ GenerateURI(template, keys, q) = g[m]
  BY Filling
<1>3. \A i \in 1 .. m : x[i] = p[keys[i]].v /\ y[i] = q[keys[i]].v
  OBVIOUS
<1>4. \A i, j \in 1 .. m : keys[i] = keys[j] => x[i] = x[j] /\ y[i] = y[j]
  BY <1>3
<1>5. m \in Nat
  OBVIOUS
<1> HIDE DEF x, y
<1>6. \A i \in 1 .. m : x[i] \in Seq(T) /\ y[i] \in Seq(T) /\ Len(x[i]) = Len(y[i])
  <2> TAKE i \in 1 .. m
  <2>1. x[i] \in Seq(ToSet(x[i])) /\ y[i] \in Seq(ToSet(y[i])) /\ Len(x[i]) = Len(y[i])
    BY <1>3 DEF AsLong
  <2>2. ToSet(x[i]) \subseteq T /\ ToSet(y[i]) \subseteq T
    OBVIOUS
  <2> HIDE DEF T
  <2>3. x[i] \in Seq(T) /\ y[i] \in Seq(T)
    <3> DEFINE r == x[i]
               s == y[i]
    <3>1. r \in Seq(ToSet(r)) /\ s \in Seq(ToSet(s)) /\ ToSet(r) \subseteq T /\ ToSet(s) \subseteq T
      BY <2>1, <2>2
    <3> HIDE DEF r, s
    <3>2. r \in Seq(T) /\ s \in Seq(T)
      BY ONLY <3>1, Widened, Zenon
    <3>3. QED
      BY <3>2 DEF r, s
  <2>4. QED
    BY <2>1, <2>3
<1> HIDE DEF T
<1>7. V = U \cup {Token(z) : z \in T}
  OBVIOUS
<1>8. template \in Seq(V)
  BY Widened
<1> HIDE DEF V
<1> DEFINE right(n) == Meeting(V, template, keys, x, y, n, f[n], g[n])
           D == {n \in 0 .. m : right(n)}
<1>9. 0 \in D
  <2>1. f[0] = template /\ g[0] = template
    BY <1>1, <1>2 DEF Fills
  <2>2. right(0)
    <3>1. Aligned(template, template)
      BY DEF Aligned
    <3>2. Meeting(V, template, keys, x, y, 0, template, template)
      BY <1>8, <3>1 DEF Meeting
    <3>3. QED
      BY <2>1, <3>2
  <2> HIDE DEF right
  <2>3. QED
    BY <1>5, <2>2
<1>10. ASSUME NEW n \in 0 .. m - 1, n \in D PROVE n + 1 \in D
  <2>1. n \in Nat /\ n + 1 <= m /\ n + 1 \in 1 .. m /\ n + 1 \in 0 .. m /\ (n + 1) - 1 = n
    BY <1>5
  <2>2. /\ f[n + 1] = Fill(f[n], keys[n + 1], x[n + 1])
        /\ g[n + 1] = Fill(g[n], keys[n + 1], y[n + 1])
    BY <1>1, <1>2, <1>3, <2>1 DEF Fills
  <2>3. Meeting(V, template, keys, x, y, n, f[n], g[n])
    BY <1>10
  <2>4. x[n + 1] \in Seq(T) /\ y[n + 1] \in Seq(T) /\ Len(x[n + 1]) = Len(y[n + 1])
    BY <1>6, <2>1
  <2> DEFINE A == f[n]
             B == g[n]
  <2> HIDE DEF A, B
  <2>5. Meeting(V, template, keys, x, y, n, A, B)
    BY <2>3 DEF A, B
  <2>6. Meeting(V, template, keys, x, y, n + 1,
                Fill(A, keys[n + 1], x[n + 1]), Fill(B, keys[n + 1], y[n + 1]))
    BY ONLY keys \in Seq(S), <1>4, <1>7, <2>1, <2>4, <2>5, MeetOne, Zenon
  <2>7. right(n + 1)
    BY <2>2, <2>6 DEF A, B
  <2> HIDE DEF right
  <2>8. QED
    BY <2>1, <2>7
<1>11. m \in D
  <2> HIDE DEF D
  <2>1. QED
    BY <1>5, <1>9, <1>10, Climbed
<1>12. Meeting(V, template, keys, x, y, m, f[m], g[m]) /\ f[m] = g[m]
  BY <1>1, <1>2, <1>11
<1>13. QED
  BY <1>3, <1>12 DEF Meeting, Agreeing

\* What the URI tells of two accepted resources.
LEMMA UriReady ==
    ASSUME LoaderInv, GraphInv
    PROVE  UriIdentifies
<1> SUFFICES ASSUME NEW a \in Accepted, NEW b \in Accepted, a.kind = b.kind
             PROVE  /\ KeyOf(a) = KeyOf(b) => a.uri = b.uri
                    /\ /\ Distinguishes(a.kind) /\ a.uri = b.uri
                       /\ \A i \in DOMAIN KeyOf(a) : Len(KeyOf(a)[i]) = Len(KeyOf(b)[i])
                       => KeyOf(a) = KeyOf(b)
  BY DEF UriIdentifies
<1> DEFINE keys == Declared(a.kind).keys
           template == Declared(a.kind).template
           m == Len(keys)
           p == a.props
           q == b.props
<1>1. /\ docs \in Directories /\ TakenOver /\ Normal(a) /\ Normal(b) /\ a.kind \in Names
  BY AcceptedNormal
<1>2. keys \in Seq(ToSet(keys)) /\ template \in Seq(ToSet(template))
  BY <1>1, Documents
<1>3. types[a.kind].keys = keys /\ types[a.kind].template = template
  BY <1>1 DEF TakenOver, Identity
<1>4. a.uri = GenerateURI(template, keys, p) /\ b.uri = GenerateURI(template, keys, q)
  BY <1>1, <1>3 DEF Normal
<1>5. Valid(types[a.kind], p) /\ Valid(types[a.kind], q)
  BY <1>1 DEF Normal
<1>6. KeyOf(a) = [i \in DOMAIN keys |-> p[keys[i]].v] /\ KeyOf(b) = [i \in DOMAIN keys |-> q[keys[i]].v]
  BY DEF KeyOf
<1> HIDE DEF keys, template
<1>7. DOMAIN keys = 1 .. m /\ m \in Nat
  BY <1>2
<1>8. \A i \in 1 .. m : keys[i] \in DOMAIN p /\ keys[i] \in DOMAIN q
  BY <1>3, <1>5, <1>7 DEF Valid, Present
<1>9. \A i \in 1 .. m : /\ p[keys[i]].v \in Seq(ToSet(p[keys[i]].v))
                        /\ q[keys[i]].v \in Seq(ToSet(q[keys[i]].v))
  BY <1>8, Texts
<1> HIDE DEF p, q
<1>10. \A i \in 1 .. m : KeyOf(a)[i] = p[keys[i]].v /\ KeyOf(b)[i] = q[keys[i]].v
  BY <1>6, <1>7
<1>11. ASSUME KeyOf(a) = KeyOf(b) PROVE a.uri = b.uri
  <2>1. \A i \in 1 .. m : p[keys[i]].v = q[keys[i]].v
    BY <1>10, <1>11
  <2>2. GenerateURI(template, keys, p) = GenerateURI(template, keys, q)
    BY ONLY <1>2, <2>1, UrisFollow, Zenon
  <2>3. QED
    BY <1>4, <2>2
<1>12. ASSUME Distinguishes(a.kind), a.uri = b.uri,
              \A i \in DOMAIN KeyOf(a) : Len(KeyOf(a)[i]) = Len(KeyOf(b)[i])
       PROVE  KeyOf(a) = KeyOf(b)
  <2>1. DOMAIN KeyOf(a) = 1 .. m
    BY <1>6, <1>7
  <2>2. AsLong(keys, p, q)
    BY <1>9, <1>10, <1>12, <2>1 DEF AsLong
  <2>3. GenerateURI(template, keys, p) = GenerateURI(template, keys, q)
    BY <1>4, <1>12
  <2>4. Agreeing(keys, template, p, q)
    BY ONLY <1>2, <2>2, <2>3, UrisMeet, Zenon
  <2>5. \A i \in 1 .. m : Blank(keys[i]) \in ToSet(template)
    BY <1>7, <1>12 DEF Distinguishes, Blank, keys, template, ToSet
  <2>6. \A i \in DOMAIN keys : p[keys[i]].v = q[keys[i]].v
    BY <1>7, <2>4, <2>5 DEF Agreeing
  <2>7. QED
    BY <1>6, <2>6
<1>13. QED
  BY <1>11, <1>12

\* What Normalize lets through (normalizer.go, validator.go, uri.go): each
\* property is as the nearest ancestor declaring it asks, no stable key is
\* empty, and the URI follows from the keys and, where the template names them
\* all and no text can run across a separator, tells them apart.
THEOREM AcceptedConform == Spec => []AcceptedConforms
<1>1. LoaderInv /\ GraphInv => AcceptedConforms
  BY PropsReady, UriReady DEF AcceptedConforms
<1>2. QED
  BY <1>1, PipelineAlways, PTL

=============================================================================
