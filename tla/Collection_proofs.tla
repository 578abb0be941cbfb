-------------------------- MODULE Collection_proofs --------------------------
(***************************************************************************)
(* The collecting of a full sync, for any configuration, sources, limit    *)
(* and failures: what it gathers is what each list owes after the failures *)
(* of its own requests, never more than Limit devices are asked, and what  *)
(* the transforms and the parsers of the echoes make of the answers keeps  *)
(* its meaning.                                                            *)
(*                                                                         *)
(* WorldsApart: a connector lists a type once (the failures of a second    *)
(* attempt are not told from those of the first), and a controller's empty *)
(* page is its last (paginateVPN stops at one).                            *)
(*                                                                         *)
(* SourcesFit, for TransformsAreSound alone: the ontology has the words of *)
(* the translation tables and defaults of its own enums, and no name of a  *)
(* device holds the "_" its keys are joined with.                          *)
(***************************************************************************)
EXTENDS Collection, FiniteSetTheorems, SequenceTheorems, TLAPS

\* No connector lists a type twice.
TypesOnce(g) ==
    \A n \in DOMAIN Configured(g) :
        LET types == Configured(g)[n].types
        IN \A i, j \in DOMAIN types : types[i] = types[j] => i = j

\* A controller has no page after an empty one.
EmptyIsLast(g) ==
    \A n \in DOMAIN Configured(g) : \A list \in DOMAIN g.pages[n] :
        Configured(g)[n].type = "controller" =>
            LET pages == g.pages[n][list]
            IN \A i, j \in DOMAIN pages : pages[i] = {} => j <= i

WorldsApart ==
    \A i \in DOMAIN Worlds : TypesOnce(WithGives(Worlds[i])) /\ EmptyIsLast(WithGives(Worlds[i]))

-----------------------------------------------------------------------------
(* The invariant.                                                           *)

\* The lists, pages and devices of a world for the types its connectors list.
ReadsLists(g, n, kind) ==
    LET type == Configured(g)[n].type
    IN kind \in Supported(type) /\ ~AsksDevices(type, kind) =>
          \A list \in ToSet(Lists(type, kind)) :
              LET pages == g.pages[n][list]
              IN /\ IsSeq(pages)
                 /\ type = "controller" =>
                       \A i, j \in DOMAIN pages : pages[i] = {} => j <= i

AsksNamed(g, n, kind) ==
    AsksDevices(Configured(g)[n].type, kind) =>
        /\ IsSeq(g.names[n])
        /\ DOMAIN g.peers[n][kind] = {d \in DOMAIN g.names[n] : g.names[n][d] # <<>>}
        /\ kind = "BGP" =>
              \A d \in DOMAIN g.peers[n][kind] :
                  LET text == EchoOf(g, n, kind, d)
                  IN \A line \in DOMAIN text : IsSeq(text[line].words)

Fits(g) ==
    \A n \in DOMAIN Configured(g) :
        LET types == Configured(g)[n].types
        IN /\ n # NoOne
           /\ IsSeq(types)
           /\ \A i, j \in DOMAIN types : types[i] = types[j] => i = j
           /\ \A i \in DOMAIN types : ReadsLists(g, n, types[i]) /\ AsksNamed(g, n, types[i])

Calling == {"read", "devices", "peers"}

\* Where the loop is.
Place ==
    /\ phase \in {"start", "pick", "types", "done", "exited"} \cup Calling
    /\ registry = IF phase \in {"start", "exited"} THEN <<>> ELSE Configured(world)
    /\ todo \subseteq DOMAIN registry
    /\ phase = "done" => todo = {}
    /\ phase \in {"start", "pick", "done", "exited"} => cur = NoOne
    /\ phase \in {"types"} \cup Calling =>
          /\ cur \in DOMAIN registry \ todo
          /\ at \in Nat \ {0}
          /\ at <= Len(registry[cur].types) + (IF phase = "types" THEN 1 ELSE 0)
    /\ phase # "read" => lists = <<>> /\ part = {} /\ errs = {}
    /\ phase \notin {"read", "peers"} => buf = {}
    /\ phase # "peers" => flying = {}

\* The types of a connector that have been collected.
Collected(n) ==
    CASE n = cur -> {registry[n].types[i] : i \in 1 .. at - 1}
      [] n # cur /\ n \in todo -> {}
      [] OTHER -> ToSet(registry[n].types)

\* What has been gathered is what the collected types owe.
Gathered == all = UNION {UNION {Owed(n, kind) : kind \in Collected(n)} : n \in DOMAIN registry}

\* Every failure is of a type that has been collected, or of this Collect.
OwnFailures ==
    \A f \in failed :
        /\ f.conn \in DOMAIN registry
        /\ \/ f.kind \in Collected(f.conn)
           \/ phase \in {"read", "peers"} /\ f.conn = cur /\ f.kind = Kind

\* The lists of this Collect that have been read.
ReadLists == ToSet(Lists(registry[cur].type, Kind)) \ ToSet(lists)

Reading ==
    phase = "read" =>
        LET type == registry[cur].type
            pages == world.pages[cur][Head(lists)]
        IN /\ Kind \in Supported(type) /\ ~AsksDevices(type, Kind)
           /\ \/ lists = Lists(type, Kind)
              \/ Lists(type, Kind) = <<"L3", "L2">> /\ lists = <<"L2">>
           /\ page \in Nat \ {0}
           /\ page = 1 \/ page <= Len(pages)
           /\ part = UNION {pages[i] : i \in 1 .. page - 1}
           /\ buf = UNION {OwedList(cur, Kind, list) : list \in ReadLists}
           /\ errs \subseteq ReadLists \cap {"L3"}
           /\ \A f \in failed : f.conn = cur /\ f.kind = Kind => f.list \in ReadLists

\* The devices that have answered or failed.
Answered == {d \in DOMAIN world.peers[cur][Kind] : d < next /\ d \notin flying}

Asking ==
    /\ phase \in {"devices", "peers"} => AsksDevices(registry[cur].type, Kind)
    /\ phase = "peers" =>
          /\ next \in 1 .. Len(Names) + 1
          /\ flying \subseteq {d \in DOMAIN world.peers[cur][Kind] : d < next}
          /\ buf = UNION {OwedPeer(cur, Kind, d) : d \in Answered}
          /\ \A f \in failed : f.conn = cur /\ f.kind = Kind =>
                f.list = Kind /\ f.how = "error" /\ f.at \in Answered

\* len(sem) is the number of devices being asked.
Slots == IsFiniteSet(flying) /\ slots = Cardinality(flying) /\ slots <= Limit

Running == Place /\ Gathered /\ OwnFailures /\ Reading /\ Asking

\* Where a row of BGP has ended the process.
Stopped ==
    /\ phase = "crashed"
    /\ Kind = "BGP" /\ part = {} /\ errs = {}
    /\ \E d \in DOMAIN world.peers[cur]["BGP"] :
          LET text == EchoOf(world, cur, "BGP", d)
          IN BGPPanics(text) /\ \A line \in DOMAIN text : IsSeq(text[line].words)

CollectInv == Fits(world) /\ Slots /\ (Running \/ Stopped)

-----------------------------------------------------------------------------
(* The worlds.                                                              *)

\* A list has a length, and places up to it.
LEMMA SeqFacts ==
    ASSUME NEW s, IsSeq(s)
    PROVE  Len(s) \in Nat /\ DOMAIN s = 1 .. Len(s)
  BY DEF IsSeq

\* The lists of a Collect: the two of the VPNs, else one.
LEMMA ListsOf ==
    ASSUME NEW type, NEW kind
    PROVE  \/ /\ type = "controller" /\ kind = "VPN" /\ Lists(type, kind) = <<"L3", "L2">>
              /\ ToSet(Lists(type, kind)) = {"L3", "L2"}
           \/ /\ Lists(type, kind) = <<kind>> /\ ToSet(Lists(type, kind)) = {kind}
  BY DEF Lists, ToSet

\* What is derived from a world has its lists, and its named devices.
LEMMA WorldFits ==
    ASSUME WorldsApart, NEW i \in DOMAIN Worlds
    PROVE  Fits(WithGives(Worlds[i]))
<1> DEFINE w == Worlds[i]
           g == WithGives(w)
<1>1. /\ Configured(g) = Configured(w) /\ g.names = DeviceNames(w)
      /\ g.pages = PageGives(w) /\ g.peers = EchoGives(w, DeviceNames(w))
  BY DEF Configured, Entries, WithGives
<1>2. \A n \in DOMAIN Configured(g) :
         /\ n # NoOne
         /\ IsSeq(Configured(g)[n].types)
         /\ IsSeq(g.names[n])
         /\ \A list \in DOMAIN g.pages[n] : IsSeq(g.pages[n][list])
         /\ "BGP" \in DOMAIN g.peers[n] =>
               \A d \in DOMAIN g.peers[n]["BGP"] :
                   LET text == EchoOf(g, n, "BGP", d)
                   IN \A line \in DOMAIN text : IsSeq(text[line].words)
  BY WorldsAssumption
<1>3. TypesOnce(g) /\ EmptyIsLast(g)
  BY DEF WorldsApart
<1> HIDE DEF g, w
<1>4. ASSUME NEW n \in DOMAIN Configured(g), NEW kind \in ToSet(Configured(g)[n].types)
      PROVE  ReadsLists(g, n, kind) /\ AsksNamed(g, n, kind)
  <2> DEFINE c == Configured(w)[n]
             kinds == {k \in ToSet(c.types) \cap Supported(c.type) : ~AsksDevices(c.type, k)}
  <2>1. DOMAIN g.pages[n] = UNION {ToSet(Lists(c.type, k)) : k \in kinds}
    BY <1>1 DEF PageGives
  <2>2. ASSUME kind \in Supported(c.type), ~AsksDevices(c.type, kind),
               NEW list \in ToSet(Lists(c.type, kind))
        PROVE  list \in DOMAIN g.pages[n]
    <3>1. kind \in kinds
      BY <1>1, <2>2
    <3> HIDE DEF kinds
    <3>2. QED
      BY <2>1, <2>2, <3>1
  <2>3. ReadsLists(g, n, kind)
    <3> SUFFICES ASSUME kind \in Supported(c.type), ~AsksDevices(c.type, kind),
                        NEW list \in ToSet(Lists(c.type, kind))
                 PROVE  /\ IsSeq(g.pages[n][list])
                        /\ c.type = "controller" =>
                             LET pages == g.pages[n][list]
                             IN \A x, y \in DOMAIN pages : pages[x] = {} => y <= x
      BY <1>1 DEF ReadsLists
    <3>1. list \in DOMAIN g.pages[n]
      BY <2>2
    <3>2. QED
      BY <1>1, <1>2, <1>3, <3>1 DEF EmptyIsLast
  <2>4. AsksNamed(g, n, kind)
    <3> DEFINE asked == {k \in ToSet(c.types) : AsksDevices(c.type, k)}
               peers == g.peers[n]
               named == {d \in DOMAIN g.names[n] : g.names[n][d] # <<>>}
    <3> SUFFICES ASSUME AsksDevices(c.type, kind)
                 PROVE  /\ IsSeq(g.names[n]) /\ DOMAIN g.peers[n][kind] = named
                        /\ kind = "BGP" =>
                              \A d \in DOMAIN g.peers[n][kind] :
                                  LET text == EchoOf(g, n, kind, d)
                                  IN \A line \in DOMAIN text : IsSeq(text[line].words)
      BY <1>1 DEF AsksNamed
    <3>1. kind \in asked
      BY <1>1
    <3>2. DOMAIN g.peers[n][kind] = named /\ kind \in DOMAIN g.peers[n]
      BY <1>1, <3>1 DEF EchoGives
    <3>3. QED
      BY <1>2, <3>2
  <2>5. QED
    BY <2>3, <2>4
<1>5. ASSUME NEW n \in DOMAIN Configured(g)
      PROVE  LET types == Configured(g)[n].types
             IN /\ n # NoOne
                /\ IsSeq(types)
                /\ \A x, y \in DOMAIN types : types[x] = types[y] => x = y
                /\ \A x \in DOMAIN types : ReadsLists(g, n, types[x]) /\ AsksNamed(g, n, types[x])
  <2> DEFINE types == Configured(g)[n].types
  <2>1. n # NoOne /\ IsSeq(types) /\ \A x, y \in DOMAIN types : types[x] = types[y] => x = y
    BY <1>2, <1>3 DEF TypesOnce
  <2>2. \A x \in DOMAIN types : types[x] \in ToSet(types)
    BY DEF ToSet
  <2>3. QED
    BY <1>4, <2>1, <2>2
<1>6. QED
  BY <1>5 DEF Fits, g, w

-----------------------------------------------------------------------------
(* What is owed changes only with the failures of its own requests.         *)

\* A step that loses nothing but requests of this Collect.
FailsHere ==
    /\ failed \subseteq failed'
    /\ \A f \in failed' : f \in failed \/ (f.conn = cur /\ f.kind = Kind)

FailsIn(list) ==
    /\ failed \subseteq failed'
    /\ \A f \in failed' : f \in failed \/ (f.conn = cur /\ f.kind = Kind /\ f.list = list)

SameWorld == world' = world /\ registry' = registry

\* What another type owes does not change.
LEMMA OwedKept ==
    ASSUME SameWorld, FailsHere, NEW n, NEW kind, n # cur \/ kind # Kind
    PROVE  Owed(n, kind)' = Owed(n, kind)
<1>1. ASSUME NEW list, NEW how PROVE Bad(n, kind, list, how)' = Bad(n, kind, list, how)
  BY DEF FailsHere, Bad
<1>2. ASSUME NEW list PROVE OwedList(n, kind, list)' = OwedList(n, kind, list)
  BY <1>1 DEF SameWorld, OwedList
<1>3. ASSUME NEW d PROVE OwedPeer(n, kind, d)' = OwedPeer(n, kind, d)
  BY <1>1 DEF SameWorld, OwedPeer
<1>4. QED
  BY <1>2, <1>3 DEF SameWorld, Owed

\* The other lists of this Collect too.
LEMMA OwedListKept ==
    ASSUME SameWorld, NEW list, FailsIn(list), NEW n, NEW kind, NEW other, other # list
    PROVE  OwedList(n, kind, other)' = OwedList(n, kind, other)
<1>1. ASSUME NEW how PROVE Bad(n, kind, other, how)' = Bad(n, kind, other, how)
  BY DEF FailsIn, Bad
<1>2. QED
  BY <1>1 DEF SameWorld, OwedList

-----------------------------------------------------------------------------
(* The end of a Collect.                                                    *)

\* A type that is collected is not asked for again.
LEMMA NotAgain ==
    ASSUME Fits(world), Place, cur \in DOMAIN registry, phase \in {"types"} \cup Calling,
           at <= Len(registry[cur].types)
    PROVE  /\ Kind \notin Collected(cur)
           /\ at \in DOMAIN registry[cur].types
           /\ ReadsLists(world, cur, Kind) /\ AsksNamed(world, cur, Kind)
<1> DEFINE types == registry[cur].types
<1>1. registry = Configured(world) /\ at \in Nat \ {0}
  BY DEF Place, Calling
<1>2. /\ IsSeq(types)
      /\ \A i, j \in DOMAIN types : types[i] = types[j] => i = j
      /\ \A i \in DOMAIN types : ReadsLists(world, cur, types[i]) /\ AsksNamed(world, cur, types[i])
  BY <1>1 DEF Fits
<1>3. DOMAIN types = 1 .. Len(types) /\ Len(types) \in Nat
  BY <1>2, SeqFacts
<1>4. at \in DOMAIN types
  BY <1>1, <1>3
<1>5. \A i \in 1 .. at - 1 : i \in DOMAIN types /\ i # at
  BY <1>1, <1>3, <1>4
<1>6. Collected(cur) = {types[i] : i \in 1 .. at - 1}
  BY DEF Collected
<1>7. QED
  BY <1>2, <1>4, <1>5, <1>6 DEF Kind

\* Return, when it keeps what the type owes.
LEMMA Returned ==
    ASSUME CollectInv, phase \in {"types"} \cup Calling, at <= Len(registry[cur].types),
           NEW n, NEW k, n = cur, k = Kind,
           NEW res, NEW ok, Return(res, ok), (IF ok THEN res ELSE {}) = Owed(n, k)',
           FailsHere, SameWorld, UNCHANGED <<todo, cur, slots, flying>>, flying = {}
    PROVE  CollectInv'
<1> USE DEF SameWorld
<1>1. Fits(world) /\ Slots /\ Running
  BY DEF CollectInv, Stopped, Calling
<1>2. /\ cur \in DOMAIN registry \ todo /\ at \in Nat \ {0}
      /\ registry = Configured(world) /\ todo \subseteq DOMAIN registry
  BY <1>1 DEF Running, Place, Calling
<1>3. Kind \notin Collected(cur) /\ at \in DOMAIN registry[cur].types
  BY <1>1, <1>2, NotAgain DEF Running
<1>4. /\ phase' = "types" /\ at' = at + 1 /\ lists' = <<>> /\ part' = {} /\ buf' = {}
      /\ errs' = {} /\ all' = all \cup Owed(n, k)'
  BY DEF Return
<1>5. Fits(world)' /\ Slots'
  BY <1>1 DEF Slots
<1>6. Place'
  <2>1. Len(registry[cur].types) \in Nat /\ DOMAIN registry[cur].types = 1 .. Len(registry[cur].types)
    BY <1>1, <1>2, SeqFacts DEF Fits
  <2>2. at + 1 <= Len(registry[cur].types) + 1 /\ at + 1 \in Nat \ {0}
    BY <1>2, <1>3, <2>1
  <2>3. QED
    BY <1>2, <1>4, <2>2 DEF Place, Calling
<1>7. Collected(n)' = Collected(n) \cup {k}
  <2>1. 1 .. (at + 1) - 1 = (1 .. at - 1) \cup {at}
    BY <1>2
  <2>2. Collected(n)' = {registry[cur].types[i] : i \in 1 .. (at + 1) - 1}
    BY <1>4 DEF Collected
  <2>3. QED
    BY <2>1, <2>2 DEF Collected, Kind
<1>8. \A m : m # cur => Collected(m)' = Collected(m)
  BY DEF Collected
<1>9. Gathered'
  <2>1. \A m : \A kind \in Collected(m) : Owed(m, kind)' = Owed(m, kind)
    BY <1>3, OwedKept
  <2>2. ASSUME NEW m \in DOMAIN registry, m # cur
        PROVE  UNION {Owed(m, kind)' : kind \in Collected(m)'}
                 = UNION {Owed(m, kind) : kind \in Collected(m)}
    BY <1>8, <2>1, <2>2
  <2>3. UNION {Owed(n, kind)' : kind \in Collected(n)'}
          = (UNION {Owed(n, kind) : kind \in Collected(n)}) \cup Owed(n, k)'
    BY <1>7, <2>1
  <2>4. all = UNION {UNION {Owed(m, kind) : kind \in Collected(m)} : m \in DOMAIN registry}
    BY <1>1 DEF Running, Gathered
  <2>5. all' = UNION {UNION {Owed(m, kind)' : kind \in Collected(m)'} : m \in DOMAIN registry}
    <3> DEFINE before(m) == UNION {Owed(m, kind) : kind \in Collected(m)}
               after(m) == UNION {Owed(m, kind)' : kind \in Collected(m)'}
    <3>1. \A m \in DOMAIN registry : m # n => after(m) = before(m)
      BY <2>2
    <3>2. after(n) = before(n) \cup Owed(n, k)'
      BY <2>3
    <3>3. all = UNION {before(m) : m \in DOMAIN registry}
      BY <2>4
    <3>4. all' = all \cup Owed(n, k)' /\ n \in DOMAIN registry
      BY <1>2, <1>4
    <3> HIDE DEF before, after
    <3>5. all' = UNION {after(m) : m \in DOMAIN registry}
      BY <3>1, <3>2, <3>3, <3>4
    <3>6. QED
      BY <3>5 DEF after
  <2>6. QED
    BY <2>5 DEF Gathered
<1>10. OwnFailures'
  <2> SUFFICES ASSUME NEW f \in failed' PROVE f.conn \in DOMAIN registry /\ f.kind \in Collected(f.conn)'
    BY DEF OwnFailures
  <2>1. CASE f \in failed
    <3>1. \/ f.kind \in Collected(f.conn)
          \/ f.conn = cur /\ f.kind = Kind
      BY <1>1, <2>1 DEF Running, OwnFailures
    <3>2. f.conn \in DOMAIN registry
      BY <1>1, <2>1 DEF Running, OwnFailures
    <3>3. QED
      BY <1>7, <1>8, <3>1, <3>2
  <2>2. CASE f.conn = cur /\ f.kind = Kind
    BY <1>2, <1>7, <2>2
  <2>3. QED
    BY <2>1, <2>2 DEF FailsHere
<1>11. Reading' /\ Asking'
  BY <1>4 DEF Reading, Asking
<1>12. QED
  BY <1>5, <1>6, <1>9, <1>10, <1>11 DEF CollectInv, Running

-----------------------------------------------------------------------------
(* A list.                                                                  *)

\* What a list has lost and what it owes, unless this step is about it.
LEMMA ListIntact ==
    ASSUME NEW n, NEW k, NEW list, \A f \in failed : f.conn = n /\ f.kind = k => f.list # list
    PROVE  OwedList(n, k, list)
             = UNION {world.pages[n][list][i] : i \in DOMAIN world.pages[n][list]}
<1>1. \A how : Bad(n, k, list, how) = {}
  BY DEF Bad
<1>2. QED
  BY <1>1 DEF OwedList

\* In the middle of a Collect: what the state says of the list being read.
LEMMA ListBeingRead ==
    ASSUME CollectInv, phase = "read"
    PROVE  /\ Fits(world) /\ Running /\ flying = {}
           /\ cur \in DOMAIN registry \ todo /\ registry = Configured(world)
           /\ at \in Nat \ {0} /\ at <= Len(registry[cur].types)
           /\ Head(lists) \notin ReadLists
           /\ ToSet(Lists(registry[cur].type, Kind)) \ ToSet(Tail(lists)) = ReadLists \cup {Head(lists)}
           /\ Head(lists) \in ToSet(Lists(registry[cur].type, Kind))
           /\ \/ Len(lists) = 1 /\ Tail(lists) = <<>>
              \/ /\ Lists(registry[cur].type, Kind) = <<"L3", "L2">>
                 /\ lists = <<"L3", "L2">> /\ Tail(lists) = <<"L2">> /\ Len(lists) = 2
           /\ IsSeq(world.pages[cur][Head(lists)])
           /\ registry[cur].type = "controller" =>
                 LET pages == world.pages[cur][Head(lists)]
                 IN \A i, j \in DOMAIN pages : pages[i] = {} => j <= i
<1> DEFINE type == registry[cur].type
           ls == Lists(type, Kind)
<1>1. /\ Fits(world) /\ Running /\ flying = {}
      /\ cur \in DOMAIN registry \ todo /\ registry = Configured(world)
      /\ at \in Nat \ {0} /\ at <= Len(registry[cur].types) + 0
  BY DEF CollectInv, Stopped, Running, Place, Calling
<1>2. at <= Len(registry[cur].types)
  <2>1. Len(registry[cur].types) \in Nat
    BY <1>1, SeqFacts DEF Fits
  <2>2. QED
    BY <1>1, <2>1
<1>3. ReadsLists(world, cur, Kind)
  BY <1>1, <1>2, NotAgain DEF Running, Calling
<1>4. /\ Kind \in Supported(type) /\ ~AsksDevices(type, Kind)
      /\ lists = ls \/ (ls = <<"L3", "L2">> /\ lists = <<"L2">>)
  BY <1>1 DEF Running, Reading
<1>5. /\ Head(lists) \notin ReadLists
      /\ ToSet(ls) \ ToSet(Tail(lists)) = ReadLists \cup {Head(lists)}
      /\ Head(lists) \in ToSet(ls)
      /\ \/ Len(lists) = 1 /\ Tail(lists) = <<>>
         \/ ls = <<"L3", "L2">> /\ lists = ls /\ Tail(lists) = <<"L2">> /\ Len(lists) = 2
  <2>1. CASE ls = <<Kind>> /\ ToSet(ls) = {Kind} /\ lists = ls
    <3>1. /\ Head(lists) = Kind /\ Tail(lists) = <<>> /\ Len(lists) = 1
          /\ ToSet(lists) = {Kind} /\ ToSet(Tail(lists)) = {}
      BY <2>1 DEF ToSet
    <3>2. QED
      BY <2>1, <3>1 DEF ReadLists
  <2>2. CASE ls = <<"L3", "L2">> /\ lists = ls
    <3>1. /\ Head(lists) = "L3" /\ Tail(lists) = <<"L2">> /\ Len(lists) = 2
          /\ ToSet(lists) = {"L3", "L2"} /\ ToSet(Tail(lists)) = {"L2"}
      BY <2>2 DEF ToSet
    <3>2. QED
      BY <2>2, <3>1 DEF ReadLists
  <2>3. CASE ls = <<"L3", "L2">> /\ lists = <<"L2">>
    <3>1. /\ Head(lists) = "L2" /\ Tail(lists) = <<>> /\ Len(lists) = 1
          /\ ToSet(lists) = {"L2"} /\ ToSet(Tail(lists)) = {} /\ ToSet(ls) = {"L3", "L2"}
      BY <2>3 DEF ToSet
    <3>2. QED
      BY <2>3, <3>1 DEF ReadLists
  <2>4. QED
    BY <1>4, <2>1, <2>2, <2>3, ListsOf
<1>6. /\ IsSeq(world.pages[cur][Head(lists)])
      /\ type = "controller" =>
           LET pages == world.pages[cur][Head(lists)]
           IN \A i, j \in DOMAIN pages : pages[i] = {} => j <= i
  BY <1>1, <1>3, <1>4, <1>5 DEF ReadsLists
<1>7. QED
  BY <1>1, <1>2, <1>5, <1>6

\* A list ends with what it owes: the Collect returns, or reads the next.
LEMMA ListEnded ==
    ASSUME CollectInv, phase = "read", NEW n, NEW k, NEW l, n = cur, k = Kind, l = Head(lists),
           NEW got, NEW bad, ListEnds(got, bad), got = OwedList(n, k, l)', FailsIn(l), SameWorld,
           bad \subseteq errs \cup {l}, UNCHANGED <<todo, cur, slots, flying>>
    PROVE  CollectInv'
<1> DEFINE type == registry[n].type
           ls == Lists(type, k)
<1>1. /\ Fits(world) /\ Running /\ flying = {}
      /\ n \in DOMAIN registry \ todo /\ registry = Configured(world)
      /\ at \in Nat \ {0} /\ at <= Len(registry[n].types)
      /\ l \notin ReadLists
      /\ ToSet(ls) \ ToSet(Tail(lists)) = ReadLists \cup {l}
      /\ l \in ToSet(ls)
      /\ \/ Len(lists) = 1 /\ Tail(lists) = <<>>
         \/ ls = <<"L3", "L2">> /\ lists = <<"L3", "L2">> /\ Tail(lists) = <<"L2">> /\ Len(lists) = 2
  BY ListBeingRead
<1>2. /\ k \in Supported(type) /\ ~AsksDevices(type, k)
      /\ buf = UNION {OwedList(n, k, list) : list \in ReadLists}
      /\ errs \subseteq ReadLists \cap {"L3"}
      /\ \A f \in failed : f.conn = n /\ f.kind = k => f.list \in ReadLists
  BY <1>1 DEF Running, Reading
<1>3. \A list \in ReadLists : OwedList(n, k, list)' = OwedList(n, k, list)
  BY <1>1, OwedListKept
<1>4. buf \cup got = UNION {OwedList(n, k, list)' : list \in ReadLists \cup {l}}
  <2> DEFINE before(list) == OwedList(n, k, list)
             after(list) == OwedList(n, k, list)'
  <2>1. /\ buf = UNION {before(list) : list \in ReadLists} /\ got = after(l)
        /\ \A list \in ReadLists : after(list) = before(list)
    BY <1>2, <1>3
  <2> HIDE DEF before, after
  <2>2. buf \cup got = UNION {after(list) : list \in ReadLists \cup {l}}
    BY <2>1
  <2>3. QED
    BY <2>2 DEF after
<1>5. FailsHere
  BY DEF FailsIn, FailsHere
<1>6. CASE Len(lists) = 1 /\ Tail(lists) = <<>>
  <2> DEFINE res == buf \cup got
             ok == bad = {} \/ res # {}
  <2>1. Return(res, ok)
    BY <1>6 DEF ListEnds
  <2>2. ReadLists \cup {l} = ToSet(ls)
    BY <1>1, <1>6 DEF ToSet
  <2>3. (IF ok THEN res ELSE {}) = UNION {OwedList(n, k, list)' : list \in ToSet(ls)}
    BY <1>4, <2>2
  <2>4. Owed(n, k)' = UNION {OwedList(n, k, list)' : list \in ToSet(ls)}
    BY <1>2 DEF Owed, SameWorld
  <2> HIDE DEF ok, res
  <2>5. (IF ok THEN res ELSE {}) = Owed(n, k)'
    BY <2>3, <2>4
  <2>6. QED
    BY <1>1, <1>5, <2>1, <2>5, Returned DEF Calling
<1>7. CASE /\ ls = <<"L3", "L2">> /\ lists = <<"L3", "L2">> /\ Tail(lists) = <<"L2">>
           /\ Len(lists) = 2
  <2>1. /\ lists' = <<"L2">> /\ page' = 1 /\ part' = {} /\ buf' = buf \cup got /\ errs' = bad
        /\ UNCHANGED <<phase, at, next, all, last>>
    BY <1>7 DEF ListEnds
  <2>2. UNCHANGED <<world, registry, todo, cur, slots, flying>>
    BY DEF SameWorld
  <2>3. l = "L3"
    BY <1>7
  <2>4. Fits(world)' /\ Slots'
    BY <2>2 DEF CollectInv, Slots
  <2>5. Place'
    BY <1>1, <2>1, <2>2 DEF Running, Place, Calling
  <2>6. \A m : Collected(m)' = Collected(m)
    BY <2>1, <2>2 DEF Collected
  <2>7. k \notin Collected(n)
    BY <1>1, NotAgain DEF Running, Calling
  <2>8. Gathered'
    <3>1. \A m : \A kind \in Collected(m) : Owed(m, kind)' = Owed(m, kind)
      BY <1>5, <2>7, OwedKept
    <3>2. all = UNION {UNION {Owed(m, kind) : kind \in Collected(m)} : m \in DOMAIN registry}
      BY <1>1 DEF Running, Gathered
    <3>3. all = UNION {UNION {Owed(m, kind)' : kind \in Collected(m)'} : m \in DOMAIN registry}
      BY <2>6, <3>1, <3>2
    <3>4. QED
      BY <2>1, <2>2, <3>3 DEF Gathered
  <2>9. k = Kind'
    BY <2>1, <2>2 DEF Kind
  <2>10. OwnFailures'
    <3> SUFFICES ASSUME NEW f \in failed'
                 PROVE  /\ f.conn \in DOMAIN registry
                        /\ f.kind \in Collected(f.conn)' \/ (f.conn = n /\ f.kind = k)
      BY <2>1, <2>2, <2>9 DEF OwnFailures
    <3>1. CASE f \in failed
      BY <1>1, <2>6, <3>1 DEF Running, OwnFailures
    <3>2. CASE f.conn = cur /\ f.kind = Kind
      BY <1>1, <3>2
    <3>3. QED
      BY <3>1, <3>2 DEF FailsIn
  <2>11. ReadLists' = ReadLists \cup {l}
    BY <1>1, <1>7, <2>1, <2>2, <2>9 DEF ReadLists
  <2>12. Reading'
    <3>1. k \in Supported(type) /\ ~AsksDevices(type, k) /\ ls = <<"L3", "L2">> /\ lists' = <<"L2">>
      BY <1>2, <1>7, <2>1
    <3>2. part' = UNION {world.pages[n]["L2"][i] : i \in 1 .. 1 - 1}
      BY <2>1
    <3>3. errs' \subseteq ReadLists' \cap {"L3"}
      BY <1>2, <2>1, <2>3, <2>11
    <3>4. buf' = UNION {OwedList(n, k, list)' : list \in ReadLists'}
      BY <1>4, <2>1, <2>11
    <3>5. \A f \in failed' : f.conn = n /\ f.kind = k => f.list \in ReadLists'
      BY <1>2, <2>11 DEF FailsIn
    <3>6. QED
      BY <2>1, <2>2, <2>9, <3>1, <3>2, <3>3, <3>4, <3>5 DEF Reading
  <2>13. Asking'
    BY <2>1 DEF Asking
  <2>14. QED
    BY <2>4, <2>5, <2>8, <2>10, <2>12, <2>13 DEF CollectInv, Running
<1>8. QED
  BY <1>1, <1>6, <1>7

\* The pages of the list being read.
LEMMA PagesRead ==
    ASSUME CollectInv, phase = "read", NEW n, NEW k, NEW l, n = cur, k = Kind, l = Head(lists)
    PROVE  LET pages == world.pages[n][l]
           IN /\ Len(pages) \in Nat /\ DOMAIN pages = 1 .. Len(pages)
              /\ page \in Nat \ {0} /\ (page = 1 \/ page <= Len(pages))
              /\ part = UNION {pages[i] : i \in 1 .. page - 1}
              /\ \A f \in failed : f.conn = n /\ f.kind = k => f.list # l
<1>1. Running /\ l \notin ReadLists /\ IsSeq(world.pages[n][l])
  BY ListBeingRead
<1>2. Len(world.pages[n][l]) \in Nat /\ DOMAIN world.pages[n][l] = 1 .. Len(world.pages[n][l])
  BY <1>1, SeqFacts
<1>3. QED
  BY <1>1, <1>2 DEF Running, Reading

\* The last page ends the list with all of its pages; another page is kept.
LEMMA PageAnswersKeeps == CollectInv /\ PageAnswers => CollectInv'
<1> SUFFICES ASSUME CollectInv, PageAnswers PROVE CollectInv'
  OBVIOUS
<1>1. PICK n, k, l : n = cur /\ k = Kind /\ l = Head(lists)
  OBVIOUS
<1> DEFINE pages == world.pages[n][l]
           got == IF page <= Len(pages) THEN part \cup pages[page] ELSE part
           end == \/ page >= Len(pages)
                  \/ registry[n].type = "controller" /\ pages[page] = {}
<1>2. /\ phase = "read"
      /\ IF end THEN ListEnds(got, errs)
         ELSE /\ part' = got /\ page' = page + 1
              /\ UNCHANGED <<phase, at, lists, buf, errs, next, all, last>>
      /\ UNCHANGED <<world, registry, todo, cur, slots, flying, failed>>
  BY <1>1 DEF PageAnswers
<1>3. /\ Len(pages) \in Nat /\ DOMAIN pages = 1 .. Len(pages)
      /\ page \in Nat \ {0} /\ (page = 1 \/ page <= Len(pages))
      /\ part = UNION {pages[i] : i \in 1 .. page - 1}
      /\ \A f \in failed : f.conn = n /\ f.kind = k => f.list # l
  BY <1>1, <1>2, PagesRead
<1>4. registry[n].type = "controller" => \A i, j \in DOMAIN pages : pages[i] = {} => j <= i
  BY <1>1, <1>2, ListBeingRead
<1>5. page <= Len(pages) => got = UNION {pages[i] : i \in 1 .. page}
  BY <1>3
<1>6. FailsIn(l) /\ FailsHere /\ SameWorld
  BY <1>2 DEF FailsIn, FailsHere, SameWorld
<1>7. OwedList(n, k, l)' = UNION {pages[i] : i \in DOMAIN pages}
  <2>1. OwedList(n, k, l)' = OwedList(n, k, l)
    BY <1>2 DEF OwedList, Bad
  <2>2. QED
    BY <1>3, <2>1, ListIntact
<1>8. CASE end
  <2>1. CASE page <= Len(pages)
    <3>1. page = Len(pages)
      BY <1>3, <1>4, <1>8, <2>1
    <3>2. got = OwedList(n, k, l)'
      BY <1>3, <1>5, <1>7, <2>1, <3>1
    <3> HIDE DEF got, end
    <3>3. QED
      BY <1>1, <1>2, <1>6, <1>8, <3>2, ListEnded
  <2>2. CASE ~(page <= Len(pages))
    <3>1. page = 1 /\ Len(pages) = 0
      BY <1>3, <2>2
    <3>2. got = OwedList(n, k, l)'
      BY <1>3, <1>7, <2>2, <3>1
    <3> HIDE DEF got, end
    <3>3. QED
      BY <1>1, <1>2, <1>6, <1>8, <3>2, ListEnded
  <2>3. QED
    BY <2>1, <2>2
<1>9. CASE ~end
  <2>1. page < Len(pages) /\ page + 1 <= Len(pages) /\ page + 1 \in Nat \ {0}
    BY <1>3, <1>9
  <2>2. got = UNION {pages[i] : i \in 1 .. (page + 1) - 1}
    BY <1>3, <1>5, <2>1
  <2> HIDE DEF got, end
  <2>3. /\ part' = got /\ page' = page + 1
        /\ UNCHANGED <<world, registry, phase, todo, cur, at, lists, buf, errs, next, slots,
                       flying, all, failed>>
    BY <1>2, <1>9
  <2>4. k = Kind' /\ ReadLists' = ReadLists
    BY <1>1, <2>3 DEF Kind, ReadLists
  <2>5. (\A m, kind : Owed(m, kind)' = Owed(m, kind)) /\ (\A m : Collected(m)' = Collected(m))
    BY <2>3 DEF Owed, OwedList, OwedPeer, Bad, Collected
  <2>6. \A list : OwedList(n, k, list)' = OwedList(n, k, list)
    BY <2>3 DEF OwedList, Bad
  <2>7. Fits(world)' /\ Slots' /\ Running
    BY <1>2, <2>3 DEF CollectInv, Stopped, Slots
  <2>8. Place'
    BY <1>2, <2>3, <2>7 DEF Running, Place
  <2>9. Gathered'
    <3>1. all = UNION {UNION {Owed(m, kind) : kind \in Collected(m)} : m \in DOMAIN registry}
      BY <2>7 DEF Running, Gathered
    <3>2. all = UNION {UNION {Owed(m, kind)' : kind \in Collected(m)'} : m \in DOMAIN registry}
      BY <2>5, <3>1
    <3>3. QED
      BY <2>3, <3>2 DEF Gathered
  <2>10. OwnFailures'
    BY <1>1, <2>3, <2>4, <2>5, <2>7 DEF Running, OwnFailures
  <2>11. Reading'
    <3>1. /\ k \in Supported(registry[n].type) /\ ~AsksDevices(registry[n].type, k)
          /\ \/ lists = Lists(registry[n].type, k)
             \/ Lists(registry[n].type, k) = <<"L3", "L2">> /\ lists = <<"L2">>
          /\ errs \subseteq ReadLists \cap {"L3"}
          /\ \A f \in failed : f.conn = n /\ f.kind = k => f.list \in ReadLists
          /\ buf = UNION {OwedList(n, k, list) : list \in ReadLists}
      BY <1>1, <1>2, <2>7 DEF Running, Reading
    <3>2. buf' = UNION {OwedList(n, k, list)' : list \in ReadLists'}
      BY <2>3, <2>4, <2>6, <3>1
    <3>3. part' = UNION {pages[i] : i \in 1 .. page' - 1}
      BY <2>2, <2>3
    <3>4. QED
      BY <1>1, <2>1, <2>3, <2>4, <3>1, <3>2, <3>3 DEF Reading
  <2>12. Asking'
    BY <1>2, <2>3 DEF Asking
  <2>13. QED
    BY <2>7, <2>8, <2>9, <2>10, <2>11, <2>12 DEF CollectInv, Running
<1>10. QED
  BY <1>8, <1>9

\* A failing request loses the list.
LEMMA PageFailsKeeps == CollectInv /\ PageFails => CollectInv'
<1> SUFFICES ASSUME CollectInv, PageFails PROVE CollectInv'
  OBVIOUS
<1>1. PICK n, k, l : n = cur /\ k = Kind /\ l = Head(lists)
  OBVIOUS
<1> DEFINE f == [conn |-> n, kind |-> k, list |-> l, at |-> page, how |-> "error"]
<1>2. /\ phase = "read" /\ failed' = failed \cup {f} /\ ListEnds({}, errs \cup {l})
      /\ UNCHANGED <<world, registry, todo, cur, slots, flying>>
  BY <1>1 DEF PageFails, Failure
<1>3. FailsIn(l) /\ SameWorld
  BY <1>1, <1>2 DEF FailsIn, SameWorld
<1>4. OwedList(n, k, l)' = {}
  <2>1. f \in Bad(n, k, l, "error")'
    BY <1>2 DEF Bad
  <2>2. QED
    BY <2>1 DEF OwedList
<1>5. QED
  BY <1>1, <1>2, <1>3, <1>4, ListEnded

\* A refused request loses a plain list, and ends a paged one.
LEMMA PageRefusedKeeps == CollectInv /\ PageRefused => CollectInv'
<1> SUFFICES ASSUME CollectInv, PageRefused PROVE CollectInv'
  OBVIOUS
<1>1. PICK n, k, l : n = cur /\ k = Kind /\ l = Head(lists)
  OBVIOUS
<1> DEFINE f == [conn |-> n, kind |-> k, list |-> l, at |-> page, how |-> "refused"]
           pages == world.pages[n][l]
           plain == registry[n].type = "controller" /\ l \in Plain
<1>2. /\ phase = "read" /\ failed' = failed \cup {f}
      /\ IF plain THEN ListEnds({}, errs \cup {l}) ELSE ListEnds(part, errs)
      /\ UNCHANGED <<world, registry, todo, cur, slots, flying>>
  BY <1>1 DEF PageRefused, Failure
<1>3. FailsIn(l) /\ SameWorld
  BY <1>1, <1>2 DEF FailsIn, SameWorld
<1>4. /\ Len(pages) \in Nat /\ DOMAIN pages = 1 .. Len(pages)
      /\ page \in Nat \ {0} /\ (page = 1 \/ page <= Len(pages))
      /\ part = UNION {pages[i] : i \in 1 .. page - 1}
      /\ \A g \in failed : g.conn = n /\ g.kind = k => g.list # l
  BY <1>1, <1>2, PagesRead
<1>5. Bad(n, k, l, "error")' = {} /\ Bad(n, k, l, "refused")' = {f}
  BY <1>2, <1>4 DEF Bad
<1>6. {g.at : g \in Bad(n, k, l, "refused")'} = {page}
  <2>1. {g.at : g \in {f}} = {page}
    OBVIOUS
  <2>2. {g.at : g \in Bad(n, k, l, "refused")'} = {g.at : g \in {f}}
    BY <1>5
  <2>3. QED
    BY <2>1, <2>2
<1>7. CASE plain
  <2>1. OwedList(n, k, l)' = {}
    BY <1>2, <1>6, <1>7 DEF OwedList
  <2>2. QED
    BY <1>1, <1>2, <1>3, <1>7, <2>1, ListEnded
<1>8. CASE ~plain
  <2>1. {i \in DOMAIN pages : \A r \in {page} : i < r} = 1 .. page - 1
    BY <1>4
  <2>2. OwedList(n, k, l)' = UNION {pages[i] : i \in {i \in DOMAIN pages : \A r \in {page} : i < r}}
    BY <1>2, <1>5, <1>6, <1>8 DEF OwedList
  <2>3. part = OwedList(n, k, l)'
    BY <1>4, <2>1, <2>2
  <2>4. QED
    BY <1>1, <1>2, <1>3, <1>8, <2>3, ListEnded
<1>9. QED
  BY <1>7, <1>8

-----------------------------------------------------------------------------
(* The devices.                                                             *)

\* A step inside a Collect leaves what the others owe.
LEMMA CallGoesOn ==
    ASSUME CollectInv, phase \in {"types"} \cup Calling, phase' \in Calling,
           at <= Len(registry[cur].types), FailsHere,
           UNCHANGED <<world, registry, todo, cur, at, all>>,
           failed' = failed \/ phase' \in {"read", "peers"},
           phase \in {"read", "peers"} => phase' \in {"read", "peers"}
    PROVE  Fits(world)' /\ Kind' = Kind /\ Gathered' /\ OwnFailures'
<1>1. Fits(world) /\ Running /\ cur \in DOMAIN registry
  BY DEF CollectInv, Stopped, Running, Place, Calling
<1>2. Kind \notin Collected(cur)
  BY <1>1, NotAgain DEF Running
<1>3. Kind' = Kind /\ \A m : Collected(m)' = Collected(m)
  BY DEF Kind, Collected
<1>4. \A m : \A kind \in Collected(m) : Owed(m, kind)' = Owed(m, kind)
  BY <1>2, OwedKept DEF SameWorld
<1>5. Gathered'
  <2>1. all = UNION {UNION {Owed(m, kind) : kind \in Collected(m)} : m \in DOMAIN registry}
    BY <1>1 DEF Running, Gathered
  <2>2. all = UNION {UNION {Owed(m, kind)' : kind \in Collected(m)'} : m \in DOMAIN registry}
    BY <1>3, <1>4, <2>1
  <2>3. QED
    BY <2>2 DEF Gathered
<1>6. OwnFailures'
  <2> SUFFICES ASSUME NEW f \in failed'
               PROVE  /\ f.conn \in DOMAIN registry
                      /\ \/ f.kind \in Collected(f.conn)
                         \/ phase' \in {"read", "peers"} /\ f.conn = cur /\ f.kind = Kind
    BY <1>3 DEF OwnFailures
  <2>1. CASE f \in failed
    BY <1>1, <2>1 DEF Running, OwnFailures
  <2>2. CASE f \notin failed
    BY <1>1, <2>2 DEF FailsHere
  <2>3. QED
    BY <2>1, <2>2
<1>7. QED
  BY <1>1, <1>3, <1>5, <1>6

\* Collect begins: nothing of the type has failed yet.
LEMMA NoneFailedYet ==
    ASSUME CollectInv, phase \in {"types", "devices"}, at <= Len(registry[cur].types)
    PROVE  \A f \in failed : ~(f.conn = cur /\ f.kind = Kind)
<1>1. Fits(world) /\ Running /\ cur \in DOMAIN registry
  BY DEF CollectInv, Stopped, Running, Place, Calling
<1>2. Kind \notin Collected(cur)
  BY <1>1, NotAgain DEF Running, Calling
<1>3. QED
  BY <1>1, <1>2 DEF Running, OwnFailures

\* A Collect begins: it has read nothing, and nothing of its type has failed.
LEMMA CollectKeeps == CollectInv /\ Collect => CollectInv'
<1> SUFFICES ASSUME CollectInv, Collect PROVE CollectInv'
  OBVIOUS
<1>1. PICK n, k : n = cur /\ k = Kind
  OBVIOUS
<1> DEFINE type == registry[n].type
<1>2. /\ phase = "types" /\ at <= Len(registry[cur].types)
      /\ UNCHANGED <<world, registry, todo, cur, slots, flying, failed>>
  BY DEF Collect
<1>3. /\ Fits(world) /\ Slots /\ Running /\ flying = {} /\ lists = <<>> /\ part = {} /\ buf = {}
      /\ errs = {} /\ n \in DOMAIN registry
  BY <1>1, <1>2 DEF CollectInv, Stopped, Running, Place, Calling
<1>4. FailsHere /\ SameWorld
  BY <1>2 DEF FailsHere, SameWorld
<1>5. CASE k \notin Supported(type)
  <2>1. ~AsksDevices(type, k)
    BY <1>5 DEF AsksDevices, Supported
  <2>2. Return({}, FALSE)
    BY <1>1, <1>5, <2>1 DEF Collect
  <2>3. Owed(n, k)' = {}
    BY <1>2, <1>5 DEF Owed
  <2>4. QED
    BY <1>1, <1>2, <1>3, <1>4, <2>2, <2>3, Returned
<1>6. CASE k \in Supported(type) /\ AsksDevices(type, k)
  <2>1. /\ phase' = "devices"
        /\ UNCHANGED <<at, lists, page, part, buf, errs, next, all, last>>
    BY <1>1, <1>6 DEF Collect
  <2>2. Fits(world)' /\ Kind' = Kind /\ Gathered' /\ OwnFailures'
    BY <1>2, <1>4, <2>1, CallGoesOn DEF Calling
  <2>3. Place' /\ Slots'
    BY <1>2, <1>3, <2>1, NotAgain, SeqFacts DEF Running, Place, Calling, Slots, Fits
  <2>4. Reading' /\ Asking'
    BY <1>1, <1>2, <1>6, <2>1, <2>2 DEF Reading, Asking
  <2>5. QED
    BY <2>2, <2>3, <2>4 DEF CollectInv, Running
<1>7. CASE k \in Supported(type) /\ ~AsksDevices(type, k)
  <2>1. /\ phase' = "read" /\ lists' = Lists(type, k) /\ page' = 1
        /\ UNCHANGED <<at, part, buf, errs, next, all, last>>
    BY <1>1, <1>7 DEF Collect
  <2>2. Fits(world)' /\ Kind' = Kind /\ Gathered' /\ OwnFailures'
    BY <1>2, <1>4, <2>1, CallGoesOn DEF Calling
  <2>3. Place' /\ Slots'
    BY <1>2, <1>3, <2>1, NotAgain, SeqFacts DEF Running, Place, Calling, Slots, Fits
  <2>4. ReadLists' = {}
    BY <1>1, <1>2, <2>1, <2>2 DEF ReadLists
  <2>5. \A f \in failed' : ~(f.conn = n /\ f.kind = k)
    BY <1>1, <1>2, NoneFailedYet
  <2>6. buf' = UNION {OwedList(n, k, list)' : list \in ReadLists'}
    BY <1>3, <2>1, <2>4
  <2>7. part' = UNION {world.pages[n][Head(lists')][i] : i \in 1 .. 1 - 1}
    BY <1>3, <2>1
  <2>8. Reading'
    BY <1>1, <1>2, <1>3, <1>7, <2>1, <2>2, <2>4, <2>5, <2>6, <2>7 DEF Reading
  <2>9. Asking'
    BY <2>1 DEF Asking
  <2>10. QED
    BY <2>2, <2>3, <2>8, <2>9 DEF CollectInv, Running
<1>8. QED
  BY <1>5, <1>6, <1>7

\* The list of the devices is lost: so are all the peers.
LEMMA DevicesFailKeeps == CollectInv /\ DevicesFail => CollectInv'
<1> SUFFICES ASSUME CollectInv, DevicesFail PROVE CollectInv'
  OBVIOUS
<1>1. PICK n, k : n = cur /\ k = Kind
  OBVIOUS
<1> DEFINE f == [conn |-> n, kind |-> k, list |-> "Device", at |-> 0, how |-> "error"]
<1>2. /\ phase = "devices" /\ failed' = failed \cup {f} /\ Return({}, FALSE)
      /\ UNCHANGED <<world, registry, todo, cur, slots, flying>>
  BY <1>1 DEF DevicesFail, Failure
<1>3. /\ flying = {} /\ at <= Len(registry[cur].types) /\ AsksDevices(registry[n].type, k)
  <2>1. cur \in DOMAIN registry /\ registry = Configured(world) /\ Fits(world) /\ Running
    BY <1>2 DEF CollectInv, Stopped, Running, Place, Calling
  <2>2. Len(registry[cur].types) \in Nat
    BY <2>1, SeqFacts DEF Fits
  <2>3. QED
    BY <1>1, <1>2, <2>1, <2>2 DEF Running, Place, Asking, Calling
<1>4. FailsHere /\ SameWorld
  BY <1>1, <1>2 DEF FailsHere, SameWorld
<1>5. Owed(n, k)' = {}
  <2>1. f \in Bad(n, k, "Device", "error")'
    BY <1>2 DEF Bad
  <2>2. \A d : OwedPeer(n, k, d)' = {}
    BY <2>1 DEF OwedPeer
  <2>3. AsksDevices(registry[n].type, k)'
    BY <1>2, <1>3 DEF AsksDevices
  <2>4. QED
    BY <2>2, <2>3 DEF Owed
<1>6. QED
  BY <1>1, <1>2, <1>3, <1>4, <1>5, Returned DEF Calling

\* What the state says before a step of the devices.
LEMMA DevicesBeingAsked ==
    ASSUME CollectInv, phase \in {"devices", "peers"}, NEW n, NEW k, n = cur, k = Kind
    PROVE  /\ Fits(world) /\ Slots /\ Running
           /\ n \in DOMAIN registry \ todo /\ registry = Configured(world)
           /\ at \in Nat \ {0} /\ at <= Len(registry[n].types)
           /\ AsksDevices(registry[n].type, k) /\ k \in Peers
           /\ Len(Names) \in Nat
           /\ DOMAIN world.peers[n][k] = {d \in 1 .. Len(Names) : Names[d] # <<>>}
           /\ lists = <<>> /\ part = {} /\ errs = {}
<1>1. /\ Fits(world) /\ Slots /\ Running
      /\ n \in DOMAIN registry \ todo /\ registry = Configured(world)
      /\ at \in Nat \ {0} /\ at <= Len(registry[n].types) + 0
      /\ lists = <<>> /\ part = {} /\ errs = {}
  BY DEF CollectInv, Stopped, Running, Place, Calling
<1>2. at <= Len(registry[n].types)
  <2>1. Len(registry[n].types) \in Nat
    BY <1>1, SeqFacts DEF Fits
  <2>2. QED
    BY <1>1, <2>1
<1>3. AsksDevices(registry[n].type, k) /\ k \in Peers
  BY <1>1 DEF Running, Asking, AsksDevices
<1>4. AsksNamed(world, n, k)
  BY <1>1, <1>2, NotAgain DEF Running, Calling
<1>5. IsSeq(Names) /\ DOMAIN world.peers[n][k] = {d \in DOMAIN Names : Names[d] # <<>>}
  BY <1>1, <1>3, <1>4 DEF AsksNamed, Names
<1>6. Len(Names) \in Nat /\ DOMAIN Names = 1 .. Len(Names)
  BY <1>5, SeqFacts
<1>7. QED
  BY <1>1, <1>2, <1>3, <1>5, <1>6

\* The devices are known: none has been asked.
LEMMA DevicesAnswerKeeps == CollectInv /\ DevicesAnswer => CollectInv'
<1> SUFFICES ASSUME CollectInv, DevicesAnswer PROVE CollectInv'
  OBVIOUS
<1>1. PICK n, k : n = cur /\ k = Kind
  OBVIOUS
<1>2. /\ phase = "devices" /\ phase' = "peers" /\ next' = 1
      /\ UNCHANGED <<world, registry, todo, cur, at, lists, page, part, buf, errs,
                     slots, flying, all, failed, last>>
  BY DEF DevicesAnswer
<1>3. /\ Fits(world) /\ Slots /\ Running
      /\ n \in DOMAIN registry \ todo /\ registry = Configured(world)
      /\ at \in Nat \ {0} /\ at <= Len(registry[n].types)
      /\ AsksDevices(registry[n].type, k) /\ k \in Peers
      /\ Len(Names) \in Nat
      /\ DOMAIN world.peers[n][k] = {d \in 1 .. Len(Names) : Names[d] # <<>>}
      /\ lists = <<>> /\ part = {} /\ errs = {}
  BY <1>1, <1>2, DevicesBeingAsked
<1>4. buf = {} /\ flying = {}
  BY <1>2, <1>3 DEF Running, Place
<1>5. FailsHere
  BY <1>2 DEF FailsHere
<1>6. Fits(world)' /\ Kind' = Kind /\ Gathered' /\ OwnFailures'
  BY <1>1, <1>2, <1>3, <1>5, CallGoesOn DEF Calling
<1>7. Place' /\ Slots'
  BY <1>1, <1>2, <1>3, <1>4, <1>6, SeqFacts DEF Running, Place, Calling, Slots, Fits
<1>8. Names' = Names /\ Answered' = {}
  BY <1>1, <1>2, <1>3, <1>6 DEF Names, Answered
<1>9. buf' = UNION {OwedPeer(n, k, d)' : d \in Answered'}
  BY <1>2, <1>4, <1>8
<1>10. \A f \in failed' : ~(f.conn = n /\ f.kind = k)
  BY <1>1, <1>2, <1>3, NoneFailedYet
<1>11. Asking'
  BY <1>1, <1>2, <1>3, <1>4, <1>6, <1>8, <1>9, <1>10 DEF Asking
<1>12. Reading'
  BY <1>2 DEF Reading
<1>13. QED
  BY <1>6, <1>7, <1>11, <1>12 DEF CollectInv, Running

\* A step of the devices that keeps what Asking and Slots say keeps the rest.
LEMMA PeersGoOn ==
    ASSUME CollectInv, phase = "peers", phase' = "peers", FailsHere, Asking', Slots',
           UNCHANGED <<world, registry, todo, cur, at, lists, page, part, errs, all>>
    PROVE  CollectInv'
<1>1. PICK n, k : n = cur /\ k = Kind
  OBVIOUS
<1>2. /\ Running /\ n \in DOMAIN registry \ todo /\ at <= Len(registry[n].types)
      /\ lists = <<>> /\ part = {} /\ errs = {}
  BY <1>1, DevicesBeingAsked
<1>3. Fits(world)' /\ Kind' = Kind /\ Gathered' /\ OwnFailures'
  BY <1>1, <1>2, CallGoesOn DEF Calling
<1>4. Place'
  BY <1>1, <1>2 DEF Running, Place, Calling
<1>5. Reading'
  BY DEF Reading
<1>6. QED
  BY <1>3, <1>4, <1>5 DEF CollectInv, Running

\* A device is asked, or skipped for want of a name: none has answered.
LEMMA LaunchKeeps == CollectInv /\ Launch => CollectInv'
<1> SUFFICES ASSUME CollectInv, Launch PROVE CollectInv'
  OBVIOUS
<1>1. PICK n, k : n = cur /\ k = Kind
  OBVIOUS
<1> DEFINE peers == world.peers[n][k]
<1>2. /\ phase = "peers" /\ next <= Len(Names) /\ next' = next + 1
      /\ \/ Names[next] = <<>> /\ UNCHANGED <<slots, flying>>
         \/ /\ Names[next] # <<>> /\ slots < Limit /\ slots' = slots + 1
            /\ flying' = flying \cup {next}
      /\ UNCHANGED <<world, registry, phase, todo, cur, at, lists, page, part, buf,
                     errs, all, failed, last>>
  BY DEF Launch
<1>3. /\ Slots /\ Running
      /\ n \in DOMAIN registry \ todo /\ registry = Configured(world)
      /\ AsksDevices(registry[n].type, k) /\ k \in Peers
      /\ Len(Names) \in Nat
      /\ DOMAIN peers = {d \in 1 .. Len(Names) : Names[d] # <<>>}
  BY <1>1, <1>2, DevicesBeingAsked
<1>4. /\ next \in 1 .. Len(Names) + 1
      /\ flying \subseteq {d \in DOMAIN peers : d < next}
      /\ buf = UNION {OwedPeer(n, k, d) : d \in Answered}
      /\ \A f \in failed : f.conn = n /\ f.kind = k =>
            f.list = k /\ f.how = "error" /\ f.at \in Answered
  BY <1>1, <1>2, <1>3 DEF Running, Asking
<1>5. Kind' = Kind /\ Names' = Names
  BY <1>2 DEF Kind, Names
<1>6. FailsHere
  BY <1>2 DEF FailsHere
<1>7. Answered' = Answered
  <2>1. CASE Names[next] = <<>> /\ UNCHANGED <<slots, flying>>
    BY <1>1, <1>2, <1>3, <1>4, <1>5, <2>1 DEF Answered
  <2>2. CASE flying' = flying \cup {next}
    BY <1>1, <1>2, <1>3, <1>4, <1>5, <2>2 DEF Answered
  <2>3. QED
    BY <1>2, <2>1, <2>2
<1>8. flying' \subseteq {d \in DOMAIN peers : d < next'} /\ next' \in 1 .. Len(Names) + 1
  BY <1>2, <1>3, <1>4
<1>9. Slots'
  <2>1. CASE UNCHANGED <<slots, flying>>
    BY <1>3, <2>1 DEF Slots
  <2>2. CASE slots < Limit /\ slots' = slots + 1 /\ flying' = flying \cup {next}
    <3>1. next \notin flying
      BY <1>3, <1>4
    <3>2. IsFiniteSet(flying') /\ Cardinality(flying') = Cardinality(flying) + 1
      BY <1>3, <2>2, <3>1, FS_AddElement DEF Slots
    <3>3. Cardinality(flying) \in Nat /\ Limit \in Nat
      BY <1>3, FS_CardinalityType, WorldsAssumption DEF Slots
    <3>4. QED
      BY <1>3, <2>2, <3>2, <3>3 DEF Slots
  <2>3. QED
    BY <1>2, <2>1, <2>2
<1>10. \A d : OwedPeer(n, k, d)' = OwedPeer(n, k, d)
  BY <1>2 DEF OwedPeer, Bad
<1>11. buf' = UNION {OwedPeer(n, k, d)' : d \in Answered'}
  BY <1>2, <1>4, <1>7, <1>10
<1>12. Asking'
  BY <1>1, <1>2, <1>3, <1>4, <1>5, <1>7, <1>8, <1>11 DEF Asking
<1>13. QED
  BY <1>2, <1>6, <1>9, <1>12, PeersGoOn

\* A device that is being asked leaves flying.
LEMMA SlotGivenBack ==
    ASSUME Slots, NEW d \in flying, slots' = slots - 1, flying' = flying \ {d}
    PROVE  Slots'
<1>1. IsFiniteSet(flying') /\ Cardinality(flying') = Cardinality(flying) - 1
  BY FS_RemoveElement DEF Slots
<1>2. Cardinality(flying) \in Nat /\ Limit \in Nat
  BY FS_CardinalityType, WorldsAssumption DEF Slots
<1>3. QED
  BY <1>1, <1>2 DEF Slots

\* The answer of a device, or its failure, is what the device owes.
LEMMA EchoKeeps ==
    ASSUME CollectInv, phase = "peers", NEW d \in flying,
           NEW n, NEW k, n = cur, k = Kind, NEW gone, gone \subseteq
               {[conn |-> n, kind |-> k, list |-> k, at |-> d, how |-> "error"]},
           failed' = failed \cup gone,
           buf' = buf \cup (IF gone = {} THEN world.peers[n][k][d] ELSE {}),
           slots' = slots - 1, flying' = flying \ {d},
           UNCHANGED <<world, registry, phase, todo, cur, at, lists, page, part, errs,
                       next, all, last>>
    PROVE  CollectInv'
<1> DEFINE peers == world.peers[n][k]
           f0 == [conn |-> n, kind |-> k, list |-> k, at |-> d, how |-> "error"]
<1>1. /\ Slots /\ Running
      /\ n \in DOMAIN registry \ todo /\ registry = Configured(world)
      /\ AsksDevices(registry[n].type, k) /\ k \in Peers
      /\ Len(Names) \in Nat
      /\ DOMAIN peers = {e \in 1 .. Len(Names) : Names[e] # <<>>}
  BY DevicesBeingAsked
<1>2. /\ next \in 1 .. Len(Names) + 1
      /\ flying \subseteq {e \in DOMAIN peers : e < next}
      /\ buf = UNION {OwedPeer(n, k, e) : e \in Answered}
      /\ \A f \in failed : f.conn = n /\ f.kind = k =>
            f.list = k /\ f.how = "error" /\ f.at \in Answered
  BY <1>1 DEF Running, Asking
<1>3. Kind' = Kind /\ Names' = Names
  BY DEF Kind, Names
<1>4. FailsHere
  BY DEF FailsHere
<1>5. d \notin Answered /\ Answered' = Answered \cup {d}
  BY <1>1, <1>2, <1>3 DEF Answered
<1>6. k # "Device"
  BY <1>1 DEF Peers
<1>7. Bad(n, k, "Device", "error") = {} /\ Bad(n, k, "Device", "error")' = {}
  BY <1>2, <1>6 DEF Bad
<1>8. /\ \A f \in Bad(n, k, k, "error") : f.at # d
      /\ Bad(n, k, k, "error")' = Bad(n, k, k, "error") \cup gone
  BY <1>2, <1>5 DEF Bad
<1>9. OwedPeer(n, k, d)' = IF gone = {} THEN peers[d] ELSE {}
  <2>1. CASE gone = {}
    BY <1>7, <1>8, <2>1 DEF OwedPeer
  <2>2. CASE gone = {f0}
    BY <1>7, <1>8, <2>2 DEF OwedPeer
  <2>3. QED
    BY <2>1, <2>2
<1>10. \A e \in Answered : OwedPeer(n, k, e)' = OwedPeer(n, k, e)
  <2> SUFFICES ASSUME NEW e \in Answered PROVE OwedPeer(n, k, e)' = OwedPeer(n, k, e)
    OBVIOUS
  <2>1. e # d
    BY <1>5
  <2>2. (\E f \in Bad(n, k, k, "error")' : f.at = e) <=> (\E f \in Bad(n, k, k, "error") : f.at = e)
    BY <1>8, <2>1
  <2>3. QED
    BY <1>7, <2>2 DEF OwedPeer
<1>11. buf' = UNION {OwedPeer(n, k, e)' : e \in Answered'}
  <2> DEFINE before(e) == OwedPeer(n, k, e)
             after(e) == OwedPeer(n, k, e)'
  <2>1. /\ buf = UNION {before(e) : e \in Answered} /\ buf' = buf \cup after(d)
        /\ \A e \in Answered : after(e) = before(e)
    BY <1>2, <1>9, <1>10
  <2> HIDE DEF before, after
  <2>2. buf' = UNION {after(e) : e \in Answered'}
    BY <1>5, <2>1
  <2>3. QED
    BY <2>2 DEF after
<1>12. \A f \in failed' : f.conn = n /\ f.kind = k =>
          f.list = k /\ f.how = "error" /\ f.at \in Answered'
  BY <1>2, <1>5
<1>13. Asking'
  BY <1>1, <1>2, <1>3, <1>11, <1>12 DEF Asking
<1>14. Slots'
  BY <1>1, SlotGivenBack
<1>15. QED
  BY <1>4, <1>13, <1>14, PeersGoOn

\* The answer of a device, or the end of the process.
LEMMA EchoArrivesKeeps ==
    ASSUME CollectInv, NEW d \in flying, EchoArrives(d)
    PROVE  CollectInv'
<1>1. PICK n, k : n = cur /\ k = Kind
  OBVIOUS
<1>2. /\ phase = "peers" /\ slots' = slots - 1 /\ flying' = flying \ {d}
      /\ UNCHANGED <<world, registry, todo, cur, at, lists, page, part, errs, next,
                     all, failed, last>>
  BY DEF EchoArrives
<1>3. CASE Kind = "BGP" /\ BGPPanics(EchoOf(world, cur, Kind, d))
  <2>1. phase' = "crashed"
    BY <1>3 DEF EchoArrives
  <2>2. /\ Fits(world) /\ Slots /\ Running /\ n \in DOMAIN registry /\ registry = Configured(world)
        /\ at <= Len(registry[n].types) /\ AsksDevices(registry[n].type, k)
        /\ part = {} /\ errs = {}
    BY <1>1, <1>2, DevicesBeingAsked
  <2>3. Slots'
    BY <1>2, <2>2, SlotGivenBack
  <2>4. AsksNamed(world, n, k) /\ d \in DOMAIN world.peers[n][k]
    BY <1>1, <1>2, <2>2, NotAgain DEF Running, Asking, Calling
  <2>5. LET text == EchoOf(world, n, "BGP", d)
        IN BGPPanics(text) /\ \A line \in DOMAIN text : IsSeq(text[line].words)
    BY <1>1, <1>3, <2>2, <2>4 DEF AsksNamed
  <2>6. Kind' = "BGP"
    BY <1>2, <1>3 DEF Kind
  <2>7. EchoOf(world, n, "BGP", d)' = EchoOf(world, n, "BGP", d)
    BY <1>2 DEF EchoOf
  <2>8. Stopped'
    BY <1>1, <1>2, <1>3, <2>1, <2>2, <2>4, <2>5, <2>6, <2>7 DEF Stopped
  <2>9. QED
    BY <1>2, <2>1, <2>2, <2>3, <2>8 DEF CollectInv
<1>4. CASE ~(Kind = "BGP" /\ BGPPanics(EchoOf(world, cur, Kind, d)))
  <2>1. UNCHANGED phase /\ buf' = buf \cup world.peers[n][k][d]
    BY <1>1, <1>4 DEF EchoArrives
  <2>2. PICK gone : gone = {}
    OBVIOUS
  <2>3. QED
    BY <1>1, <1>2, <2>1, <2>2, EchoKeeps
<1>5. QED
  BY <1>3, <1>4

\* A device that does not answer owes nothing.
LEMMA EchoFailsKeeps ==
    ASSUME CollectInv, NEW d \in flying, EchoFails(d)
    PROVE  CollectInv'
<1>1. PICK n, k : n = cur /\ k = Kind
  OBVIOUS
<1>2. PICK gone : gone = {[conn |-> n, kind |-> k, list |-> k, at |-> d, how |-> "error"]}
  OBVIOUS
<1>3. /\ phase = "peers" /\ failed' = failed \cup gone
      /\ buf' = buf \cup {} /\ slots' = slots - 1 /\ flying' = flying \ {d}
      /\ UNCHANGED <<world, registry, phase, todo, cur, at, lists, page, part, errs,
                     next, all, last>>
  BY <1>1, <1>2 DEF EchoFails, Failure
<1>4. gone # {}
  BY <1>2
<1>5. buf' = buf \cup (IF gone = {} THEN world.peers[n][k][d] ELSE {})
  BY <1>3, <1>4
<1>6. QED
  BY <1>1, <1>2, <1>3, <1>5, EchoKeeps

\* When all have answered, the peers are those the type owes.
LEMMA WaitKeeps == CollectInv /\ Wait => CollectInv'
<1> SUFFICES ASSUME CollectInv, Wait PROVE CollectInv'
  OBVIOUS
<1>1. PICK n, k : n = cur /\ k = Kind
  OBVIOUS
<1>2. /\ phase = "peers" /\ next > Len(Names) /\ flying = {} /\ Return(buf, TRUE)
      /\ UNCHANGED <<world, registry, todo, cur, slots, flying, failed>>
  BY DEF Wait
<1>3. /\ Running /\ at <= Len(registry[n].types)
      /\ AsksDevices(registry[n].type, k) /\ k \in Peers
      /\ Len(Names) \in Nat
      /\ DOMAIN world.peers[n][k] = {e \in 1 .. Len(Names) : Names[e] # <<>>}
  BY <1>1, <1>2, DevicesBeingAsked
<1>4. next \in 1 .. Len(Names) + 1 /\ buf = UNION {OwedPeer(n, k, e) : e \in Answered}
  BY <1>1, <1>2, <1>3 DEF Running, Asking
<1>5. Answered = DOMAIN world.peers[n][k]
  BY <1>1, <1>2, <1>3, <1>4 DEF Answered
<1>6. Owed(n, k) = UNION {OwedPeer(n, k, e) : e \in DOMAIN world.peers[n][k]}
  BY <1>3 DEF Owed, AsksDevices, Supported
<1>7. Owed(n, k)' = Owed(n, k)
  BY <1>2 DEF Owed, OwedList, OwedPeer, Bad
<1>8. buf = Owed(n, k)'
  BY <1>4, <1>5, <1>6, <1>7
<1>9. FailsHere /\ SameWorld
  BY <1>2 DEF FailsHere, SameWorld
<1>10. QED
  BY <1>1, <1>2, <1>3, <1>8, <1>9, Returned DEF Calling

-----------------------------------------------------------------------------
(* The loop.                                                                *)

\* Steps of the loop between two Collects: nothing is owed more or less.
LEMMA LoopKeeps ==
    ASSUME Fits(world), Slots, Running, Place',
           \A n \in DOMAIN registry : Collected(n)' = Collected(n),
           phase \notin {"read", "peers"}, phase' \notin Calling,
           UNCHANGED <<world, registry, all, failed, slots, flying>>
    PROVE  CollectInv'
<1>1. Fits(world)' /\ Slots'
  BY DEF Slots
<1>2. \A n \in DOMAIN registry : \A kind : Owed(n, kind)' = Owed(n, kind)
  BY DEF Owed, OwedList, OwedPeer, Bad
<1>3. Gathered'
  <2>1. all = UNION {UNION {Owed(n, kind) : kind \in Collected(n)} : n \in DOMAIN registry}
    BY DEF Running, Gathered
  <2>2. all = UNION {UNION {Owed(n, kind)' : kind \in Collected(n)'} : n \in DOMAIN registry'}
    BY <1>2, <2>1
  <2>3. QED
    BY <2>2 DEF Gathered
<1>4. OwnFailures'
  BY DEF Running, OwnFailures
<1>5. Reading' /\ Asking'
  BY DEF Reading, Asking, Calling
<1>6. QED
  BY <1>1, <1>3, <1>4, <1>5 DEF CollectInv, Running

\* The connectors are created: none has been asked.
LEMMA CreateKeeps == CollectInv /\ CreateFromConfig => CollectInv'
<1> SUFFICES ASSUME CollectInv, CreateFromConfig PROVE CollectInv'
  OBVIOUS
<1>1. /\ phase = "start" /\ Fits(world) /\ Slots /\ Running
      /\ registry = <<>> /\ todo \subseteq DOMAIN registry /\ cur = NoOne
      /\ lists = <<>> /\ part = {} /\ errs = {} /\ buf = {} /\ flying = {}
  BY DEF CreateFromConfig, CollectInv, Running, Stopped, Place, Calling
<1>2. UNCHANGED <<world, cur, at, lists, page, part, buf, errs, next, slots, flying,
                  all, failed, last>>
  BY DEF CreateFromConfig, call
<1>3. DOMAIN registry = {}
  BY <1>1
<1>4. CASE registry' = Configured(world) /\ todo' = DOMAIN Configured(world) /\ phase' = "pick"
  <2>1. Place'
    BY <1>1, <1>2, <1>4 DEF Place, Calling
  <2>2. \A n \in DOMAIN registry' : Collected(n)' = {}
    BY <1>1, <1>2, <1>4 DEF Collected, Fits
  <2>3. all = {} /\ failed = {}
    BY <1>1, <1>3 DEF Running, Gathered, OwnFailures
  <2>4. Gathered'
    <3>1. {} = UNION {UNION {Owed(n, kind)' : kind \in Collected(n)'} : n \in DOMAIN registry'}
      BY <2>2
    <3>2. QED
      BY <1>2, <2>3, <3>1 DEF Gathered
  <2>5. OwnFailures' /\ Reading' /\ Asking' /\ Fits(world)' /\ Slots'
    BY <1>1, <1>2, <1>4, <2>3 DEF OwnFailures, Reading, Asking, Slots
  <2>6. QED
    BY <2>1, <2>4, <2>5 DEF CollectInv, Running
<1>5. CASE phase' = "exited" /\ UNCHANGED <<registry, todo>>
  <2>1. Place'
    BY <1>1, <1>2, <1>5 DEF Place, Calling
  <2>2. QED
    BY <1>1, <1>2, <1>3, <1>5, <2>1, LoopKeeps DEF Calling
<1>6. QED
  BY <1>4, <1>5 DEF CreateFromConfig

\* A connector is taken up: none of its types has been collected.
LEMMA PickKeeps == CollectInv /\ PickConnector => CollectInv'
<1> SUFFICES ASSUME CollectInv, PickConnector PROVE CollectInv'
  OBVIOUS
<1>1. PICK m \in todo : cur' = m /\ todo' = todo \ {m}
  BY DEF PickConnector
<1>2. /\ phase = "pick" /\ at' = 1 /\ phase' = "types"
      /\ UNCHANGED <<world, registry, lists, page, part, buf, errs, next, slots, flying,
                     all, failed, last>>
  BY DEF PickConnector, call
<1>3. /\ Fits(world) /\ Slots /\ Running
      /\ registry = Configured(world) /\ todo \subseteq DOMAIN registry /\ cur = NoOne
      /\ lists = <<>> /\ part = {} /\ errs = {} /\ buf = {} /\ flying = {}
  BY <1>2 DEF CollectInv, Running, Stopped, Place, Calling
<1>4. Len(registry[m].types) \in Nat /\ m # cur
  BY <1>1, <1>3, SeqFacts DEF Fits
<1>5. Place'
  BY <1>1, <1>2, <1>3, <1>4 DEF Place, Calling
<1>6. \A n \in DOMAIN registry : Collected(n)' = Collected(n)
  <2> SUFFICES ASSUME NEW n \in DOMAIN registry PROVE Collected(n)' = Collected(n)
    OBVIOUS
  <2>1. n # cur
    BY <1>3 DEF Fits
  <2>2. CASE n = m
    <3>1. Collected(n) = {} /\ Collected(n)' = {registry[n].types[i] : i \in 1 .. 1 - 1}
      BY <1>1, <1>2, <2>1, <2>2 DEF Collected
    <3>2. QED
      BY <3>1
  <2>3. CASE n # m
    BY <1>1, <1>2, <2>1, <2>3 DEF Collected
  <2>4. QED
    BY <2>2, <2>3
<1>7. QED
  BY <1>2, <1>3, <1>5, <1>6, LoopKeeps DEF Calling

\* A connector is left: all of its types have been collected.
LEMMA NextConnectorKeeps == CollectInv /\ NextConnector => CollectInv'
<1> SUFFICES ASSUME CollectInv, NextConnector PROVE CollectInv'
  OBVIOUS
<1>1. /\ phase = "types" /\ at > Len(registry[cur].types)
      /\ phase' = IF todo = {} THEN "done" ELSE "pick"
      /\ cur' = NoOne
      /\ UNCHANGED <<world, registry, todo, at, lists, page, part, buf, errs, next, slots,
                     flying, all, failed, last>>
  BY DEF NextConnector, call
<1>2. /\ Fits(world) /\ Slots /\ Running
      /\ registry = Configured(world) /\ todo \subseteq DOMAIN registry
      /\ cur \in DOMAIN registry \ todo
      /\ at \in Nat \ {0} /\ at <= Len(registry[cur].types) + 1
      /\ lists = <<>> /\ part = {} /\ errs = {} /\ buf = {} /\ flying = {}
  BY <1>1 DEF CollectInv, Running, Stopped, Place, Calling
<1>3. Place'
  BY <1>1, <1>2 DEF Place, Calling
<1>4. Collected(cur) = ToSet(registry[cur].types)
  <2>1. /\ Len(registry[cur].types) \in Nat
        /\ DOMAIN registry[cur].types = 1 .. Len(registry[cur].types)
    BY <1>2, SeqFacts DEF Fits
  <2>2. 1 .. at - 1 = DOMAIN registry[cur].types
    BY <1>1, <1>2, <2>1
  <2>3. QED
    BY <2>2 DEF Collected, ToSet
<1>5. \A n \in DOMAIN registry : Collected(n)' = Collected(n)
  <2> SUFFICES ASSUME NEW n \in DOMAIN registry PROVE Collected(n)' = Collected(n)
    OBVIOUS
  <2>1. n # cur'
    BY <1>1, <1>2 DEF Fits
  <2>2. Collected(n)' = IF n \in todo THEN {} ELSE ToSet(registry[n].types)
    BY <1>1, <2>1 DEF Collected
  <2>3. CASE n = cur
    BY <1>2, <1>4, <2>2, <2>3
  <2>4. CASE n # cur
    BY <2>2, <2>4 DEF Collected
  <2>5. QED
    BY <2>3, <2>4
<1>6. QED
  BY <1>1, <1>2, <1>3, <1>5, LoopKeeps DEF Calling

-----------------------------------------------------------------------------
(* The theorems.                                                            *)

\* Nothing is gathered and nothing owed at the start.
LEMMA CollectStarts == WorldsApart /\ Init => CollectInv
<1> SUFFICES ASSUME WorldsApart, Init PROVE CollectInv
  OBVIOUS
<1>1. Fits(world)
  BY WorldFits DEF Init
<1>2. registry = <<>> /\ slots = 0 /\ flying = {}
  BY DEF Init
<1>3. Slots
  <2>1. Limit \in Nat
    BY WorldsAssumption
  <2>2. IsFiniteSet({}) /\ Cardinality({}) = 0
    BY FS_EmptySet
  <2>3. QED
    BY <1>2, <2>1, <2>2 DEF Slots
<1>4. Place
  BY DEF Init, Place, Calling
<1>5. Gathered /\ OwnFailures
  <2>1. DOMAIN registry = {}
    BY <1>2
  <2>2. QED
    BY <2>1 DEF Init, Gathered, OwnFailures
<1>6. Reading /\ Asking
  BY DEF Init, Reading, Asking
<1>7. QED
  BY <1>1, <1>3, <1>4, <1>5, <1>6 DEF CollectInv, Running

\* A step that changes nothing.
LEMMA StutterKeeps == CollectInv /\ UNCHANGED vars => CollectInv'
<1> SUFFICES ASSUME CollectInv, UNCHANGED vars PROVE CollectInv'
  OBVIOUS
<1>1. UNCHANGED <<world, registry, phase, todo, cur, at, lists, page, part, buf, errs,
                  next, slots, flying, all, failed>>
  BY DEF vars, call
<1>2. (Fits(world) /\ Slots /\ Stopped)' = (Fits(world) /\ Slots /\ Stopped)
  BY <1>1 DEF Slots, Stopped, Kind, EchoOf
<1>3. Place' = Place
  BY <1>1 DEF Place
<1>4. /\ \A n : Collected(n)' = Collected(n)
      /\ \A n, kind : Owed(n, kind)' = Owed(n, kind)
      /\ \A n, kind, list : OwedList(n, kind, list)' = OwedList(n, kind, list)
      /\ \A n, kind, d : OwedPeer(n, kind, d)' = OwedPeer(n, kind, d)
      /\ Kind' = Kind /\ Names' = Names
  BY <1>1 DEF Collected, Owed, OwedList, OwedPeer, Bad, Kind, Names
<1>5. Gathered' = Gathered /\ OwnFailures' = OwnFailures
  BY <1>1, <1>4 DEF Gathered, OwnFailures
<1>6. ReadLists' = ReadLists /\ Answered' = Answered
  BY <1>1, <1>4 DEF ReadLists, Answered
<1>7. Reading' = Reading /\ Asking' = Asking
  BY <1>1, <1>4, <1>6 DEF Reading, Asking
<1>8. QED
  BY <1>1, <1>2, <1>3, <1>5, <1>7 DEF CollectInv, Running, Slots, Stopped

\* The invariant holds of every run.
THEOREM CollectSafe == ASSUME WorldsApart PROVE Spec => []CollectInv
<1>1. Init => CollectInv
  BY CollectStarts
<1>2. CollectInv /\ [Next]_vars => CollectInv'
  <2> SUFFICES ASSUME CollectInv, [Next]_vars PROVE CollectInv'
    OBVIOUS
  <2>1. CASE CreateFromConfig \/ PickConnector \/ NextConnector
    BY <2>1, CreateKeeps, PickKeeps, NextConnectorKeeps
  <2>2. CASE Collect \/ PageAnswers \/ PageFails \/ PageRefused
    BY <2>2, CollectKeeps, PageAnswersKeeps, PageFailsKeeps, PageRefusedKeeps
  <2>3. CASE DevicesFail \/ DevicesAnswer \/ Launch \/ Wait
    BY <2>3, DevicesFailKeeps, DevicesAnswerKeeps, LaunchKeeps, WaitKeeps
  <2>4. CASE \E d \in flying : EchoArrives(d) \/ EchoFails(d)
    BY <2>4, EchoArrivesKeeps, EchoFailsKeeps
  <2>5. CASE UNCHANGED vars
    BY <2>5, StutterKeeps
  <2>6. QED
    BY <2>1, <2>2, <2>3, <2>4, <2>5 DEF Next
<1>3. QED
  BY <1>1, <1>2, PTL DEF Spec

\* A failing request costs what it was to bring and nothing else, for any
\* configuration, sources and failures.
THEOREM FailuresAreIsolated == ASSUME WorldsApart PROVE Spec => []FailureIsolated
<1>1. CollectInv => FailureIsolated
  <2> SUFFICES ASSUME CollectInv, phase = "done"
               PROVE  all = UNION {UNION {Owed(n, kind) : kind \in ToSet(registry[n].types)} :
                                      n \in DOMAIN registry}
    BY DEF FailureIsolated
  <2>1. Fits(world) /\ Running
    BY DEF CollectInv, Stopped
  <2>2. todo = {} /\ cur = NoOne /\ registry = Configured(world)
    BY <2>1 DEF Running, Place
  <2>3. \A n \in DOMAIN registry : Collected(n) = ToSet(registry[n].types)
    BY <2>1, <2>2 DEF Collected, Fits
  <2>4. QED
    BY <2>1, <2>3 DEF Running, Gathered
<1>2. QED
  BY <1>1, CollectSafe, PTL

\* The semaphore: no more devices are asked at once than Limit, the slots in use
\* are theirs, and none is asked once its Collect has returned.
THEOREM SlotsAreKept == ASSUME WorldsApart PROVE Spec => []TypeOK
<1>1. CollectInv => TypeOK
  <2> SUFFICES ASSUME CollectInv PROVE TypeOK
    OBVIOUS
  <2>1. CASE Running
    <3>1. /\ phase \in {"start", "pick", "types", "read", "devices", "peers", "done", "exited"}
          /\ part # {} => phase = "read"
      BY <2>1 DEF Running, Place, Calling
    <3>2. flying # {} => phase = "peers" /\ Kind \in Peers
      BY <2>1 DEF Running, Place, Asking, AsksDevices
    <3>3. errs \subseteq {"L3", "L2"}
      BY <2>1 DEF Running, Place, Reading
    <3>4. QED
      BY <3>1, <3>2, <3>3 DEF CollectInv, Slots, TypeOK
  <2>2. CASE Stopped
    BY <2>2 DEF CollectInv, Stopped, Slots, TypeOK, Peers
  <2>3. QED
    BY <2>1, <2>2 DEF CollectInv
<1>2. QED
  BY <1>1, CollectSafe, PTL

\* Only a BGP row of seven words ends the process, whatever the devices answer.
THEOREM CrashesHaveACause == ASSUME WorldsApart PROVE Spec => []CrashCause
<1>1. CollectInv => CrashCause
  <2> SUFFICES ASSUME CollectInv, phase = "crashed"
               PROVE  \E d \in DOMAIN world.peers[cur]["BGP"] :
                         LET text == EchoOf(world, cur, "BGP", d)
                         IN \E i \in DOMAIN text : Len(text[i].words) = 7
    BY DEF CrashCause
  <2>1. Stopped
    BY DEF CollectInv, Running, Place, Calling
  <2>2. PICK d \in DOMAIN world.peers[cur]["BGP"] :
           LET text == EchoOf(world, cur, "BGP", d)
           IN BGPPanics(text) /\ \A line \in DOMAIN text : IsSeq(text[line].words)
    BY <2>1 DEF Stopped
  <2> DEFINE text == EchoOf(world, cur, "BGP", d)
  <2>3. BGPPanics(text) /\ \A line \in DOMAIN text : IsSeq(text[line].words)
    BY <2>2
  <2> HIDE DEF text
  <2>4. PICK i \in DOMAIN text : Len(text[i].words) >= 7 /\ Len(text[i].words) < 8
    BY <2>3 DEF BGPPanics, BGPRows, RowWords
  <2>5. Len(text[i].words) \in Nat
    BY <2>3, SeqFacts
  <2>6. Len(text[i].words) = 7
    <3>1. \A m \in Nat : m >= 7 /\ m < 8 => m = 7
      OBVIOUS
    <3>2. QED
      BY <2>4, <2>5, <3>1
  <2>7. QED
    BY <2>6 DEF text
<1>2. QED
  BY <1>1, CollectSafe, PTL

-----------------------------------------------------------------------------
(* Induction.                                                               *)

\* Induction over an interval, from the pigeonhole principle: if D has 0 and
\* with each number below n the next one, but not n, then going one up in D is
\* an injection of 0 .. n into 1 .. n.
LEMMA Climbed ==
    ASSUME NEW n \in Nat, NEW D, 0 \in D, \A k \in 0 .. n - 1 : k \in D => k + 1 \in D
    PROVE  n \in D
<1> SUFFICES ASSUME n \notin D PROVE FALSE
  OBVIOUS
<1> DEFINE f == [x \in 0 .. n |-> IF x \in D THEN x + 1 ELSE x]
<1>1. f \in [0 .. n -> 1 .. n]
  <2> SUFFICES ASSUME NEW x \in 0 .. n
               PROVE  (IF x \in D THEN x + 1 ELSE x) \in 1 .. n
    OBVIOUS
  <2>1. x \in D => x # n
    OBVIOUS
  <2>2. x \notin D => x # 0
    OBVIOUS
  <2>3. QED
    BY <2>1, <2>2
<1>2. /\ IsFiniteSet(0 .. n) /\ IsFiniteSet(1 .. n)
      /\ Cardinality(1 .. n) < Cardinality(0 .. n)
  <2>1. 0 \in Int /\ 1 \in Int /\ n \in Int
    OBVIOUS
  <2>2. IsFiniteSet(0 .. n) /\ Cardinality(0 .. n) = IF 0 > n THEN 0 ELSE n - 0 + 1
    BY <2>1, FS_Interval
  <2>3. IsFiniteSet(1 .. n) /\ Cardinality(1 .. n) = IF 1 > n THEN 0 ELSE n - 1 + 1
    BY <2>1, FS_Interval
  <2>4. QED
    BY <2>2, <2>3
<1>3. \A x \in 0 .. n : f[x] = IF x \in D THEN x + 1 ELSE x
  OBVIOUS
<1>4. PICK x, y \in 0 .. n : x # y /\ f[x] = f[y]
  <2> HIDE DEF f
  <2>1. QED
    BY <1>1, <1>2, FS_PigeonHole
<1>5. QED
  <2> HIDE DEF f
  <2>1. (x \in D /\ y \notin D) \/ (x \notin D /\ y \in D)
    BY <1>3, <1>4
  <2>2. x \in Int /\ y \in Int
    OBVIOUS
  <2>3. ASSUME x \in D, y \notin D PROVE FALSE
    BY <1>3, <1>4, <2>2, <2>3
  <2>4. ASSUME y \in D, x \notin D PROVE FALSE
    BY <1>3, <1>4, <2>2, <2>4
  <2>5. QED
    BY <2>1, <2>3, <2>4

-----------------------------------------------------------------------------
(* The transforms.                                                          *)

\* The words of a table are the second ones of its pairs.
LEMMA WordsAre ==
    ASSUME NEW pairs, NEW v \in DOMAIN Words(pairs)
    PROVE  \E p \in pairs : Words(pairs)[v] = <<p[2]>>
  BY DEF Words

\* A property of Rename is what the field it is read from becomes.
LEMMA RenameGives ==
    ASSUME NEW raw, NEW table, NEW f \in DOMAIN Rename(raw, table)
    PROVE  /\ f \in DOMAIN table
           /\ Rename(raw, table)[f] = Translated(raw[table[f].from], table[f])
           /\ table[f].any \/ raw[table[f].from].t = "string"
  BY DEF Rename

\* A status is translated to Up or Down, whatever the source calls it.
LEMMA StatusGiven ==
    ASSUME NEW raw, NEW table, NEW field, NEW default \in {"Up", "Down"},
           table["status"] = mapStatus(field, default),
           "status" \in DOMAIN Rename(raw, table)
    PROVE  Rename(raw, table)["status"] \in {Text("Up"), Text("Down")}
<1> DEFINE rule == mapStatus(field, default)
           val == raw[field]
<1>1. /\ rule.from = field /\ rule.any = FALSE
      /\ rule.known = statusMap /\ rule.other = <<default>>
  BY DEF mapStatus, Translate, Take
<1>2. \A v \in DOMAIN statusMap : statusMap[v] \in {<<"Up">>, <<"Down">>}
  BY DEF statusMap, Words
<1> HIDE DEF rule
<1>3. Rename(raw, table)["status"] = Translated(val, rule) /\ val.t = "string"
  BY <1>1, RenameGives DEF rule
<1>4. <<default>> # <<>>
  OBVIOUS
<1>5. Translated(val, rule) \in {[t |-> "string", v |-> <<"Up">>], [t |-> "string", v |-> <<"Down">>]}
  <2>1. CASE val.v \in DOMAIN statusMap
    BY <1>1, <1>2, <1>3, <2>1 DEF Translated
  <2>2. CASE val.v \notin DOMAIN statusMap
    BY <1>1, <1>3, <1>4, <2>2 DEF Translated
  <2>3. QED
    BY <2>1, <2>2
<1>6. QED
  BY <1>3, <1>5 DEF Text

TranslatedFields == {"status", "state", "level"}

\* The words the transforms of the controller write into a kind's fields.
Vocabulary(kind) ==
    CASE kind = "ISIS" -> [status |-> {"Active", "Inactive"}, level |-> {"L1", "L2", "L1L2"}]
      [] kind = "BGP" -> [state |-> {"Established", "Connect", "Idle", "Active", "OpenSent",
                                     "OpenConfirm"}]
      [] kind = "Alarm" -> <<>>
      [] OTHER -> [status |-> {"Up", "Down"}]

\* The status, state and level of the properties are of the kind's vocabulary.
Speaks(kind, props) ==
    \A f \in TranslatedFields \cap DOMAIN props :
        /\ f \in DOMAIN Vocabulary(kind)
        /\ \E word \in Vocabulary(kind)[f] : props[f] = Text(word)

\* With a status that is Up or Down and none of the other two, they are.
LEMMA SpeaksStatus ==
    ASSUME NEW kind \in {"Device", "Interface", "Link", "Tunnel", "VPN"}, NEW props,
           "state" \notin DOMAIN props, "level" \notin DOMAIN props,
           "status" \in DOMAIN props => props["status"] \in {Text("Up"), Text("Down")}
    PROVE  Speaks(kind, props)
<1>1. Vocabulary(kind) = [status |-> {"Up", "Down"}]
  BY DEF Vocabulary
<1>2. QED
  BY <1>1 DEF Speaks, TranslatedFields

\* A device has the status of the table, and no other of the three fields.
LEMMA DeviceSpeaks == ASSUME NEW raw PROVE Speaks("Device", transformDevice(raw))
<1> PICK table : /\ transformDevice(raw) = Rename(raw, table)
                 /\ DOMAIN table = {"serial_number", "hostname", "vendor", "model", "management_ip",
                        "status", "device_type", "alias", "platform", "as_number", "version", "pop_id"}
                 /\ table["status"] = mapStatus("connect-status", "Up")
  BY DEF transformDevice
<1> QED
  BY RenameGives, StatusGiven, SpeaksStatus

\* An interface, with the name of its device.
LEMMA InterfaceSpeaks ==
    ASSUME NEW name, NEW port PROVE Speaks("Interface", transformInterface(name, port))
<1>1. PICK table : /\ transformInterface(name, port) = With(Rename(port, table), [device_serial |-> name])
                   /\ DOMAIN table = {"if_name", "status", "bandwidth", "description", "port_type",
                                      "port_speed", "ipv4_address"}
                   /\ table["status"] = mapStatus("status", "Up")
  BY DEF transformInterface
<1> DEFINE r == Rename(port, table)
           p == With(r, [device_serial |-> name])
<1>2. "state" \notin DOMAIN r /\ "level" \notin DOMAIN r
  BY <1>1, RenameGives
<1>3. "status" \in DOMAIN r => r["status"] \in {Text("Up"), Text("Down")}
  BY <1>1, StatusGiven
<1> HIDE DEF r
<1>4. /\ "state" \notin DOMAIN p /\ "level" \notin DOMAIN p
      /\ "status" \in DOMAIN p => "status" \in DOMAIN r /\ p["status"] = r["status"]
  BY <1>2 DEF With
<1> HIDE DEF p
<1>5. Speaks("Interface", p)
  BY <1>3, <1>4, SpeaksStatus
<1>6. QED
  BY <1>1, <1>5 DEF p, r

\* A link.
LEMMA LinkSpeaks == ASSUME NEW raw PROVE Speaks("Link", transformLink(raw))
<1> PICK table : /\ transformLink(raw) = Rename(raw, table)
                 /\ DOMAIN table = {"link_id", "name", "bandwidth", "status", "link_type",
                        "utilization_ratio", "delay", "loss", "jitter", "source_node", "source_tp",
                        "dest_node", "dest_tp"}
                 /\ table["status"] = mapStatus("link-status", "Up")
  BY DEF transformLink
<1> QED
  BY RenameGives, StatusGiven, SpeaksStatus

\* An alarm has none of the three: its level becomes the severity.
LEMMA AlarmSpeaks == ASSUME NEW raw PROVE Speaks("Alarm", transformAlarm(raw))
<1>1. DOMAIN transformAlarm(raw) \subseteq {"alarm_id", "severity", "message", "timestamp", "source",
                                          "category", "component", "recovery_time"}
  BY DEF transformAlarm, Rename
<1>2. QED
  BY <1>1 DEF Speaks, TranslatedFields

\* A tunnel, with its number of paths and the name of the first.
LEMMA TunnelSpeaks == ASSUME NEW raw PROVE Speaks("Tunnel", transformTunnel(raw))
<1>1. PICK table, more :
         /\ transformTunnel(raw) = With(Rename(raw, table), more)
         /\ DOMAIN table = {"tunnel_id", "name", "status", "src_device", "dst_device", "vpn_id"}
         /\ table["status"] = mapStatus("cfg-status", "Down")
         /\ DOMAIN more \subseteq {"path_count", "tunnel_name"}
  <2> DEFINE paths == FlattenSeq([i \in DOMAIN Items(raw, "te-tuples") |->
                         Items(Items(raw, "te-tuples")[i], "explicit-tunnel")])
             named == SelectSeq(paths, LAMBDA p : Present(p, "tunnel-name"))
             count == [path_count |-> Number(ToString(Len(paths)))]
             name == IF named = <<>> THEN <<>> ELSE [tunnel_name |-> named[1]["tunnel-name"]]
             table == [tunnel_id |-> Take("instance-id"), name |-> Take("policy-template-name"),
                       status |-> mapStatus("cfg-status", "Down"),
                       src_device |-> Take("te-policy-targets.src-device"),
                       dst_device |-> Take("te-policy-targets.dst-device"),
                       vpn_id |-> Take("te-policy-targets.l3-vpn-id")]
  <2>1. transformTunnel(raw) = With(Rename(raw, table), With(count, name))
    BY DEF transformTunnel
  <2>2. /\ DOMAIN table = {"tunnel_id", "name", "status", "src_device", "dst_device", "vpn_id"}
        /\ table["status"] = mapStatus("cfg-status", "Down")
    OBVIOUS
  <2>3. DOMAIN name \subseteq {"tunnel_name"} /\ DOMAIN count = {"path_count"}
    <3>1. DOMAIN <<>> = {}
      OBVIOUS
    <3> HIDE DEF named
    <3>2. QED
      BY <3>1
  <2> HIDE DEF table, name, count
  <2>4. DOMAIN With(count, name) \subseteq {"path_count", "tunnel_name"}
    BY <2>3 DEF With
  <2>5. QED
    BY <2>1, <2>2, <2>4
<1> DEFINE r == Rename(raw, table)
           p == With(r, more)
<1>2. "state" \notin DOMAIN r /\ "level" \notin DOMAIN r
  BY <1>1, RenameGives
<1>3. "status" \in DOMAIN r => r["status"] \in {Text("Up"), Text("Down")}
  BY <1>1, StatusGiven
<1> HIDE DEF r
<1>4. /\ "state" \notin DOMAIN p /\ "level" \notin DOMAIN p
      /\ "status" \in DOMAIN p => "status" \in DOMAIN r /\ p["status"] = r["status"]
  BY <1>1, <1>2 DEF With
<1> HIDE DEF p
<1>5. Speaks("Tunnel", p)
  BY <1>3, <1>4, SpeaksStatus
<1>6. QED
  BY <1>1, <1>5 DEF p, r

\* A VPN of either layer.
LEMMA VPNSpeaks == ASSUME NEW raw, NEW type PROVE Speaks("VPN", transformVPN(raw, type))
<1>1. PICK table :
         LET r == Rename(raw, table)
         IN /\ DOMAIN transformVPN(raw, type) = DOMAIN r
            /\ \A f \in DOMAIN r : f # "topology" => transformVPN(raw, type)[f] = r[f]
            /\ DOMAIN table = {"vpn_id", "name", "svc_type", "tunnel_type", "topology", "site_count",
                               "sna_count", "status", "create_time", "update_time"}
            /\ table["status"] = mapStatus("pre-create-status", "Up")
  BY DEF transformVPN
<1> DEFINE r == Rename(raw, table)
           p == transformVPN(raw, type)
<1>2. "state" \notin DOMAIN r /\ "level" \notin DOMAIN r
  BY <1>1, RenameGives
<1>3. "status" \in DOMAIN r => r["status"] \in {Text("Up"), Text("Down")}
  BY <1>1, StatusGiven
<1>4. DOMAIN p = DOMAIN r /\ \A f \in DOMAIN r : f # "topology" => p[f] = r[f]
  BY <1>1
<1> HIDE DEF r, p
<1>5. Speaks("VPN", p)
  BY <1>2, <1>3, <1>4, SpeaksStatus
<1>6. QED
  BY <1>5 DEF p

\* The key of a peer is the name, the separator and what tells its neighbours apart.
LEMMA PeerIdText == ASSUME NEW name, NEW val PROVE PeerId(name, val).v = name \o <<Separator>> \o val.v
<1>1. \A x : [t |-> "string", v |-> x].v = x
  OBVIOUS
<1>2. QED
  BY <1>1 DEF PeerId

\* The state of a session is one of the six of the ontology's finite state machine.
LEMMA BGPSpeaks ==
    ASSUME NEW name, NEW text, NEW peer \in ParseBGPText(text)
    PROVE  /\ Speaks("BGP", transformBGPPeer(name, peer))
           /\ \E w : transformBGPPeer(name, peer)["bgp_id"].v = name \o <<Separator>> \o <<w>>
<1> DEFINE States == Vocabulary("BGP")["state"]
           q == [peer EXCEPT !["state"].v = mapBGPState(@)]
           p == With(q, [bgp_id |-> PeerId(name, peer["peer_ip"])])
<1>1. /\ DOMAIN Vocabulary("BGP") = {"state"}
      /\ States = {"Established", "Connect", "Idle", "Active", "OpenSent", "OpenConfirm"}
  BY DEF Vocabulary
<1>2. ASSUME NEW val PROVE \E word \in States : mapBGPState(val) = <<word>>
  <2>1. val \in DOMAIN bgpStateMap => \E word \in States : bgpStateMap[val] = <<word>>
    BY <1>1 DEF bgpStateMap, Words
  <2> DEFINE pairs == {<<"established", "Established">>, <<"connect", "Connect">>,
                        <<"idle", "Idle">>, <<"active", "Active">>,
                        <<"opensent", "OpenSent">>, <<"openconfirm", "OpenConfirm">>}
             lower == Words(pairs)
  <2>2. val \in DOMAIN lower => \E word \in States : lower[val] = <<word>>
    <3>1. \A pr \in pairs : pr[2] \in States
      BY <1>1
    <3> HIDE DEF pairs
    <3>2. QED
      BY <3>1, WordsAre
  <2> HIDE DEF lower
  <2>3. mapBGPState(val) = CASE val \in DOMAIN bgpStateMap -> bgpStateMap[val]
                             [] val \in {<<s>> : s \in States} -> val
                             [] val \in DOMAIN lower -> lower[val]
                             [] OTHER -> <<"Connect">>
    <3>1. States = {"Established", "Connect", "Idle", "Active", "OpenSent", "OpenConfirm"}
      BY <1>1
    <3>2. QED
      BY ONLY <3>1 DEF mapBGPState, lower
  <2>4. QED
    BY <1>1, <2>1, <2>2, <2>3
<1>3. PICK w : /\ DOMAIN peer = {"peer_ip", "peer_as", "uptime", "state", "router_id", "local_as"}
               /\ peer["peer_ip"] = Text(w[1]) /\ peer["state"] = Text(w[Len(w)])
  <2> DEFINE Peer(w) ==
          [peer_ip |-> Text(w[1]), peer_as |-> Atoi(w[2]), uptime |-> Text(w[7]),
           state |-> Text(w[Len(w)]),
           router_id |-> String(extractBGPField(text, "router")),
           local_as |-> Atoi(extractBGPField(text, "as"))]
  <2>1. PICK row \in BGPRows(text) : peer = Peer(row.words)
    BY DEF ParseBGPText
  <2>2. QED
    BY <2>1
<1>4. /\ DOMAIN q = DOMAIN peer /\ q["peer_ip"] = peer["peer_ip"]
      /\ q["state"] = [t |-> "string", v |-> mapBGPState(<<w[Len(w)]>>)]
  BY <1>3 DEF Text
<1>5. PICK word \in States : q["state"] = Text(word)
  BY <1>2, <1>4 DEF Text
<1> HIDE DEF q, States
<1>6. /\ "status" \notin DOMAIN p /\ "level" \notin DOMAIN p
      /\ p["state"] = q["state"]
      /\ p["bgp_id"] = PeerId(name, peer["peer_ip"])
  BY <1>3, <1>4 DEF With
<1> HIDE DEF p
<1>7. Speaks("BGP", p)
  BY <1>1, <1>5, <1>6 DEF Speaks, TranslatedFields, States
<1>8. p["bgp_id"].v = name \o <<Separator>> \o <<w[1]>>
  <2>1. peer["peer_ip"].v = <<w[1]>>
    BY <1>3 DEF Text
  <2>2. p["bgp_id"].v = name \o <<Separator>> \o peer["peer_ip"].v
    BY ONLY <1>6, PeerIdText
  <2>3. QED
    BY <2>1, <2>2
<1>9. QED
  BY <1>7, <1>8 DEF p, q, transformBGPPeer

\* The id of the process, from the title.
ProcessOf(text) ==
    LET titles == SelectSeq(text, LAMBDA l : l.kind = "title")
    IN IF titles = <<>> THEN "" ELSE titles[1].words[1]

\* The block after each pair of a line; such blocks exist, and the last is the outcome.
PairBlocks(g, current, pairs) ==
    /\ g[0] = current
    /\ \A n \in 1 .. Len(pairs) : g[n] = setISISField(g[n - 1], pairs[n][1], pairs[n][2])

\* ReadPairs, without its function: the block after the last pair.
LEMMA PairsRead ==
    ASSUME NEW pairs, IsSeq(pairs), NEW current
    PROVE  \E g : PairBlocks(g, current, pairs) /\ ReadPairs(current, pairs) = g[Len(pairs)]
<1> DEFINE m == Len(pairs)
           Upto(g, l) == g = [n \in 0 .. l |-> IF n = 0 THEN current
                                               ELSE setISISField(g[n - 1], pairs[n][1], pairs[n][2])]
           D == {l \in 0 .. m : \E g : Upto(g, l)}
<1>1. m \in Nat
  BY SeqFacts
<1>2. 0 \in D
  <2>1. \E g : Upto(g, 0)
    <3>1. Upto([n \in 0 .. 0 |-> current], 0)
      OBVIOUS
    <3> HIDE DEF Upto
    <3>2. QED
      BY <3>1
  <2> HIDE DEF Upto
  <2>2. QED
    BY <1>1, <2>1
<1>3. ASSUME NEW l \in 0 .. m - 1, l \in D PROVE l + 1 \in D
  <2>1. PICK g : Upto(g, l)
    BY <1>3
  <2>2. l \in Nat /\ l + 1 \in 0 .. m /\ l \in 0 .. l
    BY <1>1
  <2> DEFINE h == [n \in 0 .. l + 1 |->
                      IF n \in 0 .. l THEN g[n]
                      ELSE setISISField(g[l], pairs[l + 1][1], pairs[l + 1][2])]
  <2>3. ASSUME NEW n \in 0 .. l + 1
        PROVE  h[n] = IF n = 0 THEN current ELSE setISISField(h[n - 1], pairs[n][1], pairs[n][2])
    <3>1. CASE n = 0
      BY <2>1, <2>2, <3>1
    <3>2. CASE n # 0 /\ n \in 0 .. l
      <4>1. n - 1 \in 0 .. l /\ n - 1 \in 0 .. l + 1
        BY <2>2, <3>2
      <4>2. h[n] = g[n] /\ h[n - 1] = g[n - 1]
        BY <3>2, <4>1
      <4>3. g[n] = setISISField(g[n - 1], pairs[n][1], pairs[n][2])
        BY <2>1, <3>2
      <4>4. QED
        BY <3>2, <4>2, <4>3
    <3>3. CASE n \notin 0 .. l
      <4>1. n = l + 1 /\ n - 1 = l /\ n # 0 /\ l \in 0 .. l + 1
        BY <2>2, <3>3
      <4>2. h[n] = setISISField(g[l], pairs[n][1], pairs[n][2]) /\ h[l] = g[l]
        BY <2>2, <3>3, <4>1
      <4>3. QED
        BY <4>1, <4>2
    <3>4. QED
      BY <3>1, <3>2, <3>3
  <2>4. h = [n \in 0 .. l + 1 |-> h[n]]
    OBVIOUS
  <2> HIDE DEF h
  <2>5. Upto(h, l + 1)
    BY <2>3, <2>4
  <2>6. QED
    BY <2>2, <2>5
<1>4. m \in D
  <2> HIDE DEF D
  <2>1. QED
    BY <1>1, <1>2, <1>3, Climbed
<1> DEFINE f == CHOOSE g : Upto(g, m)
<1>5. Upto(f, m)
  <2>1. \E g : Upto(g, m)
    BY <1>4
  <2> HIDE DEF Upto
  <2>2. QED
    BY <2>1
<1>6. ReadPairs(current, pairs) = f[Len(pairs)]
  BY DEF ReadPairs
<1> HIDE DEF f
<1>7. PairBlocks(f, current, pairs)
  <2>1. \A n \in 0 .. m : f[n] = IF n = 0 THEN current ELSE setISISField(f[n - 1], pairs[n][1], pairs[n][2])
    BY <1>5
  <2>2. 0 \in 0 .. m /\ \A n \in 1 .. m : n \in 0 .. m /\ n # 0
    BY <1>1
  <2> HIDE DEF Upto
  <2>3. QED
    BY <2>1, <2>2 DEF PairBlocks
<1>8. QED
  BY <1>6, <1>7

\* The peers and the block after each line; such exist, and the last yield the peers.
LineStates(g, text, process) ==
    /\ g[0] = [peers |-> {}, current |-> <<>>]
    /\ \A n \in 1 .. Len(text) : g[n] = ReadLine(g[n - 1], text[n], process)

\* ParseISISText, without its function: the peers so far, and the open block.
LEMMA LinesRead ==
    ASSUME NEW text, IsSeq(text), NEW process, process = ProcessOf(text)
    PROVE  \E g : /\ LineStates(g, text, process)
                  /\ ParseISISText(text) =
                        g[Len(text)].peers \cup Flush(g[Len(text)].current, process)
<1> DEFINE m == Len(text)
           Upto(g, l) == g = [n \in 0 .. l |-> IF n = 0 THEN [peers |-> {}, current |-> <<>>]
                                               ELSE ReadLine(g[n - 1], text[n], process)]
           D == {l \in 0 .. m : \E g : Upto(g, l)}
<1>1. m \in Nat
  BY SeqFacts
<1>2. 0 \in D
  <2>1. \E g : Upto(g, 0)
    <3>1. Upto([n \in 0 .. 0 |-> [peers |-> {}, current |-> <<>>]], 0)
      OBVIOUS
    <3> HIDE DEF Upto
    <3>2. QED
      BY <3>1
  <2> HIDE DEF Upto
  <2>2. QED
    BY <1>1, <2>1
<1>3. ASSUME NEW l \in 0 .. m - 1, l \in D PROVE l + 1 \in D
  <2>1. PICK g : Upto(g, l)
    BY <1>3
  <2>2. l \in Nat /\ l + 1 \in 0 .. m /\ l \in 0 .. l
    BY <1>1
  <2> DEFINE h == [n \in 0 .. l + 1 |-> IF n \in 0 .. l THEN g[n] ELSE ReadLine(g[l], text[l + 1], process)]
  <2>3. ASSUME NEW n \in 0 .. l + 1
        PROVE  h[n] = IF n = 0 THEN [peers |-> {}, current |-> <<>>] ELSE ReadLine(h[n - 1], text[n], process)
    <3>1. CASE n = 0
      BY <2>1, <2>2, <3>1
    <3>2. CASE n # 0 /\ n \in 0 .. l
      <4>1. n - 1 \in 0 .. l /\ n - 1 \in 0 .. l + 1
        BY <2>2, <3>2
      <4>2. h[n] = g[n] /\ h[n - 1] = g[n - 1]
        BY <3>2, <4>1
      <4>3. g[n] = ReadLine(g[n - 1], text[n], process)
        BY <2>1, <3>2
      <4>4. QED
        BY <3>2, <4>2, <4>3
    <3>3. CASE n \notin 0 .. l
      <4>1. n = l + 1 /\ n - 1 = l /\ n # 0 /\ l \in 0 .. l + 1
        BY <2>2, <3>3
      <4>2. h[n] = ReadLine(g[l], text[n], process) /\ h[l] = g[l]
        BY <2>2, <3>3, <4>1
      <4>3. QED
        BY <4>1, <4>2
    <3>4. QED
      BY <3>1, <3>2, <3>3
  <2>4. h = [n \in 0 .. l + 1 |-> h[n]]
    OBVIOUS
  <2> HIDE DEF h
  <2>5. Upto(h, l + 1)
    BY <2>3, <2>4
  <2>6. QED
    BY <2>2, <2>5
<1>4. m \in D
  <2> HIDE DEF D
  <2>1. QED
    BY <1>1, <1>2, <1>3, Climbed
<1> DEFINE f == CHOOSE g : Upto(g, m)
<1>5. Upto(f, m)
  <2>1. \E g : Upto(g, m)
    BY <1>4
  <2> HIDE DEF Upto
  <2>2. QED
    BY <2>1
<1>6. ParseISISText(text) = f[Len(text)].peers \cup Flush(f[Len(text)].current, process)
  BY DEF ParseISISText, ProcessOf
<1> HIDE DEF f
<1>7. LineStates(f, text, process)
  <2>1. \A n \in 0 .. m : f[n] = IF n = 0 THEN [peers |-> {}, current |-> <<>>]
                              ELSE ReadLine(f[n - 1], text[n], process)
    BY <1>5
  <2>2. 0 \in 0 .. m /\ \A n \in 1 .. m : n \in 0 .. m /\ n # 0
    BY <1>1
  <2> HIDE DEF Upto
  <2>3. QED
    BY <2>1, <2>2 DEF LineStates
<1>8. QED
  BY <1>6, <1>7


\* What a block of an echo holds: no key of its own, and translated fields of
\* the vocabulary.
Block(c) ==
    /\ "isis_id" \notin DOMAIN c /\ "state" \notin DOMAIN c
    /\ "status" \in DOMAIN c => c["status"] \in {Text("Active"), Text("Inactive")}
    /\ "level" \in DOMAIN c => c["level"] \in {Text("L1"), Text("L2"), Text("L1L2")}
    /\ "system_id" \in DOMAIN c => \E S : c["system_id"].v \in Seq(S)

\* A string has a value that is a list.
LEMMA StringIsList == ASSUME NEW word PROVE \E S : String(word).v \in Seq(S)
<1>1. <<>> \in Seq({word}) /\ <<word>> \in Seq({word})
  OBVIOUS
<1>2. \A x : [t |-> "string", v |-> x].v = x
  OBVIOUS
<1>3. String(word).v = IF word = "" THEN <<>> ELSE <<word>>
  BY ONLY <1>2 DEF String
<1>4. String(word).v \in Seq({word})
  BY <1>1, <1>3
<1>5. QED
  BY <1>4

\* setISISField keeps a block one, whatever the field and the value.
LEMMA FieldSet ==
    ASSUME NEW c, Block(c), NEW key, NEW word
    PROVE  Block(setISISField(c, key, word))
<1>1. CASE key \notin DOMAIN isisFields
  BY <1>1 DEF setISISField
<1>2. CASE key \in DOMAIN isisFields
  <2> DEFINE field == isisFields[key]
             value == CASE field = "status" -> mapISISStatus(word)
                        [] field = "level" -> mapISISLevel(word)
                        [] OTHER -> word
             one == [f \in {field} |-> String(value)]
             d == With(one, c)
  <2>1. setISISField(c, key, word) = d
    BY <1>2 DEF setISISField
  <2>2. field # "isis_id" /\ field # "state"
    BY <1>2 DEF isisFields
  <2>3. field = "status" => String(value) \in {Text("Active"), Text("Inactive")}
    BY DEF mapISISStatus, String, Text
  <2>4. field = "level" => String(value) \in {Text("L1"), Text("L2"), Text("L1L2")}
    BY DEF mapISISLevel, String, Text
  <2> HIDE DEF field, value
  <2>5. \E S : String(value).v \in Seq(S)
    BY StringIsList
  <2>6. /\ DOMAIN d = {field} \cup DOMAIN c
        /\ d[field] = String(value)
        /\ \A f \in DOMAIN c : f # field => d[f] = c[f]
    BY DEF With
  <2> HIDE DEF d
  <2>7. Block(d)
    <3>1. "isis_id" \notin DOMAIN d /\ "state" \notin DOMAIN d
      BY <2>2, <2>6 DEF Block
    <3>2. "status" \in DOMAIN d => d["status"] \in {Text("Active"), Text("Inactive")}
      BY <2>3, <2>6 DEF Block
    <3>3. "level" \in DOMAIN d => d["level"] \in {Text("L1"), Text("L2"), Text("L1L2")}
      BY <2>4, <2>6 DEF Block
    <3>4. "system_id" \in DOMAIN d => \E S : d["system_id"].v \in Seq(S)
      BY <2>5, <2>6 DEF Block
    <3>5. QED
      BY <3>1, <3>2, <3>3, <3>4 DEF Block
  <2>8. QED
    BY <2>1, <2>7
<1>3. QED
  BY <1>1, <1>2

\* So do the pairs of a line.
LEMMA PairsKeep ==
    ASSUME NEW c, Block(c), NEW pairs, IsSeq(pairs)
    PROVE  Block(ReadPairs(c, pairs))
<1>1. PICK g : PairBlocks(g, c, pairs) /\ ReadPairs(c, pairs) = g[Len(pairs)]
  BY PairsRead
<1> DEFINE m == Len(pairs)
           D == {l \in 0 .. m : Block(g[l])}
<1>2. m \in Nat
  BY SeqFacts
<1>3. g[0] = c /\ \A n \in 1 .. m : g[n] = setISISField(g[n - 1], pairs[n][1], pairs[n][2])
  BY <1>1 DEF PairBlocks
<1>4. 0 \in D
  BY <1>2, <1>3
<1>5. ASSUME NEW l \in 0 .. m - 1, l \in D PROVE l + 1 \in D
  <2>1. l + 1 \in 1 .. m /\ l + 1 \in 0 .. m /\ (l + 1) - 1 = l
    BY <1>2
  <2>2. Block(g[l])
    BY <1>5
  <2>3. Block(setISISField(g[l], pairs[l + 1][1], pairs[l + 1][2]))
    BY <2>2, FieldSet
  <2>4. g[l + 1] = setISISField(g[l], pairs[l + 1][1], pairs[l + 1][2])
    BY <1>3, <2>1
  <2>5. QED
    BY <2>1, <2>3, <2>4
<1>6. m \in D
  <2> HIDE DEF D
  <2>1. QED
    BY <1>2, <1>4, <1>5, Climbed
<1>7. QED
  BY <1>1, <1>6

\* A peer is a block with a system id.
IsisPeer(p) == Block(p) /\ "system_id" \in DOMAIN p

\* What is flushed is a peer.
LEMMA Flushed ==
    ASSUME NEW c, Block(c), NEW process, NEW p \in Flush(c, process)
    PROVE  IsisPeer(p)
<1>1. "system_id" \in DOMAIN c
  BY DEF Flush
<1>2. p = c \/ p = With([process_id |-> Text(process)], c)
  BY <1>1 DEF Flush
<1>3. CASE p = c
  BY <1>1, <1>3 DEF IsisPeer
<1>4. CASE p = With([process_id |-> Text(process)], c)
  <2>1. DOMAIN p = {"process_id"} \cup DOMAIN c /\ \A f \in DOMAIN c : f # "process_id" => p[f] = c[f]
    BY <1>4 DEF With
  <2>2. QED
    BY <1>1, <2>1 DEF IsisPeer, Block
<1>5. QED
  BY <1>2, <1>3, <1>4

\* The state of the parser.
Parsed(s) ==
    /\ DOMAIN s = {"peers", "current"}
    /\ \A p \in s.peers : IsisPeer(p)
    /\ Block(s.current)

\* A line of the echo keeps the peers peers and the block a block.
LEMMA LineKeeps ==
    ASSUME NEW s, Parsed(s), NEW line, IsSeq(line.pairs), NEW process
    PROVE  Parsed(ReadLine(s, line, process))
<1>1. CASE line.kind = "title"
  BY <1>1 DEF ReadLine
<1>2. CASE line.kind = "blank"
  <2> DEFINE u == [peers |-> s.peers \cup Flush(s.current, process), current |-> <<>>]
  <2>1. ReadLine(s, line, process) = u
    BY <1>2 DEF ReadLine
  <2>2. /\ DOMAIN u = {"peers", "current"}
        /\ u.peers = s.peers \cup Flush(s.current, process) /\ u.current = <<>>
    OBVIOUS
  <2> HIDE DEF u
  <2>3. Block(<<>>)
    <3>1. DOMAIN <<>> = {}
      OBVIOUS
    <3>2. QED
      BY <3>1 DEF Block
  <2>4. \A p \in u.peers : IsisPeer(p)
    BY <2>2, Flushed DEF Parsed
  <2>5. QED
    BY <2>1, <2>2, <2>3, <2>4 DEF Parsed
<1>3. CASE line.kind # "title" /\ line.kind # "blank"
  <2> DEFINE u == [s EXCEPT !.current = ReadPairs(@, line.pairs)]
  <2>1. ReadLine(s, line, process) = u
    BY <1>3 DEF ReadLine
  <2>2. DOMAIN u = {"peers", "current"} /\ u.peers = s.peers /\ u.current = ReadPairs(s.current, line.pairs)
    BY DEF Parsed
  <2> HIDE DEF u
  <2>3. Block(u.current)
    BY <2>2, PairsKeep DEF Parsed
  <2>4. QED
    BY <2>1, <2>2, <2>3 DEF Parsed
<1>4. QED
  BY <1>1, <1>2, <1>3

\* Whatever the device answers, the parser gives peers.
LEMMA EchoParsed ==
    ASSUME NEW text, IsSeq(text), \A l \in DOMAIN text : IsSeq(text[l].pairs),
           NEW p \in ParseISISText(text)
    PROVE  IsisPeer(p)
<1>1. PICK process : process = ProcessOf(text)
  OBVIOUS
<1>2. PICK g : /\ LineStates(g, text, process)
              /\ ParseISISText(text) = g[Len(text)].peers \cup Flush(g[Len(text)].current, process)
  BY <1>1, LinesRead
<1> DEFINE m == Len(text)
           D == {l \in 0 .. m : Parsed(g[l])}
<1>3. m \in Nat /\ DOMAIN text = 1 .. m
  BY SeqFacts
<1>4. /\ g[0] = [peers |-> {}, current |-> <<>>]
      /\ \A n \in 1 .. m : g[n] = ReadLine(g[n - 1], text[n], process)
  BY <1>2 DEF LineStates
<1>5. 0 \in D
  <2>1. DOMAIN <<>> = {}
    OBVIOUS
  <2>2. Block(<<>>)
    BY <2>1 DEF Block
  <2>3. DOMAIN g[0] = {"peers", "current"} /\ g[0].peers = {} /\ g[0].current = <<>>
    BY <1>4
  <2>4. Parsed(g[0])
    BY <2>2, <2>3 DEF Parsed
  <2>5. QED
    BY <1>3, <2>4
<1>6. ASSUME NEW l \in 0 .. m - 1, l \in D PROVE l + 1 \in D
  <2>1. l + 1 \in 1 .. m /\ l + 1 \in 0 .. m /\ (l + 1) - 1 = l
    BY <1>3
  <2>2. Parsed(g[l])
    BY <1>6
  <2>3. IsSeq(text[l + 1].pairs)
    BY <1>3, <2>1
  <2>4. Parsed(ReadLine(g[l], text[l + 1], process))
    BY <2>2, <2>3, LineKeeps
  <2>5. g[l + 1] = ReadLine(g[l], text[l + 1], process)
    BY <1>4, <2>1
  <2>6. QED
    BY <2>1, <2>4, <2>5
<1>7. m \in D
  <2> HIDE DEF D
  <2>1. QED
    BY <1>3, <1>5, <1>6, Climbed
<1>8. Parsed(g[m])
  BY <1>7
<1>9. QED
  BY <1>2, <1>8, Flushed DEF Parsed

\* The status and the level of an adjacency are the ontology's words.
LEMMA ISISSpeaks ==
    ASSUME NEW text, IsSeq(text), \A l \in DOMAIN text : IsSeq(text[l].pairs),
           NEW name, NEW peer \in ParseISISText(text)
    PROVE  /\ Speaks("ISIS", transformISISPeer(name, peer))
           /\ \E S : \E w \in Seq(S) : transformISISPeer(name, peer)["isis_id"].v = name \o <<Separator>> \o w
<1> DEFINE p == With(peer, [isis_id |-> PeerId(name, peer["system_id"])])
<1>1. Block(peer) /\ "system_id" \in DOMAIN peer
  BY EchoParsed DEF IsisPeer
<1>2. /\ DOMAIN p = DOMAIN peer \cup {"isis_id"}
      /\ \A f \in DOMAIN peer : p[f] = peer[f]
      /\ p["isis_id"] = PeerId(name, peer["system_id"])
  BY <1>1 DEF With, Block
<1> HIDE DEF p
<1>3. Speaks("ISIS", p)
  <2>1. /\ DOMAIN Vocabulary("ISIS") = {"status", "level"}
        /\ Vocabulary("ISIS")["status"] = {"Active", "Inactive"}
        /\ Vocabulary("ISIS")["level"] = {"L1", "L2", "L1L2"}
    BY DEF Vocabulary
  <2>2. "state" \notin DOMAIN p
    BY <1>1, <1>2 DEF Block
  <2>3. "status" \in DOMAIN p => \E word \in {"Active", "Inactive"} : p["status"] = Text(word)
    BY <1>1, <1>2 DEF Block
  <2>4. "level" \in DOMAIN p => \E word \in {"L1", "L2", "L1L2"} : p["level"] = Text(word)
    BY <1>1, <1>2 DEF Block
  <2>5. QED
    BY <2>1, <2>2, <2>3, <2>4 DEF Speaks, TranslatedFields
<1>4. p["isis_id"].v = name \o <<Separator>> \o peer["system_id"].v
  BY <1>2, PeerIdText
<1>5. \E S : peer["system_id"].v \in Seq(S)
  BY <1>1 DEF Block
<1>6. QED
  BY <1>3, <1>4, <1>5 DEF p, transformISISPeer

-----------------------------------------------------------------------------
(* Keys of peers.                                                           *)

\* A name that has no separator.
PlainName(name) == IsSeq(name) /\ \A i \in DOMAIN name : name[i] # Separator

\* A list over a set is one over a larger set.
LEMMA Wider ==
    ASSUME NEW S, NEW R, S \subseteq R, NEW s \in Seq(S)
    PROVE  s \in Seq(R)
<1>1. Len(s) \in Nat /\ s \in [1 .. Len(s) -> S]
  OBVIOUS
<1>2. s \in [1 .. Len(s) -> R]
  BY <1>1
<1>3. QED
  BY <1>1, <1>2

\* A sequence with a separator and something behind it.
LEMMA SeparatedAt ==
    ASSUME NEW R, NEW a \in Seq(R), Separator \in R, NEW x \in Seq(R)
    PROVE  /\ Len(a) \in Nat
           /\ \A i \in 1 .. Len(a) : (a \o <<Separator>> \o x)[i] = a[i]
           /\ (a \o <<Separator>> \o x)[Len(a) + 1] = Separator
<1> DEFINE b == a \o <<Separator>>
<1>1. <<Separator>> \in Seq(R) /\ Len(<<Separator>>) = 1 /\ <<Separator>>[1] = Separator
  OBVIOUS
<1>2. Len(a) \in Nat
  OBVIOUS
<1>3. /\ b \in Seq(R) /\ Len(b) = Len(a) + 1
      /\ \A i \in 1 .. Len(a) : b[i] = a[i]
      /\ b[Len(a) + 1] = Separator
  BY <1>1, <1>2
<1> HIDE DEF b
<1>4. \A i \in 1 .. Len(b) : (b \o x)[i] = b[i]
  BY <1>3
<1>5. QED
  BY <1>2, <1>3, <1>4 DEF b

\* What stands before the separator tells the names apart.
LEMMA NamesApart ==
    ASSUME NEW a, PlainName(a), NEW b, PlainName(b), NEW S, NEW x \in Seq(S), NEW T, NEW y \in Seq(T),
           a \o <<Separator>> \o x = b \o <<Separator>> \o y
    PROVE  a = b
<1> DEFINE m == Len(a)
           n == Len(b)
           k == a \o <<Separator>> \o x
           l == b \o <<Separator>> \o y
           R == ToSet(a) \cup ToSet(b) \cup {Separator} \cup S \cup T
<1>1. /\ ToSet(a) \subseteq R /\ ToSet(b) \subseteq R /\ S \subseteq R /\ T \subseteq R
      /\ Separator \in R
  OBVIOUS
<1> HIDE DEF R
<1>2. a \in Seq(R) /\ b \in Seq(R) /\ x \in Seq(R) /\ y \in Seq(R)
  <2>1. a \in Seq(R)
    BY <1>1, Wider DEF PlainName, IsSeq
  <2>2. b \in Seq(R)
    BY <1>1, Wider DEF PlainName, IsSeq
  <2>3. x \in Seq(R)
    BY <1>1, Wider
  <2>4. y \in Seq(R)
    BY <1>1, Wider
  <2>5. QED
    BY <2>1, <2>2, <2>3, <2>4
<1>3. /\ m \in Nat /\ DOMAIN a = 1 .. m
      /\ \A i \in 1 .. m : k[i] = a[i] /\ a[i] # Separator
      /\ k[m + 1] = Separator
  <2>1. DOMAIN a = 1 .. m
    BY <1>2
  <2>2. m \in Nat /\ (\A i \in 1 .. m : k[i] = a[i]) /\ k[m + 1] = Separator
    BY <1>1, <1>2, SeparatedAt
  <2>3. QED
    BY <2>1, <2>2 DEF PlainName
<1>4. /\ n \in Nat /\ DOMAIN b = 1 .. n
      /\ \A i \in 1 .. n : l[i] = b[i] /\ b[i] # Separator
      /\ l[n + 1] = Separator
  <2>1. DOMAIN b = 1 .. n
    BY <1>2
  <2>2. n \in Nat /\ (\A i \in 1 .. n : l[i] = b[i]) /\ l[n + 1] = Separator
    BY <1>1, <1>2, SeparatedAt
  <2>3. QED
    BY <2>1, <2>2 DEF PlainName
<1>5. k = l
  OBVIOUS
<1> HIDE DEF k, l, m, n
<1>6. m = n
  <2>1. ASSUME m < n PROVE FALSE
    <3>1. m + 1 \in 1 .. n
      BY <1>3, <1>4, <2>1
    <3>2. QED
      BY <1>3, <1>4, <1>5, <3>1
  <2>2. ASSUME n < m PROVE FALSE
    <3>1. n + 1 \in 1 .. m
      BY <1>3, <1>4, <2>2
    <3>2. QED
      BY <1>3, <1>4, <1>5, <3>1
  <2>3. QED
    BY <1>3, <1>4, <2>1, <2>2
<1>7. \A i \in 1 .. m : a[i] = b[i]
  BY <1>3, <1>4, <1>5, <1>6
<1>8. a = [i \in 1 .. m |-> a[i]] /\ b = [i \in 1 .. n |-> b[i]]
  BY <1>2 DEF m, n
<1>9. QED
  BY <1>6, <1>7, <1>8

-----------------------------------------------------------------------------
(* Validation.                                                              *)

\* A value the type and the enum of a property allow.
Conforms(spec, val) == checkType(val, spec.type) /\ InEnum(val, spec.enum)

\* The defaults of a type are values its properties may have, and a required
\* status, state or level has one.
DefaultsFit(et) ==
    /\ {"keys", "props"} \subseteq DOMAIN et
    /\ \A f \in DOMAIN et.props :
          LET default == et.props[f].default
          IN /\ default.t # "nil" => Conforms(et.props[f], default)
             /\ f \in TranslatedFields /\ et.props[f].required => ~isEmpty(default)

\* The status, state and level of the properties are what the type allows.
Fitting(et, props) ==
    \A f \in TranslatedFields \cap DOMAIN props \cap DOMAIN et.props :
        /\ Conforms(et.props[f], props[f])
        /\ et.props[f].required => ~isEmpty(props[f])

\* The type without those three.
Untranslated(et) == [et EXCEPT !.props = Restrict(@, DOMAIN @ \ TranslatedFields)]

\* The type allows the words of a kind.
Knows(et, kind) ==
    \A f \in DOMAIN Vocabulary(kind) \cap DOMAIN et.props :
        \A word \in Vocabulary(kind)[f] : Conforms(et.props[f], Text(word))

\* Properties that speak the words a type allows fit it.
LEMMA SpeakersFit ==
    ASSUME NEW et, NEW kind, NEW props, Knows(et, kind), Speaks(kind, props)
    PROVE  Fitting(et, props)
<1> SUFFICES ASSUME NEW f \in TranslatedFields \cap DOMAIN props \cap DOMAIN et.props
             PROVE  Conforms(et.props[f], props[f]) /\ ~isEmpty(props[f])
  BY DEF Fitting
<1>1. PICK word \in Vocabulary(kind)[f] : f \in DOMAIN Vocabulary(kind) /\ props[f] = Text(word)
  BY DEF Speaks
<1>2. Conforms(et.props[f], props[f])
  BY <1>1 DEF Knows
<1>3. ~isEmpty(Text(word))
  <2>1. Text(word).t = "string" /\ Text(word).v # <<>>
    BY DEF Text
  <2>2. QED
    BY <2>1 DEF isEmpty
<1>4. QED
  BY <1>1, <1>2, <1>3

\* Properties that fit, and are valid but for the three fields, are valid with the
\* defaults.
LEMMA WithDefaults ==
    ASSUME NEW et, NEW props, DefaultsFit(et), Fitting(et, props),
           Valid(Untranslated(et), props)
    PROVE  Valid(et, applyDefaults(et.props, props))
<1> DEFINE rest == Untranslated(et)
           full == applyDefaults(et.props, props)
           missing == {f \in DOMAIN et.props : f \notin DOMAIN props /\ et.props[f].default.t # "nil"}
<1>1. /\ rest.keys = et.keys
      /\ DOMAIN rest.props = DOMAIN et.props \ TranslatedFields
      /\ \A f \in DOMAIN rest.props : rest.props[f] = et.props[f]
  <2>1. rest.keys = et.keys /\ rest.props = Restrict(et.props, DOMAIN et.props \ TranslatedFields)
    BY DEF DefaultsFit, Untranslated
  <2> HIDE DEF rest
  <2>2. QED
    BY <2>1 DEF Restrict
<1>2. Valid(rest, props)
  OBVIOUS
<1> HIDE DEF rest
<1>3. /\ DOMAIN full = DOMAIN props \cup missing
      /\ \A f \in DOMAIN props : full[f] = props[f]
      /\ \A f \in missing : full[f] = et.props[f].default
  BY DEF applyDefaults
<1>4. \A f \in missing : Conforms(et.props[f], full[f])
  BY <1>3 DEF DefaultsFit
<1>5. \A f \in DOMAIN props : Present(props, f) => Present(full, f)
  BY <1>3 DEF Present
<1> HIDE DEF full
<1>6. ASSUME NEW f \in DOMAIN et.props
      PROVE  /\ et.props[f].required => Present(full, f)
             /\ f \in DOMAIN full => /\ checkType(full[f], et.props[f].type)
                                     /\ InEnum(full[f], et.props[f].enum)
  <2>1. CASE f \notin TranslatedFields
    <3>1. /\ et.props[f].required => Present(props, f)
          /\ f \in DOMAIN props => Conforms(et.props[f], props[f])
      BY <1>1, <1>2, <2>1 DEF Valid, Conforms
    <3>2. et.props[f].required => Present(full, f)
      BY <1>5, <3>1 DEF Present
    <3>3. f \in DOMAIN full => Conforms(et.props[f], full[f])
      BY <1>3, <1>4, <3>1
    <3>4. QED
      BY <3>2, <3>3 DEF Conforms
  <2>2. CASE f \in TranslatedFields /\ f \in DOMAIN props
    <3>1. Conforms(et.props[f], props[f]) /\ (et.props[f].required => ~isEmpty(props[f]))
      BY <2>2 DEF Fitting
    <3>2. full[f] = props[f] /\ f \in DOMAIN full
      BY <1>3, <2>2
    <3>3. QED
      BY <3>1, <3>2 DEF Conforms, Present
  <2>3. CASE f \in TranslatedFields /\ f \notin DOMAIN props
    <3>1. et.props[f].required => f \in missing /\ ~isEmpty(et.props[f].default)
      BY <2>3 DEF DefaultsFit, isEmpty
    <3>2. et.props[f].required => Present(full, f)
      BY <1>3, <3>1 DEF Present
    <3>3. f \in DOMAIN full => Conforms(et.props[f], full[f])
      BY <1>3, <1>4, <2>3
    <3>4. QED
      BY <3>2, <3>3 DEF Conforms
  <2>4. QED
    BY <2>1, <2>2, <2>3
<1>7. ASSUME NEW i \in DOMAIN et.keys PROVE Present(full, et.keys[i])
  BY <1>1, <1>2, <1>5 DEF Valid, Present
<1>8. Valid(et, full)
  BY <1>6, <1>7 DEF Valid
<1>9. QED
  BY <1>8 DEF full

-----------------------------------------------------------------------------
(* What the sources give.                                                   *)

ListGives(g, n, list) == UNION {g.pages[n][list][i] : i \in DOMAIN g.pages[n][list]}
DevicesGive(g, n, kind) == UNION {g.peers[n][kind][d] : d \in DOMAIN g.peers[n][kind]}

Gives(g, n, kind) ==
    LET type == Configured(g)[n].type
    IN IF kind \notin Supported(type) THEN {}
       ELSE IF AsksDevices(type, kind) THEN DevicesGive(g, n, kind)
       ELSE UNION {ListGives(g, n, list) : list \in ToSet(Lists(type, kind))}

\* What the sources of connector n give for the types it lists.
GivenBy(g, n) == UNION {Gives(g, n, kind) : kind \in ToSet(Configured(g)[n].types)}

AllGiven(g) == UNION {GivenBy(g, n) : n \in DOMAIN Configured(g)}

\* A page of a controller speaks the vocabulary.
LEMMA ControllerSpeaks ==
    ASSUME NEW kind \in Plain \cup {"VPN"}, NEW list \in ToSet(Lists("controller", kind)),
           NEW raw, NEW r \in FromController(list, raw)
    PROVE  r.kind = kind /\ Speaks(kind, r.props)
<1>1. \A k, i, p : Resource(k, i, p).kind = k /\ Resource(k, i, p).props = p
  BY DEF Resource
<1>2. kind # "VPN" => list = kind
  BY ListsOf
<1>3. kind = "VPN" => list \in {"L3", "L2"}
  BY DEF Lists, ToSet
<1>4. CASE kind = "Device"
  <2>1. r = Resource("Device", IdOf(raw, "id"), transformDevice(raw))
    BY <1>2, <1>4 DEF FromController
  <2>2. QED
    BY <1>1, <1>4, <2>1, DeviceSpeaks
<1>5. CASE kind = "Interface"
  <2>1. PICK port : r = Resource("Interface", IdOf(port, "id"),
                          transformInterface([t |-> "string", v |-> IdOf(raw, "name")], port))
    BY <1>2, <1>5 DEF FromController
  <2>2. QED
    BY <1>1, <1>5, <2>1, InterfaceSpeaks
<1>6. CASE kind = "Link"
  <2>1. r = Resource("Link", IdOf(raw, "link-id"), transformLink(raw))
    BY <1>2, <1>6 DEF FromController
  <2>2. QED
    BY <1>1, <1>6, <2>1, LinkSpeaks
<1>7. CASE kind = "Alarm"
  <2>1. r = Resource("Alarm", IdOf(raw, "id"), transformAlarm(raw))
    BY <1>2, <1>7 DEF FromController
  <2>2. QED
    BY <1>1, <1>7, <2>1, AlarmSpeaks
<1>8. CASE kind = "Tunnel"
  <2>1. r = Resource("Tunnel", IdOf(raw, "instance-id"), transformTunnel(raw))
    BY <1>2, <1>8 DEF FromController
  <2>2. QED
    BY <1>1, <1>8, <2>1, TunnelSpeaks
<1>9. CASE kind = "VPN"
  <2>1. r = Resource("VPN", IdOf(raw, "vpn-id"), transformVPN(raw, list))
    BY <1>3, <1>9 DEF FromController
  <2>2. QED
    BY <1>1, <1>9, <2>1, VPNSpeaks
<1>10. QED
  BY <1>4, <1>5, <1>6, <1>7, <1>8, <1>9 DEF Plain

\* An id is a name, the separator, and something more.
Keyed(id, name) == \E S : \E w \in Seq(S) : id = name \o <<Separator>> \o w

\* So does an echo, and the key of each peer begins with the device's name.
LEMMA EchoSpeaks ==
    ASSUME NEW kind \in Peers, NEW name, NEW text,
           kind = "ISIS" => IsSeq(text) /\ \A l \in DOMAIN text : IsSeq(text[l].pairs),
           NEW r \in FromEcho(kind, name, text)
    PROVE  r.kind = kind /\ Speaks(kind, r.props) /\ Keyed(r.id, name)
<1>1. \A k, i, p : /\ Resource(k, i, p).kind = k /\ Resource(k, i, p).props = p
                   /\ Resource(k, i, p).id = i
  BY DEF Resource
<1>2. CASE kind = "ISIS"
  <2>1. PICK peer \in ParseISISText(text) :
           LET p == transformISISPeer(name, peer) IN r = Resource("ISIS", p["isis_id"].v, p)
    BY <1>2 DEF FromEcho
  <2>2. PICK p : p = transformISISPeer(name, peer)
    OBVIOUS
  <2>3. Speaks("ISIS", p) /\ \E S : \E w \in Seq(S) : p["isis_id"].v = name \o <<Separator>> \o w
    BY <1>2, <2>2, ISISSpeaks
  <2>4. r.kind = "ISIS" /\ r.props = p /\ r.id = p["isis_id"].v
    BY <1>1, <2>1, <2>2
  <2>5. QED
    BY <1>2, <2>3, <2>4 DEF Keyed
<1>3. CASE kind = "BGP"
  <2>1. PICK peer \in ParseBGPText(text) :
           LET p == transformBGPPeer(name, peer) IN r = Resource("BGP", p["bgp_id"].v, p)
    BY <1>3 DEF FromEcho
  <2>2. PICK w : transformBGPPeer(name, peer)["bgp_id"].v = name \o <<Separator>> \o <<w>>
    BY BGPSpeaks
  <2>3. <<w>> \in Seq({w})
    OBVIOUS
  <2>4. PICK p : p = transformBGPPeer(name, peer)
    OBVIOUS
  <2>5. Speaks("BGP", p)
    BY <2>4, BGPSpeaks
  <2>6. r.kind = "BGP" /\ r.props = p /\ r.id = p["bgp_id"].v
    BY <1>1, <2>1, <2>4
  <2>7. r.id = name \o <<Separator>> \o <<w>>
    BY <2>2, <2>4, <2>6
  <2>8. Keyed(r.id, name)
    BY <2>3, <2>7 DEF Keyed
  <2>9. QED
    BY <1>3, <2>5, <2>6, <2>8
<1>4. QED
  BY <1>2, <1>3 DEF Peers

\* What the ontology and the sources have to keep for TransformsSound.
\* The types of what is collected allow their defaults and, of a controller, its
\* words; what NetBox and mocks give, and is valid but for these fields, has values
\* its type allows; no name of a device holds the separator.
SourceFits(g, n) ==
    /\ \A r \in GivenBy(g, n) :
          /\ DefaultsFit(Ontology[r.kind])
          /\ IF Configured(g)[n].type = "controller" THEN Knows(Ontology[r.kind], r.kind)
             ELSE Valid(Untranslated(Ontology[r.kind]), r.props) => Fitting(Ontology[r.kind], r.props)
    /\ \A d \in DOMAIN g.names[n] : PlainName(g.names[n][d])

SourcesFit ==
    \A i \in DOMAIN Worlds : LET g == WithGives(Worlds[i])
                             IN \A n \in DOMAIN Configured(g) : SourceFits(g, n)

\* The pages and echoes of a world are what the connectors make of its data.
LEMMA PagesOf ==
    ASSUME NEW w, NEW n \in DOMAIN Configured(w), NEW kind \in ToSet(Configured(w)[n].types),
           kind \in Supported(Configured(w)[n].type), ~AsksDevices(Configured(w)[n].type, kind),
           NEW list \in ToSet(Lists(Configured(w)[n].type, kind)),
           NEW i \in DOMAIN PageGives(w)[n][list]
    PROVE  \E items : PageGives(w)[n][list][i] = FromPage(Configured(w)[n].type, list, items)
<1> DEFINE c == Configured(w)[n]
           kinds == {k \in ToSet(c.types) \cap Supported(c.type) : ~AsksDevices(c.type, k)}
           named == UNION {ToSet(Lists(c.type, k)) : k \in kinds}
           pages(l) == Pages(w, n, c.type, l)
<1>1. PageGives(w)[n] = [l \in named |-> [j \in DOMAIN pages(l) |-> FromPage(c.type, l, pages(l)[j])]]
  BY DEF PageGives
<1>2. kind \in kinds
  OBVIOUS
<1> HIDE DEF kinds
<1>3. list \in named
  BY <1>2
<1> HIDE DEF named, pages
<1>4. PageGives(w)[n][list] = [j \in DOMAIN pages(list) |-> FromPage(c.type, list, pages(list)[j])]
  BY <1>1, <1>3
<1>5. i \in DOMAIN pages(list)
  BY <1>4
<1>6. PageGives(w)[n][list][i] = FromPage(c.type, list, pages(list)[i])
  BY <1>4, <1>5
<1>7. QED
  BY <1>6

\* The same for the echoes: nothing if the parser would end the process.
LEMMA EchoesOf ==
    ASSUME NEW w, NEW n \in DOMAIN Configured(w), NEW kind \in ToSet(Configured(w)[n].types),
           AsksDevices(Configured(w)[n].type, kind),
           NEW names, NEW d \in DOMAIN EchoGives(w, names)[n][kind]
    PROVE  /\ d \in DOMAIN names[n]
           /\ \/ EchoGives(w, names)[n][kind][d] = {}
              \/ EchoGives(w, names)[n][kind][d] = FromEcho(kind, names[n][d], EchoOf(w, n, kind, d))
<1> DEFINE c == Configured(w)[n]
           asked == {k \in ToSet(c.types) : AsksDevices(c.type, k)}
           given(k) == [e \in {e \in DOMAIN names[n] : names[n][e] # <<>>} |->
                           IF k = "BGP" /\ BGPPanics(EchoOf(w, n, k, e)) THEN {}
                           ELSE FromEcho(k, names[n][e], EchoOf(w, n, k, e))]
<1>1. EchoGives(w, names)[n] = [k \in asked |-> given(k)]
  BY DEF EchoGives
<1>2. kind \in asked
  OBVIOUS
<1>3. EchoGives(w, names)[n][kind] = given(kind)
  BY <1>1, <1>2
<1>4. QED
  BY <1>3

\* What is derived from a world is that of its data.
LEMMA Given ==
    ASSUME NEW w, NEW g, g = WithGives(w)
    PROVE  /\ Configured(g) = Configured(w) /\ g.pages = PageGives(w)
           /\ g.peers = EchoGives(w, g.names)
           /\ \A m, k, d : EchoOf(g, m, k, d) = EchoOf(w, m, k, d)
<1>1. /\ g.entries = w.entries /\ g.data = w.data /\ g.names = DeviceNames(w)
      /\ g.pages = PageGives(w) /\ g.peers = EchoGives(w, DeviceNames(w))
  BY DEF WithGives
<1>2. Configured(g) = Configured(w)
  BY <1>1 DEF Configured, Entries
<1>3. \A m, k, d : EchoOf(g, m, k, d) = EchoOf(w, m, k, d)
  BY <1>1 DEF EchoOf, DevicesOf
<1>4. QED
  BY <1>1, <1>2, <1>3

\* Every resource of a controller speaks the vocabulary of its kind.
LEMMA GivenSpeak ==
    ASSUME NEW j \in DOMAIN Worlds, NEW g, g = WithGives(Worlds[j]),
           NEW n \in DOMAIN Configured(g), Configured(g)[n].type = "controller",
           NEW r \in GivenBy(g, n)
    PROVE  Speaks(r.kind, r.props)
<1> DEFINE w == Worlds[j]
<1>1. /\ Configured(g) = Configured(w) /\ g.pages = PageGives(w)
      /\ g.peers = EchoGives(w, g.names)
      /\ \A m, k, d : EchoOf(g, m, k, d) = EchoOf(w, m, k, d)
  BY Given
<1>2. /\ "ISIS" \in DOMAIN g.peers[n] =>
            \A d \in DOMAIN g.peers[n]["ISIS"] :
                LET text == EchoOf(g, n, "ISIS", d)
                IN IsSeq(text) /\ \A line \in DOMAIN text : IsSeq(text[line].pairs)
  BY WorldsAssumption
<1> HIDE DEF w
<1>3. PICK kind \in ToSet(Configured(g)[n].types) : r \in Gives(g, n, kind)
  BY DEF GivenBy
<1>4. kind \in Supported("controller")
  BY <1>3 DEF Gives
<1>5. CASE AsksDevices("controller", kind)
  <2>1. PICK d \in DOMAIN g.peers[n][kind] : r \in g.peers[n][kind][d]
    BY <1>3, <1>4, <1>5 DEF Gives, DevicesGive
  <2>2. r \in FromEcho(kind, g.names[n][d], EchoOf(w, n, kind, d))
    BY <1>1, <1>5, <2>1, EchoesOf
  <2>3. kind \in DOMAIN g.peers[n]
    BY <1>1, <1>5 DEF EchoGives
  <2>4. kind = "ISIS" => LET text == EchoOf(w, n, "ISIS", d)
                         IN IsSeq(text) /\ \A line \in DOMAIN text : IsSeq(text[line].pairs)
    BY <1>1, <1>2, <2>1, <2>3
  <2>5. kind \in Peers
    BY <1>5 DEF AsksDevices
  <2> QED
    BY <2>2, <2>4, <2>5, EchoSpeaks
<1>6. CASE ~AsksDevices("controller", kind)
  <2>0. PICK list \in ToSet(Lists("controller", kind)) : r \in ListGives(g, n, list)
    BY <1>3, <1>4, <1>6 DEF Gives
  <2>1. PICK i \in DOMAIN g.pages[n][list] : r \in g.pages[n][list][i]
    BY <2>0 DEF ListGives
  <2>2. PICK items : r \in FromPage("controller", list, items)
    BY <1>1, <1>4, <1>6, <2>1, PagesOf
  <2>3. PICK i0 \in DOMAIN items : r \in FromController(list, items[i0])
    BY <2>2 DEF FromPage
  <2>4. kind \in Plain \cup {"VPN"}
    BY <1>4, <1>6 DEF Supported, AsksDevices
  <2>5. QED
    BY <2>3, <2>4, ControllerSpeaks
<1>7. QED
  BY <1>5, <1>6

\* Hence what a source gives fits once it fits without status, state and level.
LEMMA GivenFit ==
    ASSUME SourcesFit, NEW j \in DOMAIN Worlds, NEW g, g = WithGives(Worlds[j]), NEW r \in AllGiven(g)
    PROVE  LET et == Ontology[r.kind]
               rest == [et EXCEPT !.props = Restrict(@, DOMAIN @ \ {"status", "state", "level"})]
           IN Valid(rest, r.props) => Valid(et, applyDefaults(et.props, r.props))
<1> DEFINE et == Ontology[r.kind]
<1> SUFFICES ASSUME Valid(Untranslated(et), r.props)
             PROVE  Valid(et, applyDefaults(et.props, r.props))
  BY DEF Untranslated, TranslatedFields
<1>1. PICK n \in DOMAIN Configured(g) : r \in GivenBy(g, n)
  BY DEF AllGiven
<1>2. SourceFits(g, n)
  BY DEF SourcesFit
<1>3. DefaultsFit(et)
  BY <1>1, <1>2 DEF SourceFits
<1>4. Fitting(et, r.props)
  <2>1. CASE Configured(g)[n].type = "controller"
    <3>1. Knows(et, r.kind)
      BY <1>1, <1>2, <2>1 DEF SourceFits
    <3>2. Speaks(r.kind, r.props)
      BY <1>1, <2>1, GivenSpeak
    <3> HIDE DEF et
    <3>3. QED
      BY <3>1, <3>2, SpeakersFit
  <2>2. CASE Configured(g)[n].type # "controller"
    BY <1>1, <1>2, <2>2 DEF SourceFits
  <2>3. QED
    BY <2>1, <2>2
<1> HIDE DEF et
<1>5. QED
  BY <1>3, <1>4, WithDefaults

\* Two devices of different names give no adjacency in common.
LEMMA GivenApart ==
    ASSUME SourcesFit, NEW j \in DOMAIN Worlds, NEW g, g = WithGives(Worlds[j]),
           NEW n \in DOMAIN Configured(g), NEW kind \in ToSet(Configured(g)[n].types),
           AsksDevices(Configured(g)[n].type, kind),
           NEW d \in DOMAIN g.peers[n][kind], NEW e \in DOMAIN g.peers[n][kind],
           NEW r \in g.peers[n][kind][d], NEW s \in g.peers[n][kind][e], r.id = s.id
    PROVE  g.names[n][d] = g.names[n][e]
<1> DEFINE w == Worlds[j]
<1>1. /\ Configured(g) = Configured(w) /\ g.peers = EchoGives(w, g.names)
      /\ \A m, k, f : EchoOf(g, m, k, f) = EchoOf(w, m, k, f)
  BY Given
<1>2. /\ "ISIS" \in DOMAIN g.peers[n] =>
            \A f \in DOMAIN g.peers[n]["ISIS"] :
                LET text == EchoOf(g, n, "ISIS", f)
                IN IsSeq(text) /\ \A line \in DOMAIN text : IsSeq(text[line].pairs)
  BY WorldsAssumption
<1> HIDE DEF w
<1>3. kind \in DOMAIN g.peers[n] /\ kind \in Peers
  BY <1>1 DEF EchoGives, AsksDevices
<1>4. ASSUME NEW f \in DOMAIN g.peers[n][kind], NEW x \in g.peers[n][kind][f]
      PROVE  f \in DOMAIN g.names[n] /\ Keyed(x.id, g.names[n][f])
  <2>1. f \in DOMAIN g.names[n] /\ x \in FromEcho(kind, g.names[n][f], EchoOf(w, n, kind, f))
    BY <1>1, <1>4, EchoesOf
  <2>2. kind = "ISIS" => LET text == EchoOf(w, n, "ISIS", f)
                         IN IsSeq(text) /\ \A line \in DOMAIN text : IsSeq(text[line].pairs)
    BY <1>1, <1>2, <1>3
  <2>3. PICK name, text : name = g.names[n][f] /\ text = EchoOf(w, n, kind, f)
    OBVIOUS
  <2>4. kind = "ISIS" => IsSeq(text) /\ \A l \in DOMAIN text : IsSeq(text[l].pairs)
    BY <2>2, <2>3
  <2>5. Keyed(x.id, name)
    <3>1. x \in FromEcho(kind, name, text) /\ kind \in Peers
      BY <1>3, <2>1, <2>3
    <3>2. QED
      BY ONLY <2>4, <3>1, EchoSpeaks, Zenon
  <2>6. QED
    BY <2>1, <2>3, <2>5
<1>5. PICK a, b : a = g.names[n][d] /\ b = g.names[n][e]
  OBVIOUS
<1>6. PlainName(a) /\ PlainName(b)
  BY <1>4, <1>5 DEF SourcesFit, SourceFits
<1>7. Keyed(r.id, a) /\ Keyed(r.id, b)
  BY <1>4, <1>5
<1>8. PICK S : \E y \in Seq(S) : r.id = a \o <<Separator>> \o y
  BY <1>7 DEF Keyed
<1>9. PICK T : \E z \in Seq(T) : r.id = b \o <<Separator>> \o z
  BY <1>7 DEF Keyed
<1>10. PICK y \in Seq(S) : r.id = a \o <<Separator>> \o y
  BY <1>8
<1>11. PICK z \in Seq(T) : r.id = b \o <<Separator>> \o z
  BY <1>9
<1>12. a = b
  BY <1>6, <1>10, <1>11, NamesApart
<1>13. QED
  BY <1>5, <1>12

-----------------------------------------------------------------------------
(* What is gathered comes from the sources.                                 *)

\* What a type owes is some of what its source gives.
LEMMA OwedGiven ==
    ASSUME registry = Configured(world), NEW n \in DOMAIN registry,
           NEW kind \in ToSet(registry[n].types)
    PROVE  Owed(n, kind) \subseteq GivenBy(world, n)
<1>1. ASSUME NEW list PROVE OwedList(n, kind, list) \subseteq ListGives(world, n, list)
  BY DEF OwedList, ListGives
<1>2. ASSUME NEW d PROVE OwedPeer(n, kind, d) \subseteq world.peers[n][kind][d]
  BY DEF OwedPeer
<1>3. Owed(n, kind) \subseteq Gives(world, n, kind)
  BY <1>1, <1>2 DEF Owed, Gives, DevicesGive
<1>4. QED
  BY <1>3 DEF GivenBy

\* Everything gathered is given by a source.
Sourced == buf \cup part \cup all \subseteq AllGiven(world)

\* While the process runs, the invariant says so: what is owed is given.
LEMMA GatheredIsGiven == CollectInv /\ Running => Sourced
<1> SUFFICES ASSUME CollectInv, Running PROVE Sourced
  OBVIOUS
<1>1. Fits(world) /\ Place /\ Gathered /\ Reading /\ Asking
  BY DEF CollectInv, Running
<1>2. registry = <<>> \/ registry = Configured(world)
  BY <1>1 DEF Place
<1>3. ASSUME NEW n \in DOMAIN registry PROVE Collected(n) \subseteq ToSet(registry[n].types)
  <2>1. registry = Configured(world)
    BY <1>2
  <2>2. Len(registry[n].types) \in Nat /\ DOMAIN registry[n].types = 1 .. Len(registry[n].types)
    BY <1>1, <2>1, SeqFacts DEF Fits
  <2>3. CASE n = cur
    <3>1. at \in Nat /\ at <= Len(registry[n].types) + 1
      <4>1. PICK m : m = Len(registry[n].types)
        OBVIOUS
      <4>2. phase \in {"types"} \cup Calling
        BY <1>1, <2>1, <2>3 DEF Place, Fits, Calling
      <4>3. at \in Nat \ {0} /\ at <= m + (IF phase = "types" THEN 1 ELSE 0)
        BY <1>1, <2>3, <4>1, <4>2 DEF Place
      <4>4. PICK k \in {0, 1} : at <= m + k
        BY <4>3
      <4>5. m \in Nat
        BY <2>2, <4>1
      <4>6. QED
        BY ONLY <4>1, <4>3, <4>4, <4>5
    <3>2. QED
      BY <2>2, <2>3, <3>1 DEF Collected, ToSet
  <2>4. CASE n # cur
    BY <2>4 DEF Collected
  <2>5. QED
    BY <2>3, <2>4
<1>4. all \subseteq AllGiven(world)
  <2> SUFFICES ASSUME NEW r \in all PROVE r \in AllGiven(world)
    OBVIOUS
  <2>1. PICK n \in DOMAIN registry : \E kind \in Collected(n) : r \in Owed(n, kind)
    BY <1>1 DEF Gathered
  <2>2. PICK kind \in Collected(n) : r \in Owed(n, kind)
    BY <2>1
  <2>3. registry = Configured(world) /\ kind \in ToSet(registry[n].types)
    BY <1>2, <1>3
  <2>4. r \in GivenBy(world, n)
    BY <2>2, <2>3, OwedGiven
  <2>5. QED
    BY <2>3, <2>4 DEF AllGiven
<1>5. ASSUME phase \in {"read", "peers"}
      PROVE  /\ registry = Configured(world) /\ cur \in DOMAIN registry
             /\ Kind \in ToSet(registry[cur].types)
  <2>1. registry = Configured(world) /\ cur \in DOMAIN registry
    BY <1>1, <1>5 DEF Place, Calling
  <2>2. Len(registry[cur].types) \in Nat /\ DOMAIN registry[cur].types = 1 .. Len(registry[cur].types)
    BY <1>1, <2>1, SeqFacts DEF Fits
  <2>3. at \in Nat \ {0} /\ at <= Len(registry[cur].types)
    <3>1. PICK m : m = Len(registry[cur].types)
      OBVIOUS
    <3>2. at \in Nat \ {0} /\ at <= m + 0
      BY <1>1, <1>5, <3>1 DEF Place, Calling
    <3>3. QED
      BY <2>2, <3>1, <3>2
  <2>4. QED
    BY <2>1, <2>2, <2>3 DEF Kind, ToSet
<1>6. part \subseteq AllGiven(world)
  <2> SUFFICES ASSUME phase = "read" PROVE part \subseteq AllGiven(world)
    BY <1>1 DEF Place
  <2> DEFINE type == registry[cur].type
             list == Head(lists)
             pages == world.pages[cur][list]
  <2>1. /\ Kind \in Supported(type) /\ ~AsksDevices(type, Kind)
        /\ list \in ToSet(Lists(type, Kind))
        /\ page \in Nat \ {0} /\ (page = 1 \/ page <= Len(pages))
        /\ part = UNION {pages[i] : i \in 1 .. page - 1}
    BY <1>1, ListBeingRead DEF Reading
  <2>2. IsSeq(pages)
    BY <1>1, ListBeingRead
  <2>3. Len(pages) \in Nat /\ DOMAIN pages = 1 .. Len(pages)
    BY <2>2, SeqFacts
  <2>4. 1 .. page - 1 \subseteq DOMAIN pages
    BY <2>1, <2>3
  <2>5. part \subseteq ListGives(world, cur, list)
    BY <2>1, <2>4 DEF ListGives
  <2>6. ListGives(world, cur, list) \subseteq Gives(world, cur, Kind)
    BY <1>5, <2>1 DEF Gives
  <2>7. QED
    BY <1>5, <2>5, <2>6 DEF AllGiven, GivenBy
<1>7. buf \subseteq AllGiven(world)
  <2>1. CASE phase = "read"
    <3>1. /\ Kind \in Supported(registry[cur].type) /\ ~AsksDevices(registry[cur].type, Kind)
          /\ buf = UNION {OwedList(cur, Kind, list) : list \in ReadLists}
      BY <1>1, <2>1 DEF Reading
    <3>2. buf \subseteq Owed(cur, Kind)
      BY <3>1 DEF ReadLists, Owed
    <3>3. QED
      BY <1>5, <2>1, <3>2, OwedGiven DEF AllGiven
  <2>2. CASE phase = "peers"
    <3>1. AsksDevices(registry[cur].type, Kind) /\ buf = UNION {OwedPeer(cur, Kind, d) : d \in Answered}
      BY <1>1, <2>2 DEF Asking
    <3>2. Kind \in Supported(registry[cur].type)
      BY <3>1 DEF AsksDevices, Supported
    <3>3. buf \subseteq Owed(cur, Kind)
      BY <3>1, <3>2 DEF Answered, Owed
    <3>4. QED
      BY <1>5, <2>2, <3>3, OwedGiven DEF AllGiven
  <2>3. CASE phase \notin {"read", "peers"}
    BY <1>1, <2>3 DEF Place
  <2>4. QED
    BY <2>1, <2>2, <2>3
<1>8. QED
  BY <1>4, <1>6, <1>7 DEF Sourced

\* The world is one of those given, with what it gives.
Origin == \E i \in DOMAIN Worlds : world = WithGives(Worlds[i])

\* Only the row that ends the process leads to its end, and it changes nothing else.
LEMMA EndsAsItWas ==
    ASSUME [Next]_vars, phase' = "crashed"
    PROVE  UNCHANGED <<world, buf, part, all>>
<1>1. CASE UNCHANGED vars
  BY <1>1 DEF vars, call
<1>2. CASE CreateFromConfig \/ PickConnector \/ NextConnector
  BY <1>2 DEF CreateFromConfig, PickConnector, NextConnector
<1>3. \A res, ok : Return(res, ok) => FALSE
  BY DEF Return
<1>4. \A got, bad : ListEnds(got, bad) => (phase = "read" => FALSE)
  BY <1>3 DEF ListEnds
<1>5. CASE Collect
  <2>1. phase' # "crashed"
    BY <1>3, <1>5 DEF Collect
  <2>2. QED
    BY <2>1
<1>6. CASE PageAnswers
  BY <1>4, <1>6 DEF PageAnswers
<1>7. CASE PageFails
  BY <1>4, <1>7 DEF PageFails
<1>8. CASE PageRefused
  BY <1>4, <1>8 DEF PageRefused
<1>9. CASE DevicesFail \/ DevicesAnswer \/ Launch \/ Wait
  BY <1>3, <1>9 DEF DevicesFail, DevicesAnswer, Launch, Wait
<1>10. CASE \E d \in flying : EchoArrives(d) \/ EchoFails(d)
  BY <1>10 DEF EchoArrives, EchoFails
<1>11. QED
  BY <1>1, <1>2, <1>5, <1>6, <1>7, <1>8, <1>9, <1>10 DEF Next

\* What the connectors have gathered comes from their sources, in every state.
LEMMA SourcedAlways == ASSUME WorldsApart PROVE Spec => []Sourced
<1>1. Init => Sourced
  BY DEF Init, Sourced
<1>2. (CollectInv /\ Running => Sourced)'
  BY GatheredIsGiven, PTL
<1>3. CollectInv' /\ Sourced /\ [Next]_vars => Sourced'
  <2> SUFFICES ASSUME CollectInv', Sourced, [Next]_vars PROVE Sourced'
    OBVIOUS
  <2>1. CASE Running'
    BY <1>2, <2>1
  <2>2. CASE Stopped'
    <3>1. phase' = "crashed"
      BY <2>2 DEF Stopped
    <3>2. UNCHANGED <<world, buf, part, all>>
      BY <3>1, EndsAsItWas
    <3>3. AllGiven(world)' = AllGiven(world)
      BY <3>2 DEF AllGiven, GivenBy, Gives, ListGives, DevicesGive
    <3>4. QED
      BY <3>2, <3>3 DEF Sourced
  <2>3. QED
    BY <2>1, <2>2 DEF CollectInv
<1>4. Spec => []CollectInv
  BY CollectSafe
<1>5. QED
  BY <1>1, <1>3, <1>4, PTL DEF Spec

\* No step changes the world.
LEMMA OriginKept == Spec => []Origin
<1>1. Init => Origin
  BY DEF Init, Origin
<1>2. [Next]_vars => world' = world
  BY DEF Next, vars, CreateFromConfig, PickConnector, NextConnector, Collect, PageAnswers,
         PageFails, PageRefused, DevicesFail, DevicesAnswer, Launch, Wait, EchoArrives, EchoFails
<1>3. Origin /\ [Next]_vars => Origin'
  BY <1>2 DEF Origin
<1>4. QED
  BY <1>1, <1>3, PTL DEF Spec

\* What the transforms make of the answers the ontology takes for what it was, and
\* adjacencies of different devices keep different keys, whatever the devices
\* answer and however the requests fail.
THEOREM TransformsAreSound ==
    ASSUME WorldsApart, SourcesFit
    PROVE  Spec => []TransformsSound
<1>1. Origin /\ Sourced => TranslatedFits
  <2> SUFFICES ASSUME Origin, Sourced, NEW r \in buf \cup part \cup all
               PROVE  LET et == Ontology[r.kind]
                          rest == [et EXCEPT !.props = Restrict(@, DOMAIN @ \ {"status", "state", "level"})]
                      IN Valid(rest, r.props) => Valid(et, applyDefaults(et.props, r.props))
    BY DEF TranslatedFits
  <2>1. PICK i \in DOMAIN Worlds : world = WithGives(Worlds[i])
    BY DEF Origin
  <2>2. r \in AllGiven(world)
    BY DEF Sourced
  <2>3. QED
    BY <2>1, <2>2, GivenFit
<1>2. Origin /\ CollectInv => PeersDistinct
  <2> SUFFICES ASSUME Origin, CollectInv, phase = "peers",
                      NEW d \in DOMAIN world.peers[cur][Kind], NEW e \in DOMAIN world.peers[cur][Kind],
                      NEW r \in world.peers[cur][Kind][d], NEW s \in world.peers[cur][Kind][e],
                      r.id = s.id
               PROVE  Names[d] = Names[e]
    BY DEF PeersDistinct
  <2>1. PICK i \in DOMAIN Worlds : world = WithGives(Worlds[i])
    BY DEF Origin
  <2>2. /\ Fits(world) /\ cur \in DOMAIN Configured(world) /\ registry = Configured(world)
        /\ at \in Nat \ {0} /\ at <= Len(registry[cur].types)
        /\ AsksDevices(registry[cur].type, Kind)
    BY DevicesBeingAsked
  <2>3. Kind \in ToSet(registry[cur].types)
    <3>1. Len(registry[cur].types) \in Nat /\ DOMAIN registry[cur].types = 1 .. Len(registry[cur].types)
      BY <2>2, SeqFacts DEF Fits
    <3>2. QED
      BY <2>2, <3>1 DEF Kind, ToSet
  <2>4. PICK n, k : n = cur /\ k = Kind
    OBVIOUS
  <2>5. world.names[n][d] = world.names[n][e]
    BY <2>1, <2>2, <2>3, <2>4, GivenApart
  <2>6. QED
    BY <2>4, <2>5 DEF Names
<1>3. QED
  BY <1>1, <1>2, SourcedAlways, OriginKept, CollectSafe, PTL DEF TransformsSound
=============================================================================
