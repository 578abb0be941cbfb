------------------------------ MODULE Collection ------------------------------
(***************************************************************************)
(* Collecting for a full sync (sync_service.go, connector/factory.go,      *)
(* controller/controller.go, api_topology.go, netbox.go, mock.go): the     *)
(* connectors of the configuration are created, then every one is asked    *)
(* for every entity type it lists.  A list is read page by page, the ISIS  *)
(* and BGP peers with one call for each device, at most Limit at a time.   *)
(*                                                                         *)
(* A world is [entries, data]: the configuration and, for each connector,  *)
(* what its source holds: pages of raw items for each list, and an echo    *)
(* for each device.  A request is answered, refused (4xx with a JSON body) *)
(* or fails (an error of HTTPClient.Do, an unreadable body).               *)
(***************************************************************************)
EXTENDS Transform

CONSTANTS Worlds, Builders, Limit, Ontology, NoOne

VARIABLES
    world,      \* the world, with what its sources give
    registry,   \* ConnectorRegistry.connectors: name -> entry
    phase,      \* where FullSync is
    todo,       \* the connectors it has not reached
    cur, at,    \* the connector being asked, and the index of the type
    lists,      \* the lists Collect has still to read, the first is being read
    page,       \* the page asked for
    part,       \* what the list has given
    buf,        \* what Collect has gathered
    errs,       \* the lists that ended with an error
    next,       \* the next device to ask
    slots,      \* len(sem)
    flying,     \* the devices being asked
    all,        \* allResources, without their order
    failed,     \* history: the requests that failed or were refused
    last        \* history: the answer of the latest Collect

call == <<lists, page, part, buf, errs, next, slots, flying>>
control == <<phase, cur, at, lists, page, next, flying>>
vars == <<world, registry, phase, todo, cur, at, call, all, failed, last>>

Entries(w) == w.entries

\* A later entry of a name replaces an earlier one.
Configured(w) ==
    [n \in {Entries(w)[i].name : i \in DOMAIN Entries(w)} |->
        Entries(w)[CHOOSE i \in DOMAIN Entries(w) :
            /\ Entries(w)[i].name = n
            /\ \A j \in DOMAIN Entries(w) : Entries(w)[j].name = n => j <= i]]

Kind == registry[cur].types[at]

Plain == {"Device", "Interface", "Link", "Alarm", "Tunnel"}
Peers == {"ISIS", "BGP"}

\* The switch of each Collect; a mock supports the types it has a file name for.
Supported(type) ==
    CASE type = "controller" -> Plain \cup Peers \cup {"VPN"}
      [] type = "netbox" -> {"Device", "Interface"}
      [] OTHER -> {"Device", "Interface", "ISIS", "Link", "Network_Slice", "Alarm"}

AsksDevices(type, kind) == type = "controller" /\ kind \in Peers

\* The lists one Collect reads, in order.  Interfaces are in the devices.
Lists(type, kind) == IF type = "controller" /\ kind = "VPN" THEN <<"L3", "L2">> ELSE <<kind>>

Pages(w, n, type, list) ==
    LET key == IF type = "controller" /\ list = "Interface" THEN "Device" ELSE list
        held == w.data[n]
    IN IF key \in DOMAIN held THEN held[key] ELSE <<>>

IdOf(raw, field) ==
    IF field \in DOMAIN raw /\ raw[field].t = "string" THEN raw[field].v ELSE <<>>

Resource(kind, id, props) == [kind |-> kind, id |-> id, props |-> props]

\* What one raw item, the i-th of its page, becomes.
FromController(list, raw) ==
    CASE list = "Device" -> {Resource("Device", IdOf(raw, "id"), transformDevice(raw))}
      [] list = "Interface" ->
           {Resource("Interface", IdOf(port, "id"),
                     transformInterface([t |-> "string", v |-> IdOf(raw, "name")], port)) :
               port \in ToSet(Items(raw, "peports.peport-info"))}
      [] list = "Link" -> {Resource("Link", IdOf(raw, "link-id"), transformLink(raw))}
      [] list = "Alarm" -> {Resource("Alarm", IdOf(raw, "id"), transformAlarm(raw))}
      [] list = "Tunnel" -> {Resource("Tunnel", IdOf(raw, "instance-id"), transformTunnel(raw))}
      [] OTHER -> {Resource("VPN", IdOf(raw, "vpn-id"), transformVPN(raw, list))}

FromNetbox(list, raw) ==
    {Resource(list, raw["id"].v, IF list = "Device" THEN netboxDevice(raw)
                                                    ELSE netboxInterface(raw))}

FromMock(list, raw, i) ==
    {Resource(list, IF IdOf(raw, "id") = <<>> THEN <<list, "-", ToString(i - 1)>>
                                              ELSE IdOf(raw, "id"), raw)}

FromPage(type, list, items) ==
    UNION {CASE type = "controller" -> FromController(list, items[i])
             [] type = "netbox" -> FromNetbox(list, items[i])
             [] OTHER -> FromMock(list, items[i], i) : i \in DOMAIN items}

\* The peers one echo gives.
FromEcho(kind, name, text) ==
    IF kind = "ISIS"
    THEN {Resource(kind, p["isis_id"].v, p) :
             p \in {transformISISPeer(name, peer) : peer \in ParseISISText(text)}}
    ELSE {Resource(kind, p["bgp_id"].v, p) :
             p \in {transformBGPPeer(name, peer) : peer \in ParseBGPText(text)}}

DevicesOf(w, n) == FlattenSeq(w.data[n]["Device"])
EchoOf(w, n, kind, d) == w.data[n][kind][IdOf(DevicesOf(w, n)[d], "name")]

\* The same for every page and echo of a world.
PageGives(w) ==
    [n \in DOMAIN Configured(w) |->
        LET c == Configured(w)[n]
            kinds == {k \in ToSet(c.types) \cap Supported(c.type) : ~AsksDevices(c.type, k)}
        IN [list \in UNION {ToSet(Lists(c.type, k)) : k \in kinds} |->
               [i \in DOMAIN Pages(w, n, c.type, list) |->
                   FromPage(c.type, list, Pages(w, n, c.type, list)[i])]]]

DeviceNames(w) ==
    [n \in DOMAIN Configured(w) |->
        IF Configured(w)[n].type # "controller" THEN <<>>
        ELSE [d \in DOMAIN DevicesOf(w, n) |-> IdOf(DevicesOf(w, n)[d], "name")]]

EchoGives(w, names) ==
    [n \in DOMAIN Configured(w) |->
        LET c == Configured(w)[n]
        IN [k \in {k \in ToSet(c.types) : AsksDevices(c.type, k)} |->
               [d \in {d \in DOMAIN names[n] : names[n][d] # <<>>} |->
                   IF k = "BGP" /\ BGPPanics(EchoOf(w, n, k, d)) THEN {}
                   ELSE FromEcho(k, names[n][d], EchoOf(w, n, k, d))]]]

\* A world with what it gives, which the run would else compute at every step.
WithGives(w) ==
    [entries |-> w.entries, data |-> w.data, names |-> DeviceNames(w),
     pages |-> PageGives(w), peers |-> EchoGives(w, DeviceNames(w))]

Names == world.names[cur]

IsSeq(s) == s \in Seq(ToSet(s))

\* The configuration and the answers are lists, and NoOne is no connector.
ASSUME WorldsAssumption ==
    /\ Limit \in Nat
    /\ \A i \in DOMAIN Worlds :
        LET g == WithGives(Worlds[i])
        IN \A n \in DOMAIN Configured(g) :
              /\ n # NoOne
              /\ IsSeq(Configured(g)[n].types)
              /\ IsSeq(g.names[n])
              /\ \A list \in DOMAIN g.pages[n] : IsSeq(g.pages[n][list])
              /\ "BGP" \in DOMAIN g.peers[n] =>
                    \A d \in DOMAIN g.peers[n]["BGP"] :
                        LET text == EchoOf(g, n, "BGP", d)
                        IN \A line \in DOMAIN text : IsSeq(text[line].words)
              /\ "ISIS" \in DOMAIN g.peers[n] =>
                    \A d \in DOMAIN g.peers[n]["ISIS"] :
                        LET text == EchoOf(g, n, "ISIS", d)
                        IN IsSeq(text) /\ \A line \in DOMAIN text : IsSeq(text[line].pairs)

\* A record of what went wrong: at is the page or the device, 0 the device list.
Failure(list, n, how) == [conn |-> cur, kind |-> Kind, list |-> list, at |-> n, how |-> how]

-----------------------------------------------------------------------------
Init ==
    /\ \E w \in DOMAIN Worlds : world = WithGives(Worlds[w])
    /\ registry = <<>>
    /\ phase = "start"
    /\ todo = {} /\ cur = NoOne /\ at = 0
    /\ lists = <<>> /\ page = 0 /\ part = {} /\ buf = {} /\ errs = {}
    /\ next = 0 /\ slots = 0 /\ flying = {}
    /\ all = {} /\ failed = {}
    /\ last = [conn |-> NoOne, kind |-> "", ok |-> TRUE, res |-> {}]

\* Create fails for the first type without a builder; main then exits.
CreateFromConfig ==
    /\ phase = "start"
    /\ IF \A i \in DOMAIN Entries(world) : Entries(world)[i].type \in Builders
       THEN /\ registry' = Configured(world)
            /\ todo' = DOMAIN Configured(world)
            /\ phase' = "pick"
       ELSE phase' = "exited" /\ UNCHANGED <<registry, todo>>
    /\ UNCHANGED <<world, cur, at, call, all, failed, last>>

\* registry.List ranges over a map: any order.
PickConnector ==
    /\ phase = "pick"
    /\ \E n \in todo : cur' = n /\ todo' = todo \ {n}
    /\ at' = 1
    /\ phase' = "types"
    /\ UNCHANGED <<world, registry, call, all, failed, last>>

NextConnector ==
    /\ phase = "types" /\ at > Len(registry[cur].types)
    /\ phase' = IF todo = {} THEN "done" ELSE "pick"
    /\ cur' = NoOne
    /\ UNCHANGED <<world, registry, todo, at, call, all, failed, last>>

\* Mutant: an error ends the connector.
ReturnAndLeave(res, ok) ==
    /\ all' = all \cup (IF ok THEN res ELSE {})
    /\ last' = [conn |-> cur, kind |-> Kind, ok |-> ok, res |-> res]
    /\ at' = IF ok THEN at + 1 ELSE Len(registry[cur].types) + 1
    /\ phase' = "types"
    /\ lists' = <<>> /\ page' = 0 /\ part' = {} /\ buf' = {} /\ errs' = {}
    /\ next' = 0

\* Collect returns: FullSync keeps what it got, an error skips this type only.
Return(res, ok) ==
    /\ all' = all \cup (IF ok THEN res ELSE {})
    /\ last' = [conn |-> cur, kind |-> Kind, ok |-> ok, res |-> res]
    /\ at' = at + 1
    /\ phase' = "types"
    /\ lists' = <<>> /\ page' = 0 /\ part' = {} /\ buf' = {} /\ errs' = {}
    /\ next' = 0

Collect ==
    /\ phase = "types" /\ at <= Len(registry[cur].types)
    /\ LET type == registry[cur].type
       IN CASE Kind \notin Supported(type) -> Return({}, FALSE)
            [] AsksDevices(type, Kind) ->
                 /\ phase' = "devices"
                 /\ UNCHANGED <<at, lists, page, part, buf, errs, next, all, last>>
            [] OTHER ->
                 /\ phase' = "read"
                 /\ lists' = Lists(type, Kind)
                 /\ page' = 1
                 /\ UNCHANGED <<at, part, buf, errs, next, all, last>>
    /\ UNCHANGED <<world, registry, todo, cur, slots, flying, failed>>

-----------------------------------------------------------------------------
(* Lists, page by page.                                                      *)

\* A list has given got, the lists in bad have ended with an error.  Collect
\* fails when nothing came and a list failed.
ListEnds(got, bad) ==
    IF Len(lists) = 1
    THEN Return(buf \cup got, bad = {} \/ buf \cup got # {})
    ELSE /\ lists' = Tail(lists) /\ page' = 1 /\ part' = {}
         /\ buf' = buf \cup got /\ errs' = bad
         /\ UNCHANGED <<phase, at, next, all, last>>

\* A mock answers only if its file is there.
PageAnswers ==
    /\ phase = "read"
    /\ LET list == Head(lists)
           type == registry[cur].type
           pages == world.pages[cur][list]
           got == IF page <= Len(pages) THEN part \cup pages[page] ELSE part
           end == \/ page >= Len(pages)
                  \/ type = "controller" /\ pages[page] = {}
       IN /\ type = "mock" => list \in DOMAIN world.data[cur]
          /\ IF end THEN ListEnds(got, errs)
             ELSE /\ part' = got /\ page' = page + 1
                  /\ UNCHANGED <<phase, at, lists, buf, errs, next, all, last>>
    /\ UNCHANGED <<world, registry, todo, cur, slots, flying, failed>>

\* The request fails, the body is unreadable or the file of a mock is: the list
\* is lost with the pages it has given.
PageFails ==
    /\ phase = "read"
    /\ failed' = failed \cup {Failure(Head(lists), page, "error")}
    /\ ListEnds({}, errs \cup {Head(lists)})
    /\ UNCHANGED <<world, registry, todo, cur, slots, flying>>

\* 4xx: the plain lists look at the status; the paged ones read the body as a
\* page with no items and no successor.
PageRefused ==
    /\ phase = "read" /\ registry[cur].type # "mock"
    /\ failed' = failed \cup {Failure(Head(lists), page, "refused")}
    /\ IF registry[cur].type = "controller" /\ Head(lists) \in Plain
       THEN ListEnds({}, errs \cup {Head(lists)})
       ELSE ListEnds(part, errs)
    /\ UNCHANGED <<world, registry, todo, cur, slots, flying>>

-----------------------------------------------------------------------------
(* ISIS and BGP: one call for each device.                                   *)

DevicesFail ==
    /\ phase = "devices"
    /\ failed' = failed \cup {Failure("Device", 0, "error")}
    /\ Return({}, FALSE)
    /\ UNCHANGED <<world, registry, todo, cur, slots, flying>>

DevicesAnswer ==
    /\ phase = "devices"
    /\ phase' = "peers" /\ next' = 1
    /\ UNCHANGED <<world, registry, todo, cur, at, lists, page, part, buf, errs,
                   slots, flying, all, failed, last>>

\* sem <- struct{}{}; go func(dev).  A device without a name is skipped.
Launch ==
    /\ phase = "peers" /\ next <= Len(Names)
    /\ IF Names[next] = <<>> THEN UNCHANGED <<slots, flying>>
       ELSE slots < Limit /\ slots' = slots + 1 /\ flying' = flying \cup {next}
    /\ next' = next + 1
    /\ UNCHANGED <<world, registry, phase, todo, cur, at, lists, page, part, buf,
                   errs, all, failed, last>>

\* The peers are appended under mu.  A row BGPPanics finds ends the process: the
\* goroutine has no recover.
EchoArrives(d) ==
    /\ phase = "peers" /\ d \in flying
    /\ IF Kind = "BGP" /\ BGPPanics(EchoOf(world, cur, Kind, d))
       THEN phase' = "crashed" /\ UNCHANGED buf
       ELSE buf' = buf \cup world.peers[cur][Kind][d] /\ UNCHANGED phase
    /\ slots' = slots - 1 /\ flying' = flying \ {d}
    /\ UNCHANGED <<world, registry, todo, cur, at, lists, page, part, errs, next,
                   all, failed, last>>

\* Mutant: the slot is not given back.
EchoFailsHolding(d) ==
    /\ phase = "peers" /\ d \in flying
    /\ failed' = failed \cup {Failure(Kind, d, "error")}
    /\ flying' = flying \ {d}
    /\ UNCHANGED <<world, registry, phase, todo, cur, at, lists, page, part, buf, errs,
                   next, slots, all, last>>

\* Only this device is left out.
EchoFails(d) ==
    /\ phase = "peers" /\ d \in flying
    /\ failed' = failed \cup {Failure(Kind, d, "error")}
    /\ slots' = slots - 1 /\ flying' = flying \ {d}
    /\ UNCHANGED <<world, registry, phase, todo, cur, at, lists, page, part, buf, errs,
                   next, all, last>>

\* wg.Wait(); return resources, nil
Wait ==
    /\ phase = "peers" /\ next > Len(Names) /\ flying = {}
    /\ Return(buf, TRUE)
    /\ UNCHANGED <<world, registry, todo, cur, slots, flying, failed>>

-----------------------------------------------------------------------------
Next ==
    \/ CreateFromConfig \/ PickConnector \/ NextConnector \/ Collect
    \/ PageAnswers \/ PageFails \/ PageRefused
    \/ DevicesFail \/ DevicesAnswer \/ Launch \/ Wait
    \/ \E d \in flying : EchoArrives(d) \/ EchoFails(d)

Spec == Init /\ [][Next]_vars

\* One goroutine runs the loop, and every request returns (HttpClient!CallsReturn);
\* no step leaves control as it was.
FairSpec == Spec /\ WF_control(Next)

-----------------------------------------------------------------------------
\* The slots are those of the devices being asked, and no device is asked outside
\* of the two collects that ask devices: none outlives the Collect that started it.
TypeOK ==
    /\ phase \in {"start", "pick", "types", "read", "devices", "peers",
                  "done", "exited", "crashed"}
    /\ slots = Cardinality(flying) /\ slots <= Limit
    /\ flying # {} => phase \in {"peers", "crashed"} /\ Kind \in Peers
    /\ part # {} => phase = "read"
    /\ errs \subseteq {"L3", "L2"}

Bad(name, kind, list, how) ==
    {f \in failed : f.conn = name /\ f.kind = kind /\ f.list = list /\ f.how = how}

\* A list whole, or up to the page that was refused, or nothing.
OwedList(name, kind, list) ==
    LET type == registry[name].type
        refused == {f.at : f \in Bad(name, kind, list, "refused")}
        whole == world.pages[name][list]
        lost == \/ Bad(name, kind, list, "error") # {}
                \/ refused # {} /\ type = "controller" /\ list \in Plain
    IN UNION {whole[i] : i \in {i \in DOMAIN whole : ~lost /\ \A r \in refused : i < r}}

\* The peers of a device, unless it or the list of devices did not answer.
OwedPeer(name, kind, d) ==
    IF \/ Bad(name, kind, "Device", "error") # {}
       \/ \E f \in Bad(name, kind, kind, "error") : f.at = d
    THEN {} ELSE world.peers[name][kind][d]

\* What Collect owes for a type, given the requests that went wrong.
Owed(name, kind) ==
    LET type == registry[name].type
    IN IF kind \notin Supported(type) THEN {}
       ELSE IF AsksDevices(type, kind)
       THEN UNION {OwedPeer(name, kind, d) : d \in DOMAIN world.peers[name][kind]}
       ELSE UNION {OwedList(name, kind, list) : list \in ToSet(Lists(type, kind))}

\* A failing request costs what it was to bring and nothing else: the other types,
\* connectors and devices are collected whole (FullSync's tolerance of failures).
FailureIsolated ==
    phase = "done" =>
        all = UNION {UNION {Owed(n, kind) : kind \in ToSet(registry[n].types)} :
                        n \in DOMAIN registry}

\* A collected resource that fits the ontology without its status, state and
\* level fits it with them.
TranslatedFits ==
    \A r \in buf \cup part \cup all :
        LET et == Ontology[r.kind]
            rest == [et EXCEPT !.props = Restrict(@, DOMAIN @ \ {"status", "state", "level"})]
        IN Valid(rest, r.props) => Valid(et, applyDefaults(et.props, r.props))

\* Two adjacencies of different devices never share their key.
PeersDistinct ==
    phase = "peers" /\ next > Len(Names) =>
        LET gives == world.peers[cur][Kind]
        IN \A d, e \in DOMAIN gives :
              Names[d] # Names[e] => \A r \in gives[d], s \in gives[e] : r.id # s.id

\* What the transforms make of a controller's answers the rest of the pipeline
\* takes for what it was: no state is unknown to the ontology, no adjacency is
\* merged with that of another device.
TransformsSound == TranslatedFits /\ PeersDistinct

\* The process dies of a BGP row of seven words and of nothing else.
CrashCause ==
    phase = "crashed" =>
        \E d \in DOMAIN world.peers[cur]["BGP"] :
            LET text == EchoOf(world, cur, "BGP", d)
            IN \E i \in DOMAIN text : Len(text[i].words) = 7

\* Collecting ends, whatever fails: no slot is lost, nobody waits for a device
\* that has answered.
SyncEnds == <>(phase \in {"done", "exited", "crashed"})

\* The comment of Connector.Collect: an empty answer means that there is no data,
\* an unreachable source is an error.
EmptyMeansNoData ==
    last.ok /\ last.res = {} =>
        ~\E f \in failed : f.conn = last.conn /\ f.kind = last.kind
=============================================================================
