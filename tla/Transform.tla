------------------------------- MODULE Transform -------------------------------
(***************************************************************************)
(* What the connectors make of one item of a data source                   *)
(* (controller/transform.go, controller/parser.go, netbox/transform.go).   *)
(* A raw item is a function from field names to values [t, v] as in        *)
(* Validation; the field b of an object under a is the field "a.b".        *)
(* transform* are tables: for each property the field it is read from,     *)
(* whether any type will do, the texts that are translated, and what the   *)
(* other texts become (<<>>: they stay).  The echo of a device is a        *)
(* sequence of lines.                                                      *)
(***************************************************************************)
EXTENDS Validation

CONSTANT Numerals           \* the words strconv.Atoi accepts

Text(word) == [t |-> "string", v |-> <<word>>]
Number(word) == [t |-> "int", v |-> <<word>>]

Take(field) == [from |-> field, any |-> FALSE, known |-> <<>>, other |-> <<>>]
TakeAny(field) == [Take(field) EXCEPT !.any = TRUE]
Translate(field, known, other) == [Take(field) EXCEPT !.known = known, !.other = other]

Translated(val, rule) ==
    IF val.t # "string" THEN val
    ELSE [t |-> "string",
          v |-> CASE val.v \in DOMAIN rule.known -> rule.known[val.v]
                  [] val.v \notin DOMAIN rule.known /\ rule.other # <<>> -> rule.other
                  [] OTHER -> val.v]

\* if v, ok := raw[from].(string); ok { props[field] = ... }, for every rule.
Rename(raw, table) ==
    [f \in {f \in DOMAIN table : /\ table[f].from \in DOMAIN raw
                                 /\ table[f].any \/ raw[table[f].from].t = "string"}
        |-> Translated(raw[table[f].from], table[f])]

\* f, and g for the names f has not: @@ of TLC, which has no definition to prove with.
With(f, g) == [x \in DOMAIN f \cup DOMAIN g |-> IF x \in DOMAIN f THEN f[x] ELSE g[x]]

Words(pairs) == [v \in {<<p[1]>> : p \in pairs} |-> <<(CHOOSE p \in pairs : <<p[1]>> = v)[2]>>]

statusMap == Words({<<"UP", "Up">>, <<"DOWN", "Down">>, <<"UNKNOWN", "Down">>,
                    <<"up", "Up">>, <<"down", "Down">>, <<"COMPLETED", "Up">>,
                    <<"PENDING", "Down">>, <<"FAILED", "Down">>})
severityMap == Words({<<"CRITICAL", "Critical">>, <<"MAJOR", "Major">>,
                      <<"MINOR", "Minor">>, <<"WARNING", "Warning">>})
deviceTypeMap == Words({<<"PE", "Edge">>, <<"P", "Core">>, <<"CE", "Access">>,
                        <<"ASBR", "Edge">>})
bgpStateMap == Words({<<"0", "Idle">>, <<"1", "Connect">>, <<"2", "Active">>,
                      <<"3", "OpenSent">>, <<"4", "OpenConfirm">>, <<"5", "Established">>})

\* Mutant: a state the map does not know stays.
mapStatusOrKeep(field, default) == Translate(field, statusMap, <<>>)

mapStatus(field, default) == Translate(field, statusMap, <<default>>)

\* strings.ToLower: the FSM states are compared without their case.
mapBGPState(val) ==
    LET fsm == {"Established", "Connect", "Idle", "Active", "OpenSent", "OpenConfirm"}
        lower == Words({<<"established", "Established">>, <<"connect", "Connect">>,
                        <<"idle", "Idle">>, <<"active", "Active">>,
                        <<"opensent", "OpenSent">>, <<"openconfirm", "OpenConfirm">>})
    IN CASE val \in DOMAIN bgpStateMap -> bgpStateMap[val]
         [] val \in {<<s>> : s \in fsm} -> val
         [] val \in DOMAIN lower -> lower[val]
         [] OTHER -> <<"Connect">>

transformDevice(raw) == Rename(raw,
    [serial_number |-> Take("name"), hostname |-> Take("name"),
     vendor |-> Take("vendor-id"), model |-> Take("product-name"),
     management_ip |-> Take("management-ip"),
     status |-> mapStatus("connect-status", "Up"),
     device_type |-> Translate("node-type", deviceTypeMap, <<>>),
     alias |-> Take("pe-alias"), platform |-> Take("platform-id"),
     as_number |-> TakeAny("pe-as"), version |-> Take("version"),
     pop_id |-> Take("pop-id")])

transformInterface(deviceName, port) == With(Rename(port,
    [if_name |-> Take("name"), status |-> mapStatus("status", "Up"),
     bandwidth |-> TakeAny("total-bandwidth"), description |-> Take("intf-description"),
     port_type |-> Take("port-type"), port_speed |-> Take("port-speed"),
     ipv4_address |-> Take("ipv4-addr")]), [device_serial |-> deviceName])

transformLink(raw) == Rename(raw,
    [link_id |-> Take("link-id"), name |-> Take("link-id"),
     bandwidth |-> TakeAny("cfg-bw"), status |-> mapStatus("link-status", "Up"),
     link_type |-> Take("link-type"), utilization_ratio |-> TakeAny("utilization-ratio"),
     delay |-> TakeAny("delay"), loss |-> TakeAny("loss"), jitter |-> TakeAny("jitter"),
     source_node |-> Take("source.source-node"), source_tp |-> Take("source.source-tp"),
     dest_node |-> Take("destination.dest-node"), dest_tp |-> Take("destination.dest-tp")])

transformAlarm(raw) == Rename(raw,
    [alarm_id |-> Take("id"), severity |-> Translate("level", severityMap, <<>>),
     message |-> Take("msg"), timestamp |-> Take("time"), source |-> Take("source"),
     category |-> Take("category"), component |-> Take("component"),
     recovery_time |-> TakeAny("recoveryTime")])

\* The prefix up to ":" is dropped; a text is its tokens.
normalizeVPNTopology(v) ==
    LET colon == {i \in DOMAIN v : v[i] = ":"}
    IN IF colon = {} THEN v
       ELSE SubSeq(v, (CHOOSE i \in colon : \A j \in colon : i <= j) + 1, Len(v))

\* strings.ToLower and "_" to "-", on the texts the controller sends.
normalizeVPNSvcType ==
    Words({<<"MPLS_VPN", "mpls-vpn">>, <<"VXLAN_EVPN", "vxlan-evpn">>,
           <<"VPLS", "vpls">>, <<"VPWS", "vpws">>})

transformVPN(raw, vpnType) ==
    LET props == Rename(raw,
            [vpn_id |-> Take("vpn-id"), name |-> Take("svc-name"),
             svc_type |-> Translate("vpn-svc-type", normalizeVPNSvcType, <<>>),
             tunnel_type |-> Take("vpn-tunnel-type"),
             topology |-> Take(IF vpnType = "L3" THEN "vpn-service-topology" ELSE "svc-topo"),
             site_count |-> TakeAny("site-count"), sna_count |-> TakeAny("sna-count"),
             status |-> mapStatus("pre-create-status", "Up"),
             create_time |-> Take("create-time"), update_time |-> Take("update-time")])
    IN [f \in DOMAIN props |->
           IF f = "topology" THEN [props[f] EXCEPT !.v = normalizeVPNTopology(@)]
           ELSE props[f]]

\* The objects of the list a field holds, or none.
Items(raw, field) ==
    IF field \in DOMAIN raw /\ raw[field].t = "list" THEN raw[field].v ELSE <<>>

\* te-tuples[].explicit-tunnel[] are counted, the first name found is kept.
transformTunnel(raw) ==
    LET paths == FlattenSeq([i \in DOMAIN Items(raw, "te-tuples") |->
                     Items(Items(raw, "te-tuples")[i], "explicit-tunnel")])
        named == SelectSeq(paths, LAMBDA p : Present(p, "tunnel-name"))
        count == [path_count |-> Number(ToString(Len(paths)))]
        name == IF named = <<>> THEN <<>> ELSE [tunnel_name |-> named[1]["tunnel-name"]]
    IN With(Rename(raw,
           [tunnel_id |-> Take("instance-id"), name |-> Take("policy-template-name"),
            status |-> mapStatus("cfg-status", "Down"),
            src_device |-> Take("te-policy-targets.src-device"),
            dst_device |-> Take("te-policy-targets.dst-device"),
            vpn_id |-> Take("te-policy-targets.l3-vpn-id")]), With(count, name))

\* fmt.Sprintf("%s_%s", peName, key)
Separator == "_"
PeerId(name, val) == [t |-> "string", v |-> name \o <<Separator>> \o val.v]

transformISISPeer(name, peer) == With(peer, [isis_id |-> PeerId(name, peer["system_id"])])

transformBGPPeer(name, peer) ==
    With([peer EXCEPT !["state"].v = mapBGPState(@)],
         [bgp_id |-> PeerId(name, peer["peer_ip"])])

-----------------------------------------------------------------------------
(* The echoes.  A line of a BGP echo is [kind, words]: the header line       *)
(* "Peer ... State", the two lines with a field, or any other line.          *)

\* The least number of words of a row.  Mutant: one less.
RowWordsLess == 6
RowWords == 7

Atoi(word) == Number(IF word \in Numerals THEN word ELSE "0")

\* extractBGPField: the first line that has the field.
extractBGPField(text, kind) ==
    LET found == SelectSeq(text, LAMBDA l : l.kind = kind)
    IN IF found = <<>> THEN "" ELSE found[1].words[1]

\* The rows after the header that are long enough.
BGPRows(text) ==
    {text[i] : i \in {i \in DOMAIN text : /\ Len(text[i].words) >= RowWords
                                         /\ \E h \in 1 .. i - 1 : text[h].kind = "header"}}

\* fields[7] of a row of seven words: index out of range.
BGPPanics(text) == \E row \in BGPRows(text) : Len(row.words) < 8

String(word) == [t |-> "string", v |-> IF word = "" THEN <<>> ELSE <<word>>]

\* The peers, without their order.
ParseBGPText(text) ==
    LET Peer(w) == [peer_ip |-> Text(w[1]), peer_as |-> Atoi(w[2]), uptime |-> Text(w[7]),
                    state |-> Text(w[Len(w)]),
                    router_id |-> String(extractBGPField(text, "router")),
                    local_as |-> Atoi(extractBGPField(text, "as"))]
    IN {Peer(row.words) : row \in BGPRows(text)}

\* A line of an ISIS echo is [kind, words, pairs]: a heading is skipped, a blank
\* line ends a block, the other lines hold pairs of a key and a value.
mapISISStatus(word) == IF word \in {"Up", "up", "UP", "Active", "active"}
                       THEN "Active" ELSE "Inactive"
mapISISLevel(word) == CASE word \in {"L2", "l2"} -> "L2"
                        [] word \in {"L1", "l1"} -> "L1"
                        [] OTHER -> "L1L2"

\* setISISField: the keys, with _ for a blank.
isisFields == [System_ID |-> "system_id", Area_ID |-> "area_id",
               Area_addresses |-> "area_id", State |-> "status", Type |-> "level",
               Level |-> "level", Interface |-> "interface", HoldTime |-> "holdtime",
               Circuit_ID |-> "circuit_id", PRI |-> "priority"]

setISISField(current, key, word) ==
    IF key \notin DOMAIN isisFields THEN current
    ELSE LET field == isisFields[key]
             value == CASE field = "status" -> mapISISStatus(word)
                        [] field = "level" -> mapISISLevel(word)
                        [] OTHER -> word
         IN With([f \in {field} |-> String(value)], current)

\* A block counts if it has a system id; the id of the process is the title's.
Flush(current, process) ==
    IF "system_id" \notin DOMAIN current THEN {}
    ELSE {IF process = "" THEN current ELSE With([process_id |-> Text(process)], current)}

\* The block after the pairs of one line.
ReadPairs(current, pairs) ==
    LET read[n \in 0 .. Len(pairs)] ==
            IF n = 0 THEN current ELSE setISISField(read[n - 1], pairs[n][1], pairs[n][2])
    IN read[Len(pairs)]

\* The peers and the block so far, after one line more.
ReadLine(s, line, process) ==
    CASE line.kind = "title" -> s
      [] line.kind = "blank" -> [peers |-> s.peers \cup Flush(s.current, process),
                                 current |-> <<>>]
      [] OTHER -> [s EXCEPT !.current = ReadPairs(@, line.pairs)]

\* The peers, without their order.
ParseISISText(text) ==
    LET titles == SelectSeq(text, LAMBDA l : l.kind = "title")
        process == IF titles = <<>> THEN "" ELSE titles[1].words[1]
        read[n \in 0 .. Len(text)] ==
            IF n = 0 THEN [peers |-> {}, current |-> <<>>]
            ELSE ReadLine(read[n - 1], text[n], process)
        end == read[Len(text)]
    IN end.peers \cup Flush(end.current, process)

-----------------------------------------------------------------------------
(* NetBox: the direct fields keep their names and types, the nested ones are   *)
(* lifted.  A nested object without the field gives nil.                       *)

netboxDevice(raw) == Rename(raw, With(
    [f \in {"serial", "name", "status", "platform", "role"} |-> TakeAny(f)],
    [device_type |-> TakeAny("device_type.slug"), site |-> TakeAny("site.name")]))

netboxInterface(raw) == Rename(raw, With(
    [f \in {"name", "type", "enabled", "mtu", "mac_address", "description"} |-> TakeAny(f)],
    [device_name |-> TakeAny("device.name")]))
=============================================================================
