----------------------------- MODULE MCCollection -----------------------------
(***************************************************************************)
(* Values for TLC: the ontology of src/ontology, in the types and fields   *)
(* the worlds use, and six worlds: a controller with every kind of list    *)
(* and three named devices, one whose echoes are odd, one of NetBox and    *)
(* mocks, one with a connector that has no builder.                        *)
(***************************************************************************)
EXTENDS Collection

Str(words) == [t |-> "string", v |-> words]
ListOf(items) == [t |-> "list", v |-> items]
Nil == [t |-> "nil", v |-> <<>>]

Prop(type, required, enum, default) ==
    [type |-> type, required |-> required, enum |-> {<<e>> : e \in enum},
     default |-> IF default = "" THEN Nil ELSE Text(default)]
Required == Prop("string", TRUE, {}, "")
Type(keys, props) == [keys |-> keys, props |-> props]

UpDown == Prop("string", FALSE, {"Up", "Down"}, "Up")
States == {"Established", "Connect", "Idle", "Active", "OpenSent", "OpenConfirm"}

MCOntology ==
    [Device |-> Type(<<"serial_number">>,
         [serial_number |-> Required, hostname |-> Required,
          status |-> Prop("string", FALSE, {"Up", "Down", "Maintenance"}, "Up"),
          device_type |-> Prop("string", FALSE, {"Core", "Edge", "Access"}, "")]),
     Interface |-> Type(<<"device_serial", "if_name">>,
         [device_serial |-> Required, if_name |-> Required, status |-> UpDown,
          bandwidth |-> Prop("int", FALSE, {}, "")]),
     Link |-> Type(<<"link_id">>, [link_id |-> Required, status |-> UpDown]),
     Alarm |-> Type(<<"alarm_id">>,
         [alarm_id |-> Required,
          severity |-> Prop("string", FALSE, {"Critical", "Major", "Minor", "Warning"}, "")]),
     Tunnel |-> Type(<<"tunnel_id">>, [tunnel_id |-> Required, status |-> UpDown,
                                       path_count |-> Prop("int", FALSE, {}, "")]),
     VPN |-> Type(<<"vpn_id">>,
         [vpn_id |-> Required, status |-> UpDown,
          svc_type |-> Prop("string", FALSE, {"mpls-vpn", "vxlan-evpn", "vpls", "vpws"}, ""),
          topology |-> Prop("string", FALSE, {"any-to-any", "hub-spoke"}, "")]),
     ISIS |-> Type(<<"isis_id">>,
         [isis_id |-> Required, system_id |-> Required,
          level |-> Prop("string", FALSE, {"L1", "L2", "L1L2"}, "L1L2"),
          status |-> Prop("string", FALSE, {"Active", "Inactive"}, "Active")]),
     BGP |-> Type(<<"bgp_id">>,
         [bgp_id |-> Required, peer_ip |-> Required, peer_as |-> Prop("int", FALSE, {}, ""),
          state |-> Prop("string", FALSE, States, "Connect")])]

Ctl(name, types) == [name |-> name, type |-> "controller", types |-> types]
Entry(name, type, types) == [name |-> name, type |-> type, types |-> types]
World(entries, data) == [entries |-> entries, data |-> data]

Port(name, status) == ("id" :> Text(name)) @@ ("name" :> Text(name)) @@ ("status" :> Text(status))
PE(name, type, status, ports) ==
    ("id" :> Text(name)) @@ ("name" :> Text(name)) @@ ("node-type" :> Text(type))
    @@ ("connect-status" :> Text(status)) @@ ("peports.peport-info" :> ListOf(ports))
    @@ ("pe-as" :> Number("65000"))
Nameless == "id" :> Text("x")

\* Echoes: two rows after the header, rows before it, a row too short.
Line(kind, words) == [kind |-> kind, words |-> words]
Header == Line("header", <<"Peer", "AS", "State">>)
Row(ip, state) == Line("row", <<ip, "65001", "0", "0", "0", "0", "01h", state>>)
Short == Line("row", <<"10.0.0.9", "65001", "0", "0", "0", "0">>)
Seven == Line("row", <<"10.0.0.8", "65001", "0", "0", "0", "0", "01h">>)
Echo(rows) == <<Line("router", <<"1.1.1.1">>), Line("as", <<"65000">>), Header>> \o rows

Title == [kind |-> "title", words |-> <<"10">>, pairs |-> <<>>]
Blank == [kind |-> "blank", words |-> <<>>, pairs |-> <<>>]
Pairs(ps) == [kind |-> "pairs", words |-> <<>>, pairs |-> ps]
Neighbour(id, state) ==
    <<Pairs(<<<<"System_ID", id>>>>), Pairs(<<<<"State", state>>, <<"Type", "L2">>, <<"X", "1">>>>)>>

Vpn(id, status, topology) ==
    ("vpn-id" :> Text(id)) @@ ("vpn-svc-type" :> Text("MPLS_VPN"))
    @@ ("pre-create-status" :> Text(status))
    @@ ("vpn-service-topology" :> Str(topology)) @@ ("svc-topo" :> Str(topology))

NoPages == <<>>
Fleet == <<<<PE("r1", "PE", "UP", <<Port("ge1", "up")>>),
             PE("r2", "P", "LOST", <<Port("ge1", "weird"), Port("ge2", "DOWN")>>),
             Nameless, PE("r3", "RR", "DOWN", <<>>)>>>>

\* The neighbour n1 is met from r1 and r2; r2 reports states nobody knows.
Controller(types) ==
    World(<<Ctl("ctl", types)>>,
        "ctl" :> ("Device" :> Fleet
          @@ "L3" :> <<<<Vpn("v1", "COMPLETED", <<"ietf", ":", "any-to-any">>)>>,
                       <<Vpn("v2", "FAILED", <<"hub-spoke">>)>>>>
          @@ "L2" :> <<<<Vpn("v3", "??", <<"mesh">>)>>, <<>>>>
          @@ "Link" :> <<<<("link-id" :> Text("l1")) @@ ("link-status" :> Text("??"))
                           @@ ("source.source-node" :> Text("r1"))>>>>
          @@ "Alarm" :> <<<<("id" :> Text("a1")) @@ ("level" :> Text("MAJOR")),
                            ("id" :> Text("a2")) @@ ("level" :> Text("INFO"))>>>>
          @@ "Tunnel" :> <<<<("instance-id" :> Text("t1")) @@ ("cfg-status" :> Text("??"))
                             @@ ("te-tuples" :> ListOf(<<"explicit-tunnel" :>
                                    ListOf(<<"x" :> Nil, "tunnel-name" :> Text("p")>>)>>))>>>>
          @@ "ISIS" :> (<<"r1">> :> (<<Title>> \o Neighbour("n1", "Up"))
                        @@ <<"r2">> :> (<<Title>> \o Neighbour("n1", "Down") \o <<Blank>>
                                        \o Neighbour("n2", "active") \o <<Blank, Blank>>)
                        @@ <<"r3">> :> <<>>)
          @@ "BGP" :> (<<"r1">> :> Echo(<<Row("10.0.0.1", "Established"), Short>>)
                       @@ <<"r2">> :> Echo(<<Row("10.0.0.1", "4"), Row("10.0.0.2", "77")>>)
                       @@ <<"r3">> :> <<Row("10.0.0.3", "Idle")>>)))

Odd == World(<<Ctl("ctl", <<"BGP">>)>>,
           "ctl" :> ("Device" :> Fleet
               @@ "BGP" :> (<<"r1">> :> Echo(<<Row("10.0.0.1", "idle")>>)
                            @@ <<"r2">> :> Echo(<<Short, Seven>>)
                            @@ <<"r3">> :> <<Seven>>)))

Box == ("id" :> Text("7")) @@ ("serial" :> Text("s7")) @@ ("name" :> Text("r1"))
       @@ ("status" :> Text("active")) @@ ("device_type.slug" :> Text("mx"))
       @@ ("mtu" :> Number("9000"))

Others ==
    World(<<Entry("nb", "mock", <<"Alarm">>), Entry("nb", "netbox", <<"Device", "Interface", "VPN">>),
            Entry("m", "mock", <<"Device", "Link", "BGP">>)>>,
        "nb" :> ("Device" :> <<<<Box>>, <<>>, <<[Box EXCEPT !["id"] = Text("8")]>>>>
                 @@ "Interface" :> <<<<Box>>>>)
        @@ "m" :> ("Device" :> <<<<("serial_number" :> Text("s1")) @@ ("hostname" :> Text("r1")),
                                   ("id" :> Text("d2")) @@ ("serial_number" :> Text("s2"))>>>>))

MCWorlds ==
    <<Controller(<<"Device", "Interface", "VPN">>), Controller(<<"ISIS", "Device", "BGP">>),
      Controller(<<"Link", "Alarm", "Tunnel", "POP">>), Odd, Others,
      World(<<Entry("m", "mock", <<>>), Entry("c", "cmdb", <<"Device">>)>>, ("m" :> <<>>) @@ ("c" :> <<>>))>>
=============================================================================
