------------------------------ MODULE MCPipeline ------------------------------
(***************************************************************************)
(* Values for TLC.  Three entity types in all 125 inheritance graphs, with *)
(* a parent that does not exist and with cycles, and directories with      *)
(* documents that are empty, invalid or defined twice; and the interfaces  *)
(* of ontology/interface.yaml with resources that share a URI.             *)
(***************************************************************************)
EXTENDS GraphAssembler

Text(s)   == [t |-> "string", v |-> s]
Nil       == [t |-> "nil", v |-> <<>>]
Whole(s)   == [t |-> "int", v |-> <<s>>]
List(ss)  == [t |-> "list", v |-> ss]
Lit(s)    == [hole |-> FALSE, s |-> s]
Key(s)    == [hole |-> TRUE, s |-> s]

Prop(type, required, enum, default) ==
    [type |-> type, required |-> required, enum |-> enum, default |-> default]
Rule(field, pattern, replace) == [field |-> field, pattern |-> pattern, replace |-> replace]

Entity(name, extends, props, mapping, rules, fields, keys, template) ==
    [kind |-> "entity", name |-> name, extends |-> extends, props |-> props,
     mapping |-> mapping, rules |-> rules, fields |-> fields, keys |-> keys,
     template |-> template]
Relation(name, source) == [kind |-> "relation", name |-> name, source |-> source]
Plain(kind) == [kind |-> kind]

None == <<>>

Resource(ext) ==
    Entity(1, ext, ("sn" :> Prop("string", TRUE, {}, Nil))
                   @@ ("status" :> Prop("string", FALSE, {<<"up">>, <<"down">>}, Text(<<"up">>))),
           ("host" :> "name") @@ ("ip" :> "addr"), <<Rule("name", " ", "_")>>,
           ("peers" :> 1), None, None)
Device(ext) ==
    Entity(2, ext, ("name" :> Prop("string", TRUE, {}, Nil))
                   @@ ("status" :> Prop("string", FALSE, {<<"down">>}, Text(<<"down">>))),
           ("ip" :> "mgmt"), None, None,
           <<"sn", "name">>, <<Lit("device"), Key("sn"), Lit("_"), Key("name")>>)
Router(ext) ==
    Entity(3, ext, ("mtu" :> Prop("int", FALSE, {}, Nil)),
           ("host" :> "sn"), <<Rule("name", "_", "-"), Rule("sn", "a", "A")>>,
           ("peers" :> 2), <<"sn">>, <<Lit("router"), Key("sn")>>)

Graphs3 == {<<Relation(1, {1, 2}), Router(c), Device(b), Resource(a), Relation(2, {3})>> :
               a \in {0, 1, 2, 3, 9}, b \in {0, 1, 2, 3, 9}, c \in {0, 1, 2, 3, 9}}

\* A root with two rules, its child with one, whose children share an array.
Ruled(name, ext, rules) == Entity(name, ext, None, None, rules, None, None, None)
SiblingTree ==
    <<Ruled(1, 0, <<Rule("f", "a", "b"), Rule("f", "b", "c")>>),
      Ruled(2, 1, <<Rule("f", "c", "d")>>),
      Ruled(3, 2, <<Rule("f", "d", "e")>>), Ruled(4, 2, <<Rule("f", "d", "f")>>)>>

MCDirectories ==
    Graphs3 \cup
    {<<>>, <<Plain("empty")>>, <<Relation(1, {1})>>, SiblingTree,
     <<Device(0), Plain("malformed")>>, <<Plain("version"), Device(0)>>, <<Plain("unknown")>>,
     <<Resource(0), Device(1), Plain("empty"), Resource(2), Resource(0), Relation(1, {2})>>}

Raw(kind, props) == [kind |-> kind, props |-> props]
DevA  == <<Lit("device"), Lit("a"), Lit("_"), Lit("n")>>
RoutA == <<Lit("router"), Lit("A")>>

MCResources ==
    {Raw(2, ("sn" :> Text(<<"a">>)) @@ ("name" :> Text(<<"n">>)) @@ ("peers" :> List(<<RoutA, DevA>>))),
     Raw(2, ("sn" :> Text(<<"a">>)) @@ ("host" :> Text(<<"n">>)) @@ ("ip" :> Text(<<"x">>))),
     Raw(2, ("sn" :> Text(<<"a">>)) @@ ("name" :> Text(<<"m", " ", "n">>))
            @@ ("status" :> Text(<<"down">>))),
     Raw(2, ("sn" :> Text(None)) @@ ("name" :> Text(<<"n">>))),
     Raw(2, ("sn" :> Text(<<"b">>)) @@ ("name" :> Text(<<"n">>)) @@ ("status" :> Text(<<"up">>))),
     Raw(3, ("sn" :> Text(<<"a">>)) @@ ("name" :> Text(<<" ">>)) @@ ("mtu" :> Whole("9"))
            @@ ("peers" :> List(<<DevA>>))),
     Raw(3, ("sn" :> Text(<<"b">>)) @@ ("host" :> Text(<<"a">>)) @@ ("mtu" :> Text(<<"9">>))),
     Raw(3, ("sn" :> Nil) @@ ("host" :> Text(<<"a">>)) @@ ("peers" :> Text(<<"x">>)))}

-----------------------------------------------------------------------------
(* The interfaces of ontology/interface.yaml.                                *)

Interface ==
    Entity(1, 0, [device_serial |-> Prop("string", TRUE, {}, Nil),
                  if_name |-> Prop("string", TRUE, {}, Nil)],
           None, None, None, <<"device_serial", "if_name">>,
           <<Lit("iface:"), Key("device_serial"), Lit("_"), Key("if_name")>>)

UriDirectories == {<<Interface>>}

\* The serial of one device is the beginning of the other's.
UriResources ==
    {Raw(1, [device_serial |-> Text(<<"pe", "_", "1">>), if_name |-> Text(<<"ge0">>)]),
     Raw(1, [device_serial |-> Text(<<"pe">>), if_name |-> Text(<<"1", "_", "ge0">>)])}

\* One interface, reported by two sources.
TwiceResources ==
    {Raw(1, [device_serial |-> Text(<<"pe">>), if_name |-> Text(<<"ge0">>)]),
     Raw(1, [device_serial |-> Text(<<"pe">>), if_name |-> Text(<<"ge0">>),
             description |-> Text(<<"x">>)])}
=============================================================================
