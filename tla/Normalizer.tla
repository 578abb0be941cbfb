------------------------------ MODULE Normalizer ------------------------------
(***************************************************************************)
(* From a connector's resource to a NormalizedResource (normalizer.go),    *)
(* with the types the ontology gave.                                       *)
(***************************************************************************)
EXTENDS SchemaRegistry, Validation

CONSTANTS Resources,   \* resources a connector may return: [kind, props]
          MaxBatch     \* resources of one batch

\* The texts of a resource's values are texts.
ASSUME ResourcesAssumption ==
    \A r \in Resources : \A f \in DOMAIN r.props :
        DOMAIN r.props[f] = {"t", "v"} /\ r.props[f].v \in Seq(ToSet(r.props[f].v))

VARIABLES batch        \* the accepted ones: [raw, kind, uri, props]

\* Normalize, accepted.  Go ranges over the mapping in any order.
Normalize(r) ==
    /\ pc = "ready"
    /\ Len(batch) < MaxBatch
    /\ r.kind \in DOMAIN types
    /\ LET et == types[r.kind]
       IN \E sequence \in SetToSeqs(DOMAIN et.mapping) :
             LET mapped == Mapped(r.props, et.mapping, sequence)
                 ruled  == Standardized(mapped, RulesOf(r.kind))
                 props  == applyDefaults(et.props, ruled)
             IN /\ Valid(et, props)
                /\ batch' = Append(batch,
                      [raw |-> r, kind |-> r.kind, props |-> props,
                       uri |-> GenerateURI(et.template, et.keys, props)])
    /\ UNCHANGED loadVars

-----------------------------------------------------------------------------
(* Properties.                                                              *)

Accepted == ToSet(batch)

\* As isEmpty has it, spelled out.
Filled(props, f) ==
    /\ f \in DOMAIN props /\ props[f].t # "nil"
    /\ props[f].t = "string" => props[f].v # <<>>

PropsConform ==
    \A a \in Accepted :
        /\ \A f \in UNION {DOMAIN Declared(t).props : t \in ToSet(Line(a.kind))} :
              LET spec == Nearest(Line(a.kind), f, "props")
              IN /\ spec.required => Filled(a.props, f)
                 /\ f \in DOMAIN a.props =>
                       /\ checkType(a.props[f], spec.type)
                       /\ InEnum(a.props[f], spec.enum)
                 /\ spec.default.t # "nil" => f \in DOMAIN a.props
        /\ \A k \in ToSet(Declared(a.kind).keys) : Filled(a.props, k)

\* The texts of the stable keys.
KeyOf(a) == [i \in DOMAIN Declared(a.kind).keys |-> a.props[Declared(a.kind).keys[i]].v]

\* The template names every key.
Distinguishes(kind) ==
    \A k \in ToSet(Declared(kind).keys) :
        [hole |-> TRUE, s |-> k] \in ToSet(Declared(kind).template)

\* Two of a kind that agree on the stable keys have the same URI.  Two that do
\* not have different ones, if the template names every key and the texts of
\* each key are equally long: others may meet across a separator.
UriIdentifies ==
    \A a, b \in Accepted :
        a.kind = b.kind =>
            /\ KeyOf(a) = KeyOf(b) => a.uri = b.uri
            /\ /\ Distinguishes(a.kind) /\ a.uri = b.uri
               /\ \A i \in DOMAIN KeyOf(a) : Len(KeyOf(a)[i]) = Len(KeyOf(b)[i])
               => KeyOf(a) = KeyOf(b)

\* Two of a kind with the same URI are the same resource, however long the
\* texts are: a node's unique identifier, as the comment on Node has it.
UriUnique ==
    \A a, b \in Accepted :
        a.kind = b.kind /\ Distinguishes(a.kind) /\ a.uri = b.uri => KeyOf(a) = KeyOf(b)

\* An accepted resource satisfies, for each property, what its nearest
\* ancestor that declares the property asks of it, after the mapping, the
\* rules and the defaults; none of its stable keys is empty, and its URI
\* identifies it.
AcceptedConforms == PropsConform /\ UriIdentifies

\* The mapping renames fields independently of its order: no field is both
\* source and target, no two have the same target, and no target is present.
Clean(mapping, props) ==
    LET sources == DOMAIN mapping \cap DOMAIN props
        targets == {mapping[s] : s \in sources}
    IN /\ targets \cap (DOMAIN mapping \cup DOMAIN props) = {}
       /\ IsInjective([s \in sources |-> mapping[s]])

\* With such a mapping every field of the resource arrives, under its new name
\* if it has one, changed by nothing but the rules for that name; nothing
\* arrives that is neither of the resource nor a default.
MappingExact ==
    \A a \in Accepted :
        LET m == types[a.kind].mapping
            raw == a.raw.props
            New(f) == IF f \in DOMAIN m THEN m[f] ELSE f
            Expected(f) == Standardized([x \in {New(f)} |-> raw[f]], RulesOf(a.kind))[New(f)]
        IN Clean(m, raw) =>
             /\ \A f \in DOMAIN raw : New(f) \in DOMAIN a.props
                                      /\ a.props[New(f)] = Expected(f)
             /\ \A f \in DOMAIN a.props \ {New(g) : g \in DOMAIN raw} :
                   /\ f \in DOMAIN types[a.kind].props
                   /\ a.props[f] = types[a.kind].props[f].default
=============================================================================
