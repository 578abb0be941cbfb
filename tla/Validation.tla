------------------------------ MODULE Validation ------------------------------
(***************************************************************************)
(* What is done to the properties of one resource (normalizer.go, schema/  *)
(* validator.go, pkg/utils/uri.go): mapping, rules, defaults, validation   *)
(* and the URI.  A value is [t, v]: its Go type and, as a sequence of      *)
(* tokens, its text; a list's v is the sequence of the strings in it.  A   *)
(* URI template is a sequence of parts, a hole names a property.           *)
(***************************************************************************)
EXTENDS Naturals, SequencesExt, Functions

\* Mutant: the source field stays.
MapOneKeeps(props, src, dst) ==
    IF src \notin DOMAIN props THEN props
    ELSE [f \in DOMAIN props \cup {dst} |-> IF f = dst THEN props[src] ELSE props[f]]

\* props[dst] = val; delete(props, src).
MapOne(props, src, dst) ==
    IF src \notin DOMAIN props THEN props
    ELSE [f \in (DOMAIN props \cup {dst}) \ {src} |->
             IF f = dst THEN props[src] ELSE props[f]]

\* done[n] is the copy after the first n fields of the mapping.
Mapped(props, mapping, sequence) ==
    LET done[n \in 0 .. Len(sequence)] ==
            IF n = 0 THEN props ELSE MapOne(done[n - 1], sequence[n], mapping[sequence[n]])
    IN done[Len(sequence)]

\* strings.ReplaceAll on one field, if it is a string.
Replaced(props, rule) ==
    IF rule.field \in DOMAIN props /\ props[rule.field].t = "string"
    THEN [props EXCEPT ![rule.field].v = ReplaceAll(@, rule.pattern, rule.replace)]
    ELSE props

Standardized(props, rules) ==
    LET done[n \in 0 .. Len(rules)] ==
            IF n = 0 THEN props ELSE Replaced(done[n - 1], rules[n])
    IN done[Len(rules)]

applyDefaults(spec, props) ==
    LET missing == {f \in DOMAIN spec : f \notin DOMAIN props /\ spec[f].default.t # "nil"}
    IN [f \in DOMAIN props \cup missing |->
           IF f \in DOMAIN props THEN props[f] ELSE spec[f].default]

\* Mutant: only nil is empty.
isEmptyNil(val) == val.t = "nil"

isEmpty(val) == val.t = "nil" \/ (val.t = "string" /\ val.v = <<>>)

Present(props, f) == f \in DOMAIN props /\ ~isEmpty(props[f])

checkType(val, type) ==
    CASE type = "string" -> val.t = "string"
      [] type \in {"int", "float"} -> val.t \in {"int", "float"}
      [] type = "bool" -> val.t = "bool"
      [] OTHER -> TRUE

InEnum(val, enum) == enum = {} \/ (val.t = "string" /\ val.v \in enum)

\* validateProps: required, types, enums, stable keys.
Valid(et, props) ==
    /\ \A f \in DOMAIN et.props :
          /\ et.props[f].required => Present(props, f)
          /\ f \in DOMAIN props => /\ checkType(props[f], et.props[f].type)
                                   /\ InEnum(props[f], et.props[f].enum)
    /\ \A i \in DOMAIN et.keys : Present(props, et.keys[i])

Fill(parts, key, text) ==
    FlattenSeq([i \in DOMAIN parts |->
        IF parts[i] = [hole |-> TRUE, s |-> key]
        THEN [j \in DOMAIN text |-> [hole |-> FALSE, s |-> text[j]]]
        ELSE <<parts[i]>>])

\* The keys are there and not empty: Valid has checked it.
GenerateURI(template, keys, props) ==
    LET filled[n \in 0 .. Len(keys)] ==
            IF n = 0 THEN template ELSE Fill(filled[n - 1], keys[n], props[keys[n]].v)
    IN filled[Len(keys)]
=============================================================================
