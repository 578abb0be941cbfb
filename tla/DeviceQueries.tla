---------------------------- MODULE DeviceQueries ----------------------------
(***************************************************************************)
(* Queries that go to a network controller while a client waits            *)
(* (service/device_service.go, connector/controller/operator.go,           *)
(* monitor.go, api_monitor.go).  DeviceService finds the connector, asks   *)
(* whether it has the capability, picks the query; the client fetches a    *)
(* token, sends one request (HttpClient models its retries) and decodes    *)
(* the body.  Every operator here yields the set of possible outcomes of   *)
(* one step: an error, a panic, or data.                                   *)
(*                                                                         *)
(* A controller's answer is what the client can tell apart: no answer, a   *)
(* status, a body.  The fields of a JSON object are named by what they     *)
(* hold: an array of series, null, or something else; "other" is a body    *)
(* that is no JSON, or neither null, an object nor an array of series.     *)
(***************************************************************************)
EXTENDS Naturals

CONSTANTS Series        \* arrays of series a controller may send

ASSUME QueryAssumption == {"none", "null", "text"} \cap Series = {}

Got(d) == [out |-> "ok", shown |-> d]
Error == [out |-> "error", shown |-> "none"]
Crash == [out |-> "panic", shown |-> "none"]

\* Connectors a client may name, with their capabilities.
Connectors == {"absent", "mock", "controller"}
Capable    == {"controller"}

Bodies == [kind : {"empty", "null", "other"}] \cup [kind : {"array"}, series : Series]
            \cup [kind : {"object"}, fields : SUBSET (Series \cup {"null", "text"})]

Unavailable == [kind : {"noToken", "noAnswer", "refused", "notFound"}]
Controllers == Unavailable \cup Bodies

\* null decodes into a slice without an error, as an empty one.
Decoded(f) == IF f = "null" THEN "none" ELSE f

\* Mutant: an object that wraps the array is not looked into.
parseArrayOnly(body) ==
    IF body.kind = "array" THEN {Got(body.series)}
    ELSE IF body.kind = "other" THEN {Error} ELSE {Got("none")}

\* The array itself, or any field of an object that decodes as one, since Go
\* visits a map in no order.
parseMonitorResponse(body) ==
    LET arrays == IF body.kind = "object" THEN body.fields \ {"text"} ELSE {}
    IN CASE body.kind = "array" -> {Got(body.series)}
         [] body.kind = "other" -> {Error}
         [] arrays # {}         -> {Got(Decoded(f)) : f \in arrays}
         [] OTHER               -> {Got("none")}

\* FetchDeviceMetrics, FetchPortMetrics, FetchVPNTraffic, FetchTunnelTraffic.
FetchMetrics(c) == IF c \in Unavailable THEN {Error} ELSE parseMonitorResponse(c)

\* A page of logs, alarms, a topology: a struct, which a field of another
\* type spoils.  The interface for login logs may be missing.
FetchObject(c) ==
    CASE c \in Unavailable             -> {Error}
      [] c.kind \in {"null", "object"} ->
           {Got("page")} \cup {Error : f \in {"text"} \cap (IF c.kind = "object" THEN c.fields ELSE {})}
      [] OTHER                         -> {Error}

FetchLogs(login, c) ==
    IF login /\ c.kind = "notFound" THEN {Got("none")} ELSE FetchObject(c)

MonitorQueries == {"device", "port", "vpn", "tunnel"}

\* DeviceService.QueryMonitor.
QueryMonitor(name, query, login, c) ==
    IF name = "absent" THEN {[out |-> "notFound", shown |-> "none"]}
    ELSE IF name \notin Capable THEN {[out |-> "unsupported", shown |-> "none"]}
    ELSE CASE query \in MonitorQueries -> FetchMetrics(c)
           [] query = "alerts"         -> FetchObject(c)
           [] query = "logs"           -> FetchLogs(login, c)
           [] OTHER                    -> {Error}

\* QueryISISNeighbors, QueryBGPPeers: the text, then the devices for the
\* vendor, whose parser may reject no text but, for BGP, reads the eighth word
\* of a line that has seven.
QueryPeers(query, c, short) ==
    IF c \in Unavailable THEN {Error}
    ELSE {Error, Got("peers")} \cup (IF query = "bgp" /\ short THEN {Crash} ELSE {})

\* DeviceService.QueryDeviceInfo; config, vpn_config and route hand the text on.
QueryDeviceInfo(name, query, c, short) ==
    IF name = "absent" THEN {[out |-> "notFound", shown |-> "none"]}
    ELSE IF name \notin Capable THEN {[out |-> "unsupported", shown |-> "none"]}
    ELSE CASE query \in {"isis", "bgp"} -> QueryPeers(query, c, short)
           [] query \in {"config", "vpn_config", "route"} ->
                IF c \in Unavailable THEN {Error} ELSE {Error, Got("text")}
           [] query = "topology"        -> FetchObject(c)
           [] OTHER                     -> {Error}
=============================================================================
