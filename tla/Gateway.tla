------------------------------- MODULE Gateway -------------------------------
(***************************************************************************)
(* The HTTP server (internal/api, internal/mcp, cmd/server/main.go): every *)
(* request of every route, /health, /metrics, /mcp and unknown paths       *)
(* included, passes CORS, the rate limiter and the circuit breaker before  *)
(* its handler, and answers on the way back.  The breaker is that of       *)
(* CircuitBreaker; this module says what runs inside it and which answers  *)
(* it counts.  The services behind the handlers are abstract: a call       *)
(* succeeds or fails, as the modules of the twin say when.                 *)
(*                                                                         *)
(* A request to /mcp may be an event stream, which lasts as long as its    *)
(* client wants.  Request ids, logs, spans and metrics are left out: they  *)
(* change nothing the other parts read.                                    *)
(***************************************************************************)
EXTENDS CircuitBreaker, DeviceQueries

CONSTANTS Burst         \* requests the rate limiter lets through at once

ASSUME GatewayAssumption == Burst \in Nat \ {0}

VARIABLES server,       \* "serving", "draining" after the signal, "down"
          tokens,       \* what is in the limiter's bucket
          at,           \* at[r]: how far the request has come
          misled,       \* a client was shown metrics the controller did not send
          counted       \* 5xx answers of handlers since the breaker closed

gate  == <<server, tokens, at, misled, counted>>
gvars == <<vars, gate>>

-----------------------------------------------------------------------------
(* What the handlers answer: an HTTP status and the code in the body.       *)

Fail(s, c) == [status |-> s, code |-> c]
Fine(s)    == [status |-> s, code |-> 0]
Outcomes   == {"malformed", "error", "ok"}

Reply(out, bad, failed, fine) ==
    IF out = "malformed" THEN bad ELSE IF out = "error" THEN failed ELSE fine

Internal == Fail(500, 500001)

FullSync(out)        == Reply(out, Fail(400, 400011), Internal, Fine(200))
Webhook(out)         == Reply(out, Fail(400, 400001), Fail(503, 503011), Fine(202))
ListSnapshots(out)   == Reply(out, Fine(200), Internal, Fine(200))
CreateSnapshot(out)  == Reply(out, Fail(400, 400021), Internal, Fine(201))
DeleteSnapshot(out)  == Reply(out, Internal, Internal, Fine(200))
RestoreSnapshot(out) == Reply(out, Fail(400, 400021), Internal, Fine(200))
DiffSnapshots(out)   == Reply(out, Fail(400, 400021), Internal, Fine(200))
QueryTopology(out)   == Reply(out, Fine(200), Fail(500, 500031), Fine(200))

\* QueryAudit and Health call nothing that fails; a malformed limit is 50.
QueryAudit == Fine(200)
Health     == Fine(200)
NoRoute    == Fail(404, 404001)

\* A tool that fails is an answer like any other to the breaker.
ToolCall == Fine(200)

\* respondDeviceError, respondMonitorError.
respondError(out, unknown, unsupported) ==
    CASE out = "notFound"    -> unknown
      [] out = "unsupported" -> unsupported
      [] out = "error"       -> Internal
      [] OTHER               -> Fine(200)

Answer(reply, sent, shown) ==
    [status |-> reply.status, code |-> reply.code, sent |-> sent, shown |-> shown]

Nothing == [sent |-> [kind |-> "nothing"], shown |-> "none"]

Plain(reply) == Answer(reply, Nothing.sent, "none")

\* GET /monitor and GET /device; a panic is none of the handler's answers.
MonitorAnswers ==
    {Plain(Fail(400, 400051))} \cup
    UNION {{Answer(respondError(g.out, Fail(404, 404051), Fail(501, 501051)), c, g.shown)
              : g \in QueryMonitor(n, q, login, c)}
             : n \in Connectors, q \in {"device", "alerts", "logs", "nonsense"},
               login \in BOOLEAN, c \in Controllers}

DeviceInfo ==
    UNION {QueryDeviceInfo(n, q, c, short)
             : n \in Connectors, q \in {"config", "bgp", "topology", "nonsense"},
               c \in Controllers, short \in BOOLEAN}

DeviceAnswers ==
    {Plain(respondError(g.out, Fail(404, 404041), Fail(501, 501041)))
       : g \in {d \in DeviceInfo : d.out # "panic"}}

\* GET /topology/live: every error of QueryDeviceInfo is a 500.
LiveAnswers == {Plain(Fail(400, 400031)), Plain(Fail(500, 500031)), Plain(Fine(200))}

Handlers ==
    {Plain(QueryAudit), Plain(Health), Plain(NoRoute), Plain(ToolCall)}
      \cup MonitorAnswers \cup DeviceAnswers \cup LiveAnswers
      \cup UNION {{Plain(FullSync(o)), Plain(Webhook(o)), Plain(ListSnapshots(o)),
                   Plain(CreateSnapshot(o)), Plain(DeleteSnapshot(o)),
                   Plain(RestoreSnapshot(o)), Plain(DiffSnapshots(o)),
                   Plain(QueryTopology(o))} : o \in Outcomes}

-----------------------------------------------------------------------------
(* The way of a request.                                                    *)

\* A client connects; limiter.Allow() takes a token.
Arrive(r) ==
    /\ server = "serving"
    /\ at[r] = "idle"
    /\ tokens > 0
    /\ tokens' = tokens - 1
    /\ at' = [at EXCEPT ![r] = "passed"]
    /\ UNCHANGED <<vars, server, misled, counted>>

\* CORS answers an OPTIONS request 204, the limiter without a token answers
\* 429; neither comes to the breaker.
TurnedAway(r) ==
    /\ server = "serving"
    /\ at[r] = "idle"
    /\ UNCHANGED gvars

Answered(r) ==
    /\ server # "down"
    /\ at' = [at EXCEPT ![r] = "idle"]
    /\ UNCHANGED <<server, tokens>>

Refill ==
    /\ tokens < Burst
    /\ tokens' = tokens + 1
    /\ UNCHANGED <<vars, server, at, misled, counted>>

\* Mutant: the 503 of a refusal is recorded like any other answer.
RefusedCounts(r) ==
    /\ at[r] = "passed"
    /\ state = "halfOpen" /\ halfOpenPending
    /\ Answered(r)
    /\ state' = "open" /\ expired' = FALSE /\ halfOpenPending' = FALSE
    /\ UNCHANGED <<failures, inside, probes, panicked, misled, counted>>

\* The breaker answers 503.
Refused(r) ==
    /\ at[r] = "passed"
    /\ Refuse(r)
    /\ Answered(r)
    /\ UNCHANGED <<misled, counted>>

Enter(r) ==
    /\ server # "down"
    /\ at[r] = "passed"
    /\ AllowClosed(r) \/ AllowExpired(r) \/ AllowProbe(r)
    /\ at' = [at EXCEPT ![r] = "handler"]
    /\ UNCHANGED <<server, tokens, misled, counted>>

\* A GET of /mcp opens an event stream.
OpenStream(r) ==
    /\ server # "down"
    /\ at[r] = "handler"
    /\ at' = [at EXCEPT ![r] = "stream"]
    /\ UNCHANGED <<vars, server, tokens, misled, counted>>

\* What the breaker looks at on the way back.
ServerError(a) == a.status >= 500 /\ a.status < 600

Record(r, failed) ==
    IF failed
    THEN /\ RecordFailure(r)
         /\ counted' = Capped(counted + 1, Threshold)
    ELSE /\ RecordSuccess(r)
         /\ counted' = IF state # "closed" /\ state' = "closed" THEN 0 ELSE counted

\* Metrics shown are an array the controller sent; none are shown only if it
\* sent none, or null, or no body.
Faithful(a) ==
    LET body == a.sent
    IN a.code = 0 /\ body \in Bodies /\ a.shown # "page" =>
         \/ body.kind = "array" /\ a.shown = body.series
         \/ body.kind = "object" /\ a.shown \in body.fields
         \/ /\ a.shown = "none"
            /\ \/ body.kind \in {"empty", "null"}
               \/ body.kind = "object" /\ ("null" \in body.fields \/ body.fields \subseteq {"text"})

Written == {[failed |-> ServerError(a), misleads |-> ~Faithful(a)] : a \in Handlers}

\* The handler writes one of its answers.
Handle(r) ==
    /\ at[r] = "handler"
    /\ \E w \in Written : Record(r, w.failed) /\ misled' = (misled \/ w.misleads)
    /\ Answered(r)

\* Mutant: the end of a stream is counted as a failure.
LeaveStreamFails(r) ==
    /\ at[r] = "stream"
    /\ RecordFailure(r)
    /\ Answered(r)
    /\ UNCHANGED <<misled, counted>>

\* The client of a stream leaves it.
LeaveStream(r) ==
    /\ at[r] = "stream"
    /\ Record(r, FALSE)
    /\ Answered(r)
    /\ UNCHANGED misled

\* gin.Recovery answers 500 further out than the breaker.
HandlerPanics(r) ==
    /\ at[r] = "handler"
    /\ \E d \in DeviceInfo : d.out = "panic"
    /\ Panic(r)
    /\ Answered(r)
    /\ UNCHANGED <<misled, counted>>

TimePasses ==
    /\ Expire
    /\ UNCHANGED <<server, tokens, at, misled, counted>>

\* The signal cancels the context of main: Run stops listening and waits up
\* to five seconds for the requests inside.
Signal ==
    /\ server = "serving"
    /\ server' = "draining"
    /\ UNCHANGED <<vars, tokens, at, misled, counted>>

\* main waits for nothing but the bus, which is closed at once.
Exit ==
    /\ server = "draining"
    /\ server' = "down"
    /\ UNCHANGED <<vars, tokens, at, misled, counted>>

-----------------------------------------------------------------------------
GatewayInit ==
    /\ Init
    /\ server = "serving"
    /\ tokens = Burst
    /\ at = [r \in Requests |-> "idle"]
    /\ misled = FALSE
    /\ counted = 0

\* What the server does with a request before its handler.
Serve(r) == Refused(r) \/ Enter(r)

\* The handler of r returns, whatever it answers.
Returns(r) ==
    /\ at[r] = "handler"
    /\ \E failed \in BOOLEAN : Record(r, failed)
    /\ Answered(r)

GatewayNext ==
    \/ \E r \in Requests :
          \/ Arrive(r) \/ TurnedAway(r) \/ Serve(r) \/ Handle(r) \/ HandlerPanics(r)
          \/ OpenStream(r) \/ LeaveStream(r)
    \/ Refill \/ TimePasses \/ Signal \/ Exit

\* Handlers return; clients, the signal and the ends of the streams come when
\* they like.
GatewaySpec ==
    /\ GatewayInit /\ [][GatewayNext]_gvars
    /\ \A r \in Requests : WF_at(Returns(r))

-----------------------------------------------------------------------------
(* Properties.                                                              *)

\* Types; a request counts as inside while its handler or its stream runs.
GatewayTypes ==
    /\ TypeOK
    /\ server \in {"serving", "draining", "down"}
    /\ tokens \in 0 .. Burst
    /\ at \in [Requests -> {"idle", "passed", "handler", "stream"}]
    /\ counted \in 0 .. Threshold /\ misled \in BOOLEAN
    /\ \A r \in Requests : inside[r] # "no" <=> at[r] \in {"handler", "stream"}

\* Around the breaker the server takes no step that is not one of it, so what
\* is proved of the breaker holds in the server.
KeepsBreaker == Spec

\* What a closed breaker has counted are the 5xx answers of handlers since it
\* closed: neither its own refusals nor those of the limiter, no panic, and
\* no preflight, and each answer once.
FailuresJustified == state = "closed" => failures = counted

\* A half-open breaker does not stay so for ever, unless a panic or an event
\* stream took its probe, or nobody is there to serve.
ServiceResumes ==
    state = "halfOpen" ~> \/ state # "halfOpen" \/ panicked \/ server = "down"
                          \/ \E r \in Requests : at[r] = "stream" /\ inside[r] = "probe"

\* No client is shown metrics the controller did not send, nor an empty answer
\* in the place of an array it sent.
MetricsFaithful == ~misled

-----------------------------------------------------------------------------
(* Does not hold; TLC's counterexample is in README.md.                     *)

\* The server is down only after it has answered what it had let in.
NobodyCutOff == server = "down" => \A r \in Requests : at[r] = "idle"
=============================================================================
