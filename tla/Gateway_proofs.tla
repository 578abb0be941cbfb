--------------------------- MODULE Gateway_proofs ---------------------------
(***************************************************************************)
(* The circuit breaker and the server around it, for any number of         *)
(* requests, any threshold, burst and metrics: every step of the server is *)
(* a step of the breaker or leaves it alone, so what is proved of the      *)
(* breaker holds in the server; what a closed breaker has counted are      *)
(* answers of handlers; and no handler shows metrics nobody sent.          *)
(***************************************************************************)
EXTENDS Gateway, TLAPS

(* The breaker.  The failure count alone is inductive; the bound on the     *)
(* probes needs to know that the mark and the count move together.          *)

\* A half-open breaker has let one request in, and a second one only if it
\* marked it.
MarkedProbes ==
    /\ state = "halfOpen" => probes <= 2
    /\ state = "halfOpen" /\ ~halfOpenPending => probes <= 1

BreakerInv == TypeOK /\ ClosedBelowThreshold /\ MarkedProbes

\* The initial state: closed, nothing counted, nobody inside.
LEMMA BreakerInit == Init => BreakerInv
<1> USE BreakerAssumption DEF Init, BreakerInv, TypeOK, ClosedBelowThreshold, MarkedProbes
<1>1. Init => /\ expired \in BOOLEAN /\ halfOpenPending \in BOOLEAN
              /\ panicked \in BOOLEAN
  BY Zenon
<1>2. QED
  BY <1>1, SMT

\* Every path through allow(), the two recorders, a panic and the clock.
LEMMA BreakerStep == BreakerInv /\ [Next]_vars => BreakerInv'
<1> SUFFICES ASSUME BreakerInv, [Next]_vars PROVE BreakerInv'
  OBVIOUS
<1> USE BreakerAssumption DEF BreakerInv, TypeOK, ClosedBelowThreshold, MarkedProbes
<1>1. ASSUME NEW r \in Requests, AllowClosed(r) PROVE BreakerInv'
  BY <1>1 DEF AllowClosed, code
<1>2. ASSUME NEW r \in Requests, AllowExpired(r) PROVE BreakerInv'
  <2>1. /\ expired' \in BOOLEAN /\ halfOpenPending' \in BOOLEAN
        /\ panicked' \in BOOLEAN
    BY <1>2, Zenon DEF AllowExpired
  <2>2. QED
    BY <1>2, <2>1, SMT DEF AllowExpired
<1>3. ASSUME NEW r \in Requests, AllowProbe(r) PROVE BreakerInv'
  BY <1>3 DEF AllowProbe, Capped
<1>4. ASSUME NEW r \in Requests, RecordSuccess(r) PROVE BreakerInv'
  <2>1. /\ expired' \in BOOLEAN /\ halfOpenPending' \in BOOLEAN
        /\ panicked' \in BOOLEAN
    BY <1>4, Zenon DEF RecordSuccess
  <2>2. QED
    BY <1>4, <2>1, SMT DEF RecordSuccess
<1>5. ASSUME NEW r \in Requests, RecordFailure(r) PROVE BreakerInv'
  <2>1. /\ expired' \in BOOLEAN /\ halfOpenPending' \in BOOLEAN
        /\ panicked' \in BOOLEAN
    BY <1>5, Zenon DEF RecordFailure
  <2>2. QED
    BY <1>5, <2>1, SMT DEF RecordFailure, Capped
<1>6. ASSUME NEW r \in Requests, Panic(r) PROVE BreakerInv'
  BY <1>6 DEF Panic, code
<1>7. CASE Expire
  BY <1>7 DEF Expire
<1>8. CASE UNCHANGED vars
  BY <1>8 DEF vars, code
<1>9. QED
  BY <1>1, <1>2, <1>3, <1>4, <1>5, <1>6, <1>7, <1>8 DEF Next, Done, Refuse

\* The invariant in every reachable state.
THEOREM BreakerInvariant == Spec => []BreakerInv
  BY BreakerInit, BreakerStep, PTL DEF Spec

\* Type correctness of the breaker's variables.
THEOREM BreakerTypes == Spec => []TypeOK
<1>1. BreakerInv => TypeOK
  BY DEF BreakerInv
<1>2. QED
  BY <1>1, BreakerInvariant, PTL

\* A closed breaker has counted fewer failures than the threshold, whichever
\* requests of earlier periods report late.
THEOREM ClosedMeansBelow == Spec => []ClosedBelowThreshold
<1>1. BreakerInv => ClosedBelowThreshold
  BY DEF BreakerInv
<1>2. QED
  BY <1>1, BreakerInvariant, PTL

\* A half-open breaker lets in two requests at most: the one that found the
\* timeout expired and the one marked as pending.
THEOREM TwoProbesAtMost == Spec => []AtMostTwoProbes
<1>1. BreakerInv => AtMostTwoProbes
  BY DEF BreakerInv, TypeOK, MarkedProbes, AtMostTwoProbes
<1>2. QED
  BY <1>1, BreakerInvariant, PTL
-----------------------------------------------------------------------------
(* The server.                                                              *)

\* Each action of the server does one thing to the breaker or nothing.
LEMMA GatewayStep == [GatewayNext]_gvars => [Next]_vars
<1> SUFFICES ASSUME [GatewayNext]_gvars PROVE [Next]_vars
  OBVIOUS
<1>1. ASSUME NEW r \in Requests, Arrive(r) \/ TurnedAway(r) \/ OpenStream(r)
      PROVE  UNCHANGED vars
  BY <1>1 DEF Arrive, TurnedAway, OpenStream, gvars
<1>2. ASSUME NEW r \in Requests, Serve(r) PROVE Next
  BY <1>2 DEF Serve, Refused, Enter, Next
<1>3. ASSUME NEW r \in Requests, NEW failed, Record(r, failed)
      PROVE  Next
  BY <1>3 DEF Record, Next, Done
<1>4. ASSUME NEW r \in Requests, Handle(r) PROVE Next
  <2>1. PICK w \in Written : Record(r, w.failed)
    BY <1>4 DEF Handle
  <2>2. QED
    BY <1>3, <2>1
<1>5. ASSUME NEW r \in Requests, LeaveStream(r) PROVE Next
  BY <1>3, <1>5 DEF LeaveStream
<1>6. ASSUME NEW r \in Requests, HandlerPanics(r) PROVE Next
  BY <1>6 DEF HandlerPanics, Next, Done
<1>7. CASE TimePasses
  BY <1>7 DEF TimePasses, Next
<1>8. CASE Refill \/ Signal \/ Exit \/ UNCHANGED gvars
  BY <1>8 DEF Refill, Signal, Exit, gvars
<1>9. QED
  BY <1>1, <1>2, <1>4, <1>5, <1>6, <1>7, <1>8 DEF GatewayNext

\* The server, stream by stream and request by request, drives its breaker
\* only through allow() and the two recorders: it is a use of the breaker
\* that CircuitBreaker allows.
THEOREM BreakerKept == GatewaySpec => KeepsBreaker
<1>1. GatewayInit => Init
  BY DEF GatewayInit
<1>2. QED
  BY <1>1, GatewayStep, PTL DEF GatewaySpec, KeepsBreaker, Spec

-----------------------------------------------------------------------------
(* The counter.                                                             *)

CountInv ==
    /\ BreakerInv
    /\ counted \in 0 .. Threshold
    /\ FailuresJustified

\* Only an answer that is recorded changes what a closed breaker has counted,
\* or closes it.
LEMMA Uncounted ==
    ASSUME FailuresJustified, UNCHANGED <<failures, counted>>,
           state' = "closed" => state = "closed"
    PROVE  FailuresJustified'
  BY DEF FailuresJustified

\* One answer counted on both sides.
LEMMA RecordCounts ==
    ASSUME CountInv, NEW r \in Requests, NEW failed, Record(r, failed)
    PROVE  counted' \in 0 .. Threshold /\ FailuresJustified'
<1> USE BreakerAssumption DEF CountInv, BreakerInv, TypeOK, FailuresJustified
<1>1. CASE failed
  BY <1>1 DEF Record, RecordFailure, Capped
<1>2. CASE ~failed
  BY <1>2 DEF Record, RecordSuccess
<1>3. QED
  BY <1>1, <1>2

\* Refusals, turned away requests, panics, streams, the clock and the
\* shutdown leave the count alone.
LEMMA CountStep == CountInv /\ [GatewayNext]_gvars => CountInv'
<1> SUFFICES ASSUME CountInv, [GatewayNext]_gvars PROVE CountInv'
  OBVIOUS
<1>1. BreakerInv'
  BY GatewayStep, BreakerStep DEF CountInv
<1> DEFINE Good == counted' \in 0 .. Threshold /\ FailuresJustified'
<1>2. ASSUME UNCHANGED <<failures, counted>>, state' = "closed" => state = "closed"
      PROVE  Good
  BY <1>2, Uncounted DEF CountInv
<1>3. ASSUME UNCHANGED vars, UNCHANGED counted PROVE Good
  BY <1>2, <1>3 DEF vars, code
<1>4. ASSUME NEW r \in Requests, Arrive(r) \/ TurnedAway(r) \/ OpenStream(r)
      PROVE  Good
  BY <1>3, <1>4 DEF Arrive, TurnedAway, OpenStream, gvars, gate
<1>5. ASSUME NEW r \in Requests, Serve(r) PROVE Good
  <2>1. CASE Refused(r)
    BY <1>3, <2>1 DEF Refused, Refuse
  <2>2. CASE Enter(r)
    BY <1>2, <2>2 DEF Enter, AllowClosed, AllowExpired, AllowProbe, code
  <2>3. QED
    BY <1>5, <2>1, <2>2 DEF Serve
<1>6. ASSUME NEW r \in Requests, Handle(r) PROVE Good
  <2>1. PICK w \in Written : Record(r, w.failed)
    BY <1>6 DEF Handle
  <2>2. QED
    BY <2>1, RecordCounts
<1>7. ASSUME NEW r \in Requests, LeaveStream(r) PROVE Good
  BY <1>7, RecordCounts DEF LeaveStream
<1>8. ASSUME NEW r \in Requests, HandlerPanics(r) PROVE Good
  BY <1>2, <1>8 DEF HandlerPanics, Panic, code
<1>9. ASSUME TimePasses PROVE Good
  BY <1>2, <1>9 DEF TimePasses, Expire
<1>10. ASSUME Refill \/ Signal \/ Exit \/ UNCHANGED gvars PROVE Good
  BY <1>3, <1>10 DEF Refill, Signal, Exit, gvars, gate
<1>11. Good
  BY <1>4, <1>5, <1>6, <1>7, <1>8, <1>9, <1>10 DEF GatewayNext
<1>12. QED
  BY <1>1, <1>11 DEF CountInv

\* A closed breaker has counted the 5xx answers of handlers since it closed,
\* each once, and nothing else: the 503 of a refusal, the 429 of the limiter,
\* a panic's 500 and a preflight never bring it nearer to opening.
THEOREM CountJustified == GatewaySpec => []FailuresJustified
<1>1. GatewayInit => CountInv
  BY BreakerInit, BreakerAssumption DEF GatewayInit, Init, CountInv, FailuresJustified
<1>2. CountInv => FailuresJustified
  BY DEF CountInv
<1>3. QED
  BY <1>1, <1>2, CountStep, PTL DEF GatewaySpec

\* In the server as in the breaker alone, a closed breaker is below its
\* threshold, whatever late answers and streams report.
THEOREM ServerClosedBelow == GatewaySpec => []ClosedBelowThreshold
<1>1. KeepsBreaker => []ClosedBelowThreshold
  BY ClosedMeansBelow DEF KeepsBreaker
<1>2. QED
  BY <1>1, BreakerKept, PTL

\* In the server as in the breaker alone, a half-open breaker lets in two
\* requests at most.
THEOREM ServerTwoProbes == GatewaySpec => []AtMostTwoProbes
<1>1. KeepsBreaker => []AtMostTwoProbes
  BY TwoProbesAtMost DEF KeepsBreaker
<1>2. QED
  BY <1>1, BreakerKept, PTL

-----------------------------------------------------------------------------
(* What clients are shown.                                                  *)

\* parseMonitorResponse makes nothing up: the array, one of the fields of the
\* object that decode as one, or nothing where there is none to show.
LEMMA ParsedFaithfully ==
    ASSUME NEW c \in Bodies, NEW g \in parseMonitorResponse(c), g.out # "error"
    PROVE  \/ c.kind = "array" /\ g.shown = c.series
           \/ c.kind = "object" /\ g.shown \in c.fields
           \/ /\ g.shown = "none"
              /\ \/ c.kind \in {"empty", "null"}
                 \/ c.kind = "object" /\ ("null" \in c.fields \/ c.fields \subseteq {"text"})
<1> DEFINE arrays == IF c.kind = "object" THEN c.fields \ {"text"} ELSE {}
<1>1. c.kind \in {"empty", "null", "other", "array", "object"}
  BY DEF Bodies
<1>2. CASE c.kind = "array"
  BY <1>2 DEF parseMonitorResponse, Got
<1>3. CASE c.kind = "other"
  BY <1>3 DEF parseMonitorResponse, Error
<1>4. CASE c.kind \in {"empty", "null"}
  <2>1. parseMonitorResponse(c) = {Got("none")}
    BY <1>4 DEF parseMonitorResponse
  <2>2. QED
    BY <1>4, <2>1 DEF Got
<1>5. CASE c.kind = "object"
  <2>1. CASE arrays # {}
    <3>1. parseMonitorResponse(c) = {Got(Decoded(f)) : f \in arrays}
      BY <1>5, <2>1 DEF parseMonitorResponse
    <3>2. PICK f \in c.fields : g = Got(Decoded(f))
      BY <1>5, <3>1
    <3>3. QED
      BY <1>5, <3>2 DEF Got, Decoded
  <2>2. CASE arrays = {}
    <3>1. parseMonitorResponse(c) = {Got("none")}
      BY <1>5, <2>2 DEF parseMonitorResponse
    <3>2. QED
      BY <1>5, <2>2, <3>1 DEF Got
  <2>3. QED
    BY <2>1, <2>2
<1>6. QED
  BY <1>1, <1>2, <1>3, <1>4, <1>5

\* What GET /monitor answers is faithful to the controller.
LEMMA MonitorFaithful ==
    ASSUME NEW n \in Connectors, NEW q, NEW login \in BOOLEAN, NEW c \in Controllers,
           NEW g \in QueryMonitor(n, q, login, c)
    PROVE  Faithful(Answer(respondError(g.out, Fail(404, 404051), Fail(501, 501051)),
                           c, g.shown))
<1> DEFINE reply == respondError(g.out, Fail(404, 404051), Fail(501, 501051))
           a == Answer(reply, c, g.shown)
<1>1. a.code = reply.code /\ a.sent = c /\ a.shown = g.shown
  BY DEF Answer
<1>2. reply.code = 0 => g.out \notin {"notFound", "unsupported", "error"}
  BY DEF respondError, Fail, Internal
<1> SUFFICES ASSUME g.out \notin {"notFound", "unsupported", "error"}, c \in Bodies,
                    g.shown # "page"
             PROVE  Faithful(a)
  BY <1>1, <1>2 DEF Faithful
<1>3. c \notin Unavailable /\ c.kind # "notFound"
  BY DEF Bodies, Unavailable
<1>4. n \in Capable /\ n # "absent"
  BY DEF QueryMonitor, Capable
<1>5. g \notin FetchObject(c)
  BY DEF FetchObject, Got, Error
<1>6. q \in MonitorQueries
  <2>1. FetchLogs(login, c) = FetchObject(c)
    BY <1>3 DEF FetchLogs
  <2>2. g # Error
    BY DEF Error
  <2>3. QED
    BY <1>4, <1>5, <2>1, <2>2 DEF QueryMonitor
<1>7. g \in parseMonitorResponse(c)
  BY <1>3, <1>4, <1>6 DEF QueryMonitor, FetchMetrics, MonitorQueries
<1>8. QED
  BY <1>1, <1>7, ParsedFaithfully DEF Faithful

\* No other handler shows metrics.
LEMMA PlainFaithful == ASSUME NEW reply PROVE Faithful(Plain(reply))
  BY DEF Faithful, Plain, Answer, Nothing, Bodies

\* No handler misleads its client.
LEMMA HandlersFaithful == \A a \in Handlers : Faithful(a)
<1> SUFFICES ASSUME NEW a \in Handlers PROVE Faithful(a)
  OBVIOUS
<1>1. CASE \E reply : a = Plain(reply)
  BY <1>1, PlainFaithful
<1>2. CASE a \in MonitorAnswers
  BY <1>1, <1>2, MonitorFaithful DEF MonitorAnswers
<1>3. CASE a \in DeviceAnswers \cup LiveAnswers
  BY <1>1, <1>3 DEF DeviceAnswers, LiveAnswers
<1>4. QED
  BY <1>1, <1>2, <1>3 DEF Handlers

\* No client of GET /monitor is shown metrics the controller did not send, nor
\* nothing in the place of an array it sent, whatever arrays there are.
THEOREM MetricsAreFaithful == GatewaySpec => []MetricsFaithful
<1>1. GatewayInit => MetricsFaithful
  BY DEF GatewayInit, MetricsFaithful
<1>2. MetricsFaithful /\ [GatewayNext]_gvars => MetricsFaithful'
  <2> SUFFICES ASSUME ~misled, [GatewayNext]_gvars PROVE ~misled'
    BY DEF MetricsFaithful
  <2>1. ASSUME NEW r \in Requests, Handle(r) PROVE ~misled'
    <3>1. ASSUME NEW w \in Written PROVE ~w.misleads
      <4>1. PICK a \in Handlers : w = [failed |-> ServerError(a), misleads |-> ~Faithful(a)]
        BY DEF Written
      <4>2. Faithful(a)
        BY HandlersFaithful
      <4>3. w.misleads = FALSE
        BY <4>1, <4>2, Zenon
      <4>4. QED
        BY <4>3
    <3>2. QED
      BY <2>1, <3>1 DEF Handle
  <2>2. ASSUME NEW r \in Requests,
               Arrive(r) \/ TurnedAway(r) \/ Serve(r) \/ HandlerPanics(r) \/ OpenStream(r)
                 \/ LeaveStream(r)
        PROVE  misled' = misled
    BY <2>2 DEF Arrive, TurnedAway, Serve, Refused, Enter, HandlerPanics, OpenStream,
       LeaveStream, gvars, gate
  <2>3. CASE Refill \/ TimePasses \/ Signal \/ Exit \/ UNCHANGED gvars
    BY <2>3 DEF Refill, TimePasses, Signal, Exit, gvars, gate
  <2>4. QED
    BY <2>1, <2>2, <2>3 DEF GatewayNext
<1>3. QED
  BY <1>1, <1>2, PTL DEF GatewaySpec
=============================================================================
