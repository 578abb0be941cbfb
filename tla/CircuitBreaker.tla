---------------------------- MODULE CircuitBreaker ----------------------------
(***************************************************************************)
(* The three-state circuit breaker every HTTP request passes through       *)
(* (internal/api/middleware/circuitbreaker.go).  A request asks allow(),   *)
(* runs its handler without the mutex, and reports its outcome; so the     *)
(* breaker may have changed state while the request was inside.            *)
(*                                                                         *)
(* failures is only compared with the threshold and saturates there.       *)
(***************************************************************************)
EXTENDS Naturals

CONSTANTS Requests,     \* requests that can be inside at the same time
          Threshold,    \* failures that open the breaker
          Panics        \* TRUE: a handler may panic

ASSUME BreakerAssumption == Threshold \in Nat \ {0} /\ Panics \in BOOLEAN

VARIABLES state,             \* "closed", "open" or "halfOpen"
          failures,          \* failures counted
          expired,           \* timeout has passed since lastFailureTime
          halfOpenPending,   \* a probe has been let in
          inside,            \* how each request was let in, "no" if it is not
          probes,            \* requests let in since the breaker left "open"
          panicked           \* a handler panicked since the breaker left "open"

code  == <<state, failures, expired, halfOpenPending>>
vars  == <<code, inside, probes, panicked>>

Capped(k, cap) == IF k > cap THEN cap ELSE k

\* allow() in state closed lets everybody in.
AllowClosed(r) ==
    /\ inside[r] = "no"
    /\ state = "closed"
    /\ inside' = [inside EXCEPT ![r] = "normal"]
    /\ UNCHANGED <<code, probes, panicked>>

\* allow() in state open: after the timeout this request is let in and the
\* breaker is half-open, with no probe marked as pending.
AllowExpired(r) ==
    /\ inside[r] = "no"
    /\ state = "open"
    /\ expired
    /\ state' = "halfOpen"
    /\ halfOpenPending' = FALSE
    /\ inside' = [inside EXCEPT ![r] = "probe"]
    /\ probes' = 1
    /\ panicked' = FALSE
    /\ UNCHANGED <<failures, expired>>

\* Mutant: the second probe is not marked.
AllowProbeUnmarked(r) ==
    /\ inside[r] = "no"
    /\ state = "halfOpen"
    /\ ~halfOpenPending
    /\ inside' = [inside EXCEPT ![r] = "probe"]
    /\ probes' = Capped(probes + 1, 3)
    /\ UNCHANGED <<code, panicked>>

\* allow() in state half-open lets one more request in.
AllowProbe(r) ==
    /\ inside[r] = "no"
    /\ state = "halfOpen"
    /\ ~halfOpenPending
    /\ halfOpenPending' = TRUE
    /\ inside' = [inside EXCEPT ![r] = "probe"]
    /\ probes' = Capped(probes + 1, 3)
    /\ UNCHANGED <<state, failures, expired, panicked>>

\* allow() returns false: the request is answered 503 and changes nothing.
Refuse(r) ==
    /\ inside[r] = "no"
    /\ \/ state = "open" /\ ~expired
       \/ state = "halfOpen" /\ halfOpenPending
    /\ UNCHANGED vars

\* Mutant: the failure count survives the recovery.
RecordSuccessKeepsCount(r) ==
    /\ inside[r] # "no"
    /\ inside' = [inside EXCEPT ![r] = "no"]
    /\ state' = IF state = "halfOpen" THEN "closed" ELSE state
    /\ halfOpenPending' = (halfOpenPending /\ state # "halfOpen")
    /\ UNCHANGED <<failures, expired, probes, panicked>>

\* Mutant: only a request marked as pending may close the breaker.
RecordSuccessIfPending(r) ==
    /\ inside[r] # "no"
    /\ inside' = [inside EXCEPT ![r] = "no"]
    /\ IF state = "halfOpen" /\ halfOpenPending
       THEN state' = "closed" /\ failures' = 0 /\ halfOpenPending' = FALSE
       ELSE UNCHANGED <<state, failures, halfOpenPending>>
    /\ UNCHANGED <<expired, probes, panicked>>

\* The handler answered below 500: recordSuccess() acts in half-open only.
RecordSuccess(r) ==
    /\ inside[r] # "no"
    /\ inside' = [inside EXCEPT ![r] = "no"]
    /\ \/ /\ state = "halfOpen"
          /\ state' = "closed"
          /\ failures' = 0
          /\ halfOpenPending' = FALSE
       \/ /\ state # "halfOpen"
          /\ UNCHANGED <<state, failures, halfOpenPending>>
    /\ UNCHANGED <<expired, probes, panicked>>

\* The handler answered 500..599: recordFailure() counts in every state.
RecordFailure(r) ==
    /\ inside[r] # "no"
    /\ inside' = [inside EXCEPT ![r] = "no"]
    /\ failures' = Capped(failures + 1, Threshold)
    /\ expired' = FALSE
    /\ state' = IF state = "halfOpen" \/ failures' >= Threshold THEN "open" ELSE state
    /\ halfOpenPending' = (halfOpenPending /\ state # "halfOpen")
    /\ UNCHANGED <<probes, panicked>>

\* The handler panics: gin.Recovery answers 500 further out, and nothing is
\* recorded here.
Panic(r) ==
    /\ Panics
    /\ inside[r] # "no"
    /\ inside' = [inside EXCEPT ![r] = "no"]
    /\ panicked' = TRUE
    /\ UNCHANGED <<code, probes>>

\* Time passes: more than the timeout since the last failure.
Expire ==
    /\ ~expired
    /\ expired' = TRUE
    /\ UNCHANGED <<state, failures, halfOpenPending, inside, probes, panicked>>

Init ==
    /\ state = "closed"
    /\ failures = 0
    /\ expired = TRUE            \* lastFailureTime is the zero time
    /\ halfOpenPending = FALSE
    /\ inside = [r \in Requests |-> "no"]
    /\ probes = 0
    /\ panicked = FALSE

Done(r) == RecordSuccess(r) \/ RecordFailure(r) \/ Panic(r)

Next ==
    \/ \E r \in Requests :
          \/ AllowClosed(r) \/ AllowExpired(r) \/ AllowProbe(r)
          \/ Refuse(r) \/ Done(r)
    \/ Expire

Spec == Init /\ [][Next]_vars

-----------------------------------------------------------------------------
(* Properties.                                                              *)

TypeOK ==
    /\ state \in {"closed", "open", "halfOpen"}
    /\ failures \in 0 .. Threshold
    /\ expired \in BOOLEAN
    /\ halfOpenPending \in BOOLEAN
    /\ inside \in [Requests -> {"no", "normal", "probe"}]
    /\ probes \in 0 .. 3
    /\ panicked \in BOOLEAN

\* A closed breaker has not yet counted Threshold failures, whatever requests
\* from earlier periods report late.
ClosedBelowThreshold == state = "closed" => failures < Threshold

\* A half-open breaker has let two requests in at most.
AtMostTwoProbes == state = "halfOpen" => probes <= 2

\* Does not hold: "the second request in state half-open is to be refused."
\* (middleware_test.go); allow() marks only the second probe.
OneProbe == state = "halfOpen" => probes <= 1
=============================================================================
