----------------------------- MODULE HttpClient -----------------------------
(***************************************************************************)
(* Concurrent calls through one ControllerClient and its HTTPClient: the   *)
(* shared bearer token with its early expiry, the device cache, and the    *)
(* retry loop of HTTPClient.Do.                                            *)
(*                                                                         *)
(* Time is counted in ticks.  Steps of the program take no time; an HTTP   *)
(* attempt takes at most Timeout.  A token is represented by the time at   *)
(* which the controller stops accepting it, a device list by the time at   *)
(* which the controller answered it.  The waits of the rate limiter and    *)
(* of the backoff are far below a tick and only appear as interleavings.   *)
(***************************************************************************)
EXTENDS Integers, FiniteSets

CONSTANTS
    Callers,        \* goroutines that use the client
    Ops,            \* what they call: "devices" (a cached GET) or "rpc" (a POST)
    MaxRetries,     \* httpclient.go:86, 3 in the code
    Timeout,        \* of one attempt, the client's timeout
    Margin,         \* tokens count as expired this long before they do: 60 seconds
    ExpiresIn,      \* life of a token
    CacheTTL,       \* of the device cache: 5 minutes
    Cancels,        \* whether a caller's context may be cancelled
    LastBegin,      \* bound of the model: no call begins later
    MaxCalls        \* bound of the model: calls of one goroutine

ASSUME ClientAssumption ==
    /\ {MaxRetries, Timeout, Margin, ExpiresIn, CacheTTL, LastBegin, MaxCalls} \subseteq Nat
    /\ Ops \subseteq {"devices", "rpc"}
    /\ Cancels \in BOOLEAN

\* The answer to a token request comes in before the token of it expires, and
\* the margin is at least as long as that answer may take.
ASSUME MarginAssumption == Timeout <= Margin /\ Margin < ExpiresIn

VARIABLES
    now,
    mu,             \* holder of ControllerClient.mu
    token,          \* c.token, as the time the controller drops it
    tokenExp,       \* c.tokenExp, what the client believes
    auth,           \* http.auth.Token
    cache,          \* c.cachedDevices and c.cacheTime
    call            \* the calls in progress

vars == <<now, mu, token, tokenExp, auth, cache, call>>

None  == "none"     \* nobody holds the mutex
Never == -1         \* no token, no device list

ASSUME CallersAssumption == IsFiniteSet(Callers) /\ None \notin Callers

Pcs == {"idle", "cache", "ensure", "auth", "limit", "flight", "answer", "store"}

\* "done" is a failure of an RPC that was executed, "failed" of one that was not; of
\* GETs and token requests "failed" says both.
Answers == {"none", "ok", "refused", "done", "failed"}

Idle(n) == [op |-> "none", pc |-> "idle", tok |-> FALSE, attempt |-> 0, hdr |-> Never,
            since |-> 0, resp |-> "none", got |-> Never, left |-> n]

TypeOK ==
    /\ now \in Nat
    /\ mu \in Callers \cup {None}
    /\ {token, tokenExp, auth} \subseteq Nat \cup {Never}
    /\ cache \in [read : Nat \cup {Never}, at : Nat \cup {Never}]
    /\ call \in [Callers ->
         [op : Ops \cup {"none"}, pc : Pcs, tok : BOOLEAN, attempt : 0..MaxRetries,
          hdr : Nat \cup {Never}, since : Nat, resp : Answers, got : Nat \cup {Never},
          left : 0..MaxCalls]]

Init ==
    /\ now = 0
    /\ mu = None
    /\ token = Never /\ tokenExp = Never /\ auth = Never
    /\ cache = [read |-> Never, at |-> Never]
    /\ call = [c \in Callers |-> Idle(MaxCalls)]

Waiting(c)     == call[c].pc \in {"cache", "ensure", "store"}

At(c, pc)      == call[c].pc = pc
Goto(c, pc)    == call' = [call EXCEPT ![c].pc = pc, ![c].since = now]
Return(c)      == call' = [call EXCEPT ![c] = Idle(call[c].left)]

\* sync.Mutex hands itself to whoever has waited longer than a millisecond, so
\* nobody gets it before one who waits since an earlier tick.
MutexTurn(c) ==
    /\ mu = None
    /\ \A d \in Callers : Waiting(d) => call[c].since <= call[d].since

-----------------------------------------------------------------------------
(* A goroutine calls getDevices, or one of the Restconf operations.         *)

Begin(c) ==
    /\ At(c, "idle") /\ call[c].left > 0 /\ now <= LastBegin
    /\ \E op \in Ops :
         call' = [call EXCEPT ![c] =
                    [Idle(call[c].left - 1) EXCEPT !.op = op, !.since = now,
                        !.pc = IF op = "devices" THEN "cache" ELSE "ensure"]]
    /\ UNCHANGED <<now, mu, token, tokenExp, auth, cache>>

\* Mutant: the list never grows old.
CacheFreshForever == cache.read # Never

\* An empty list is never taken from the cache; Never stands for it too.
CacheFresh == cache.read # Never /\ now - cache.at < CacheTTL

\* First critical section of getDevices: serve from the cache or go on.
CacheLook(c) ==
    /\ At(c, "cache") /\ MutexTurn(c)
    /\ IF CacheFresh THEN Return(c) ELSE Goto(c, "ensure")
    /\ UNCHANGED <<now, mu, token, tokenExp, auth, cache>>

\* Second critical section: whoever comes last decides what is cached.
CacheStore(c) ==
    /\ At(c, "store") /\ MutexTurn(c)
    /\ cache' = [read |-> call[c].got, at |-> now]
    /\ Return(c)
    /\ UNCHANGED <<now, mu, token, tokenExp, auth>>

-----------------------------------------------------------------------------
(* ensureToken.                                                             *)

\* Mutant: no margin.
TokenValidToTheEnd == token # Never /\ now < tokenExp

TokenValid == token # Never /\ now < tokenExp - Margin

\* The mutex stays locked while a new token is requested.
EnsureToken(c) ==
    /\ At(c, "ensure") /\ MutexTurn(c)
    /\ IF TokenValid
       THEN Goto(c, "auth") /\ UNCHANGED mu
       ELSE /\ mu' = c
            /\ call' = [call EXCEPT ![c].pc = "auth", ![c].tok = TRUE]
    /\ UNCHANGED <<now, token, tokenExp, auth, cache>>

\* HTTPClient.Do puts the header on once, before the first attempt, and takes
\* no lock to read the token.
ApplyAuth(c) ==
    /\ At(c, "auth")
    /\ call' = [call EXCEPT ![c].pc = "limit", ![c].attempt = 0,
                   ![c].hdr = IF call[c].tok THEN Never ELSE auth]
    /\ UNCHANGED <<now, mu, token, tokenExp, auth, cache>>

-----------------------------------------------------------------------------
(* One attempt: sent, handled by the controller, answered.                  *)

Send(c) ==
    /\ At(c, "limit")
    /\ call' = [call EXCEPT ![c].pc = "flight", ![c].since = now, ![c].resp = "none"]
    /\ UNCHANGED <<now, mu, token, tokenExp, auth, cache>>

Replies(op) == IF op = "rpc" THEN {"ok", "refused", "done"} ELSE {"ok", "refused"}

\* The controller refuses the request, or does what it asks and answers, or does
\* it and fails.  The token endpoint takes no bearer token.  A retry of a POST may
\* get this far as well: Do sends a clone of a request whose reader is used up, but
\* on a connection that was kept alive net/http notices before it has sent anything
\* and starts again with the body of GetBody.  On a new connection the attempt breaks.
Handle(c) ==
    /\ At(c, "flight")
    /\ \/ /\ call[c].tok
          /\ \E r \in {"ok", "refused"} :
               call' = [call EXCEPT ![c].pc = "answer", ![c].resp = r,
                           ![c].got = IF r = "ok" THEN now + ExpiresIn ELSE Never]
       \/ /\ ~call[c].tok /\ now < call[c].hdr
          /\ \E r \in Replies(call[c].op) :
               call' = [call EXCEPT ![c].pc = "answer", ![c].resp = r,
                           ![c].got = IF r = "ok" /\ call[c].op = "devices" THEN now ELSE Never]
       \/ /\ ~call[c].tok /\ now >= call[c].hdr
          /\ call' = [call EXCEPT ![c].pc = "answer", ![c].resp = "refused"]
    /\ UNCHANGED <<now, mu, token, tokenExp, auth, cache>>

\* The connection breaks, or a retry finds its body used up, or the controller
\* fails: nothing was done.
Break(c) ==
    /\ At(c, "flight")
    /\ call' = [call EXCEPT ![c].pc = "answer", ![c].resp = "failed"]
    /\ UNCHANGED <<now, mu, token, tokenExp, auth, cache>>

\* Do gives up: with the last error, with a 4xx, or without another attempt.
GiveUp(c) ==
    /\ mu' = IF mu = c THEN None ELSE mu
    /\ Return(c)
    /\ UNCHANGED <<now, token, tokenExp, auth, cache>>

\* A 5xx or a network error is tried again, with the header of the first attempt.
Retry(c) ==
    /\ At(c, "answer") /\ call[c].resp \in {"done", "failed"}
    /\ IF call[c].attempt < MaxRetries
       THEN /\ call' = [call EXCEPT ![c].pc = "limit", ![c].attempt = @ + 1, ![c].resp = "none"]
            /\ UNCHANGED <<now, mu, token, tokenExp, auth, cache>>
       ELSE GiveUp(c)

\* A 4xx, 401 included, ends the call.
Refused(c) == At(c, "answer") /\ call[c].resp = "refused" /\ GiveUp(c)

\* fetchTokenLocked: the expiry is counted from the arrival of the answer.
TokenArrives(c) ==
    /\ At(c, "answer") /\ call[c].resp = "ok" /\ call[c].tok
    /\ token' = call[c].got
    /\ tokenExp' = now + ExpiresIn
    /\ auth' = call[c].got
    /\ mu' = None
    /\ call' = [call EXCEPT ![c].pc = "auth", ![c].tok = FALSE, ![c].got = Never]
    /\ UNCHANGED <<now, cache>>

AnswerArrives(c) ==
    /\ At(c, "answer") /\ call[c].resp = "ok" /\ ~call[c].tok
    /\ IF call[c].op = "devices" THEN Goto(c, "store") ELSE Return(c)
    /\ UNCHANGED <<now, mu, token, tokenExp, auth, cache>>

\* Mutant: only the GETs have a timeout.
TimeOutOfGets(c) ==
    /\ call[c].pc \in {"flight", "answer"} /\ now - call[c].since >= Timeout
    /\ call[c].op = "devices" /\ ~call[c].tok
    /\ GiveUp(c)

\* The client's own timeout counts as a deadline: it is not retried.
TimeOut(c) ==
    /\ call[c].pc \in {"flight", "answer"} /\ now - call[c].since >= Timeout
    /\ GiveUp(c)

\* The caller goes away.  Waiting for the mutex is not interrupted.
Cancel(c) ==
    /\ Cancels /\ call[c].pc \in {"limit", "flight", "answer"}
    /\ GiveUp(c)

-----------------------------------------------------------------------------
\* Time passes while every call waits for the network, for the mutex of one
\* that does, or has not begun.
Tick ==
    /\ now <= LastBegin \/ \E c \in Callers : ~At(c, "idle")
    /\ \A c \in Callers :
         \/ At(c, "idle")
         \/ call[c].pc \in {"flight", "answer"} /\ now - call[c].since < Timeout
         \/ Waiting(c) /\ mu # None
    /\ now' = now + 1
    /\ UNCHANGED <<mu, token, tokenExp, auth, cache, call>>

Client(c) ==
    \/ CacheLook(c) \/ CacheStore(c) \/ EnsureToken(c) \/ ApplyAuth(c) \/ Send(c)
    \/ Retry(c) \/ Refused(c) \/ TokenArrives(c) \/ AnswerArrives(c) \/ TimeOut(c)

Next ==
    \/ \E c \in Callers :
         Begin(c) \/ Client(c) \/ Handle(c) \/ Break(c) \/ Cancel(c)
    \/ Tick

Spec == Init /\ [][Next]_vars

\* The goroutines run, a free mutex is taken by a waiter in its turn, and time
\* passes.  Nothing is asked of the network or of the controller.
FairSpec ==
    /\ Spec
    /\ \A c \in Callers : WF_vars(Client(c))
    /\ WF_vars(Tick)

-----------------------------------------------------------------------------
(***************************************************************************)
(* Properties.                                                             *)
(***************************************************************************)

\* Whenever ensureToken would answer that the cached token is good, it is the
\* one in the HTTPClient's header and the controller accepts it at that moment:
\* the margin makes up for the time the token's own answer was on the way.
TokenLive == TokenValid => auth = token /\ now < token

\* How long an answer may be on its way into the cache: its own attempt, and a
\* token request of every other goroutine before it gets the mutex.
Lag == Timeout + (Cardinality(Callers) - 1) * (MaxRetries + 1) * Timeout

\* Concurrent misses may overwrite each other, but what getDevices serves from
\* the cache was the controller's list at most CacheTTL + Lag ago.
CacheAge == CacheFresh => now - cache.read < CacheTTL + Lag

\* Every call returns, whatever the controller does: nobody waits for ever for
\* the mutex that a token request holds.
CallsReturn == \A c \in Callers : ~At(c, "idle") ~> At(c, "idle")

-----------------------------------------------------------------------------
(* Does not hold.                                                           *)

\* An RPC that the controller has executed is not sent again: the operations are
\* POSTs that nobody made idempotent.  One that was executed and answered with a
\* 5xx is retried, and Handle may execute it once more.
PostOnce == [][\A c \in Callers :
    At(c, "answer") /\ call[c].op = "rpc" /\ ~call[c].tok /\ call[c].resp = "done"
      => ~At(c, "limit")']_vars
=============================================================================
