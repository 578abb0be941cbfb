-------------------------- MODULE HttpClient_proofs --------------------------
(***************************************************************************)
(* The shared HTTP client, for any number of goroutines, of retries and    *)
(* any times: the token that counts as valid is one that the controller    *)
(* accepts, and what is served from the device cache has a bounded age.    *)
(*                                                                         *)
(* The last one needs to know how long a goroutine waits for the client's  *)
(* mutex.  It is handed over in the order of arrival, so a waiter is       *)
(* overtaken by nobody who came later, and whoever goes before it holds    *)
(* the mutex for one token request.  Patience says so as a bound on the    *)
(* time waited so far.                                                     *)
(***************************************************************************)
EXTENDS HttpClient, FiniteSetTheorems, TLAPS

InFlight(r) == r.pc \in {"flight", "answer"}

\* What a call r knows at time n.  An attempt is over after Timeout; the mutex
\* is held from the decision to ask for a token to its arrival; the lists and tokens under way are as old as their attempt at most.
Proper(r, n) ==
    /\ r.since <= n
    /\ InFlight(r) => n <= r.since + Timeout
    /\ r.tok => r.pc \in {"auth", "limit"} \/ InFlight(r)
    /\ r.pc \in {"cache", "ensure"} \/ (r.pc = "auth" /\ r.tok) => r.attempt = 0
    /\ r.pc = "answer" /\ r.resp = "ok" /\ r.tok => r.got >= r.since + ExpiresIn
    /\ r.pc = "answer" /\ r.resp = "ok" /\ ~r.tok /\ r.op = "devices" => r.got >= r.since
    /\ r.pc = "store" => r.got >= 0 /\ r.since - r.got <= Timeout

\* Who has the token request has the mutex.
MutexHeld == \A c \in Callers : call[c].tok <=> mu = c

\* The header has the cached token, which the client drops in time.
TokenKept == auth = token /\ (token # Never => tokenExp <= token + Margin)

\* The longest time of one token request, and how much of it has passed.
Request == (MaxRetries + 1) * Timeout
Held(r, n)  == r.attempt * Timeout + (IF InFlight(r) THEN n - r.since ELSE 0)
HeldFor == IF mu = None THEN 0 ELSE Held(call[mu], now)

\* Those who may get the mutex before c does, and how many of the others went
\* or cannot.
Ahead(c) == {d \in Callers \ {c} : \/ Waiting(d) /\ call[d].since <= call[c].since
                                   \/ mu = d}
Turns(c) == Cardinality(Callers) - 1 - Cardinality(Ahead(c))

\* A waiter has waited for one request of each that went before, and for the
\* part of the present one that is over.
Patience == \A c \in Callers :
    Waiting(c) => now - call[c].since <= Request * Turns(c) + HeldFor

\* The cached list was on its way for Lag at most.
CacheLag == cache.read # Never => cache.at - cache.read <= Lag

ClientInv ==
    /\ TypeOK
    /\ \A c \in Callers : Proper(call[c], now)
    /\ MutexHeld
    /\ TokenKept
    /\ Patience
    /\ CacheLag

-----------------------------------------------------------------------------
Basics ==
    /\ TypeOK
    /\ \A c \in Callers : Proper(call[c], now)
    /\ MutexHeld
    /\ TokenKept

\* At the start nobody calls and nothing is cached.
LEMMA BasicsInit == Init => Basics
BY ClientAssumption, CallersAssumption
   DEF Init, Basics, TypeOK, Idle, Proper, InFlight, MutexHeld, TokenKept, Pcs, Answers, Never,
       None

CallType == [op : Ops \cup {"none"}, pc : Pcs, tok : BOOLEAN, attempt : 0..MaxRetries,
             hdr : Nat \cup {Never}, since : Nat, resp : Answers, got : Nat \cup {Never},
             left : 0..MaxCalls]

\* A step of c that gives its call the value q.
Move(c, q) == call' = [call EXCEPT ![c] = q]

Waits(r) == r.pc \in {"cache", "ensure", "store"}

\* What a step of c may do with the mutex: leave it, having spent no time that
\* is forgotten; take it in turn; or release it.
Leaves(c, q) == /\ mu' = mu /\ (q.tok <=> mu = c)
                /\ mu = c => Held(q, now) >= Held(call[c], now)
Takes(c, q) == /\ Waiting(c) /\ MutexTurn(c) /\ mu' = c
               /\ q.tok /\ q.attempt = 0 /\ q.pc = "auth"
Releases(c, q) == mu = c /\ mu' = None /\ ~q.tok /\ ~Waits(q)

Turnover(c, q) == Leaves(c, q) \/ Takes(c, q) \/ Releases(c, q)

\* The step of one call as far as the other calls see it.
Moves(c, q) ==
    /\ Move(c, q) /\ now' = now
    /\ Proper(q, now)
    /\ Waits(q) => q.since = now
    /\ Turnover(c, q)

\* The values that such a step leaves in their sets.
LEMMA CallTyped == TypeOK => call \in [Callers -> CallType]
BY DEF TypeOK, CallType

\* A step of one call keeps the basics when the new value of the call is
\* proper and the mutex follows the token request.
LEMMA BasicsMoved ==
    ASSUME Basics, NEW c \in Callers, NEW q \in CallType, Moves(c, q),
           {token', tokenExp', auth'} \subseteq Nat \cup {Never},
           cache' \in [read : Nat \cup {Never}, at : Nat \cup {Never}],
           TokenKept'
    PROVE  /\ Basics'
           /\ call'[c] = q /\ \A d \in Callers \ {c} : call'[d] = call[d]
<1>1. call \in [Callers -> CallType]
  BY CallTyped DEF Basics
<1>2. /\ call' \in [Callers -> CallType] /\ call'[c] = q
      /\ \A d \in Callers \ {c} : call'[d] = call[d]
  BY <1>1 DEF Move, Moves
<1>M. /\ mu' \in Callers \cup {None} /\ (q.tok <=> mu' = c)
      /\ \A d \in Callers \ {c} : mu' = d <=> mu = d
  BY CallersAssumption
     DEF Basics, TypeOK, Moves, Turnover, Leaves, Takes, Releases, MutexTurn, CallType
<1>3. TypeOK'
  BY <1>2, <1>M DEF Basics, TypeOK, CallType, Moves
<1>4. \A d \in Callers : Proper(call'[d], now')
  BY <1>2 DEF Basics, Moves
<1>5. MutexHeld'
  BY <1>2, <1>M DEF Basics, MutexHeld
<1>6. QED
  BY <1>2, <1>3, <1>4, <1>5 DEF Basics

\* Multiplication by the length of a request keeps the order.
LEMMA Products ==
    ASSUME NEW b \in Nat, NEW x \in Int, NEW y \in Int, x <= y
    PROVE  b * x \in Int /\ b * x <= b * y /\ b * (x + 1) = b * x + b /\ (x >= 0 => b * x >= 0)
<1>1. PICK k \in Nat : y = x + k
  <2>1. y - x \in Nat /\ y = x + (y - x)
    BY SMT
  <2>2. QED
    BY <2>1
<1>2. b * k >= 0 /\ b * k \in Int /\ b * x \in Int
  BY SMT
<1>3. b * (x + k) = b * x + b * k /\ b * (x + 1) = b * x + b
  BY SMT
<1>4. x >= 0 => b * x >= 0
  BY SMT
<1>5. QED
  BY <1>1, <1>2, <1>3, <1>4

\* A request takes as long as its attempts, and the turns that are left are
\* counted by the goroutines that are not ahead.
MeasuresOK ==
    /\ Request \in Nat
    /\ HeldFor \in Nat /\ HeldFor <= Request
    /\ \A c \in Callers : IsFiniteSet(Ahead(c)) /\ Turns(c) \in Nat

\* The counts of the calls ahead and of the tries left are naturals.
LEMMA Measures == Basics => MeasuresOK
<1> SUFFICES ASSUME Basics PROVE MeasuresOK
  OBVIOUS
<1>1. Request \in Nat
  BY ClientAssumption DEF Request
<1>2. HeldFor \in Nat /\ HeldFor <= Request
  <2>1. CASE mu = None
    BY <2>1, <1>1 DEF HeldFor
  <2>2. CASE mu # None
    <3>1. mu \in Callers
      BY <2>2 DEF Basics, TypeOK
    <3> PICK r \in CallType : r = call[mu]
      BY <3>1, CallTyped DEF Basics
    <3>2. Proper(r, now)
      BY <3>1 DEF Basics
    <3>3. /\ r.attempt \in 0..MaxRetries /\ r.since \in Nat /\ now \in Nat
          /\ MaxRetries \in Nat /\ Timeout \in Nat
      BY ClientAssumption DEF CallType, Basics, TypeOK
    <3> PICK late \in Nat : late = IF InFlight(r) THEN now - r.since ELSE 0
      BY <3>2, <3>3 DEF Proper
    <3>4. late <= Timeout
      BY <3>2, <3>3 DEF Proper
    <3>5. Timeout * r.attempt <= Timeout * MaxRetries /\ Timeout * r.attempt >= 0
      BY <3>3, Products
    <3> PICK part \in Int : part = Timeout * r.attempt
      BY <3>3, <3>5, Products
    <3> PICK whole \in Int : whole = Timeout * MaxRetries
      BY <3>3, Products
    <3>6. HeldFor = part + late
      BY <2>2, <3>3 DEF HeldFor, Held
    <3>7. Request = whole + Timeout
      BY <3>3 DEF Request
    <3>8. part >= 0 /\ part <= whole
      BY <3>5
    <3>9. QED
      BY <3>3, <3>4, <3>6, <3>7, <3>8
  <2>3. QED
    BY <2>1, <2>2
<1>3. ASSUME NEW c \in Callers PROVE IsFiniteSet(Ahead(c)) /\ Turns(c) \in Nat
  <2>1. /\ IsFiniteSet(Callers \ {c})
        /\ Cardinality(Callers \ {c}) = Cardinality(Callers) - 1
    BY CallersAssumption, FS_RemoveElement
  <2>2. Ahead(c) \subseteq Callers \ {c}
    BY DEF Ahead
  <2>3. IsFiniteSet(Ahead(c)) /\ Cardinality(Ahead(c)) <= Cardinality(Callers) - 1
    BY <2>1, <2>2, FS_Subset
  <2>4. Cardinality(Ahead(c)) \in Nat /\ Cardinality(Callers) \in Nat
    BY <2>3, CallersAssumption, FS_CardinalityType
  <2>5. QED
    BY <2>3, <2>4 DEF Turns
<1>4. QED
  BY <1>1, <1>2, <1>3 DEF MeasuresOK

\* A waiter's bound survives every step of a call: of its own, because its wait
\* begins anew; of one that came later, because that gets no turn before it;
\* and of one ahead, because that takes at most one request.
LEMMA PatienceMoved ==
    ASSUME Basics, Basics', Patience, NEW c \in Callers, NEW q \in CallType, Moves(c, q),
           call'[c] = q, \A d \in Callers \ {c} : call'[d] = call[d]
    PROVE  Patience'
<1> SUFFICES ASSUME NEW e \in Callers, Waiting(e)'
             PROVE  now' - call'[e].since <= Request * Turns(e)' + HeldFor'
  BY DEF Patience
<1>1. /\ Request \in Nat /\ HeldFor \in Nat /\ HeldFor <= Request
      /\ IsFiniteSet(Ahead(e)) /\ Turns(e) \in Nat
  BY Measures DEF MeasuresOK
<1>2. HeldFor' \in Nat /\ Turns(e)' \in Nat
  <2>1. MeasuresOK'
    BY Measures, PTL
  <2>2. QED
    BY <2>1 DEF MeasuresOK
<1>3. Request * Turns(e)' \in Nat
  BY <1>1, <1>2, Products
<1>4. /\ call \in [Callers -> CallType] /\ call' \in [Callers -> CallType] /\ now \in Nat
      /\ now' = now /\ Cardinality(Callers) \in Nat
  BY CallTyped, CallersAssumption, FS_CardinalityType DEF Basics, TypeOK, CallType, Moves
<1>5. CASE call'[e].since = now'
  <2>1. now' - call'[e].since = 0
    BY <1>4, <1>5
  <2>2. QED
    BY <1>1, <1>2, <1>3, <2>1
<1>6. CASE call'[e].since # now'
  <2>1. e # c
    BY <1>6 DEF Moves, Waits, Waiting
  <2>2. call'[e] = call[e] /\ Waiting(e) /\ now - call[e].since <= Request * Turns(e) + HeldFor
    BY <2>1 DEF Waiting, Patience
  <2>3. call[e].since \in Nat /\ call[e].since < now
    <3> PICK r \in CallType : r = call[e]
      BY <1>4
    <3>1. r.since \in Nat /\ r.since <= now /\ r.since # now
      BY <1>4, <1>6, <2>2 DEF CallType, Basics, Proper
    <3>2. QED
      BY <1>4, <3>1
  <2>4. ~(Waiting(c)' /\ call'[c].since <= call'[e].since)
    BY <1>4, <2>2, <2>3 DEF Moves, Waits, Waiting
  <2>5. ASSUME NEW d \in Ahead(e)', d # c PROVE d \in Ahead(e)
    <3>1. d \in Callers /\ d # e /\ call'[d] = call[d]
      BY <2>5 DEF Ahead
    <3>2. mu' = d => mu = d
      BY <2>5, <3>1, CallersAssumption DEF Moves, Turnover, Leaves, Takes, Releases
    <3>3. mu' = d \/ (Waiting(d)' /\ call'[d].since <= call'[e].since)
      BY <2>5 DEF Ahead
    <3>4. QED
      BY <2>2, <3>1, <3>2, <3>3 DEF Ahead, Waiting
  <2>6. c \in Ahead(e)' => mu' = c
    BY <2>4 DEF Ahead
  <2>7. CASE Leaves(c, q) \/ Takes(c, q)
    <3>1. c \in Ahead(e)' => c \in Ahead(e)
      BY <2>1, <2>2, <2>6, <2>7 DEF Ahead, Leaves, Takes, MutexTurn
    <3>2. Ahead(e)' \subseteq Ahead(e)
      BY <2>5, <3>1
    <3>3. Cardinality(Ahead(e)') <= Cardinality(Ahead(e)) /\ IsFiniteSet(Ahead(e)')
      BY <1>1, <3>2, FS_Subset
    <3>4. Turns(e) <= Turns(e)'
      <4>1. Cardinality(Ahead(e)) \in Nat /\ Cardinality(Ahead(e)') \in Nat
        BY <1>1, <3>3, FS_CardinalityType
      <4>2. QED
        BY <1>4, <3>3, <4>1 DEF Turns
    <3>5. Request * Turns(e) <= Request * Turns(e)' /\ Request * Turns(e) \in Int
      BY <1>1, <1>2, <3>4, Products
    <3>6. HeldFor <= HeldFor'
      <4>1. CASE mu' # c
        <5>1. mu' = mu /\ (mu # None => mu \in Callers /\ call'[mu] = call[mu])
          BY <2>7, <4>1 DEF Leaves, Takes, Basics, TypeOK
        <5>2. HeldFor' = HeldFor
          BY <1>4, <5>1 DEF HeldFor, Held, InFlight
        <5>3. QED
          BY <1>1, <5>2
      <4>2. CASE mu' = c /\ Leaves(c, q)
        BY <1>4, <4>2, CallersAssumption DEF Leaves, HeldFor, Held, InFlight
      <4>3. CASE Takes(c, q)
        <5>1. HeldFor = 0
          BY <4>3 DEF Takes, MutexTurn, HeldFor
        <5>2. QED
          BY <1>2, <5>1
      <4>4. QED
        BY <2>7, <4>1, <4>2, <4>3
    <3>7. QED
      BY <1>1, <1>2, <1>3, <1>4, <2>2, <2>3, <3>5, <3>6
  <2>8. CASE Releases(c, q)
    <3>1. c \in Ahead(e) /\ c \notin Ahead(e)'
      BY <2>1, <2>6, <2>8, CallersAssumption DEF Ahead, Releases
    <3>2. Ahead(e)' \subseteq Ahead(e) \ {c}
      BY <2>5, <3>1
    <3>3. /\ IsFiniteSet(Ahead(e) \ {c})
          /\ Cardinality(Ahead(e) \ {c}) = Cardinality(Ahead(e)) - 1
      BY <1>1, <3>1, FS_RemoveElement
    <3>4. IsFiniteSet(Ahead(e)') /\ Cardinality(Ahead(e)') <= Cardinality(Ahead(e)) - 1
      BY <3>2, <3>3, FS_Subset
    <3>5. Turns(e) + 1 <= Turns(e)'
      <4>1. Cardinality(Ahead(e)) \in Nat /\ Cardinality(Ahead(e)') \in Nat
        BY <1>1, <3>4, FS_CardinalityType
      <4>2. QED
        BY <1>4, <3>4, <4>1 DEF Turns
    <3>6. /\ Request * (Turns(e) + 1) <= Request * Turns(e)'
          /\ Request * (Turns(e) + 1) = Request * Turns(e) + Request
          /\ Request * Turns(e) \in Int
      BY <1>1, <1>2, <3>5, Products
    <3>7. QED
      BY <1>1, <1>2, <1>3, <1>4, <2>2, <2>3, <3>6
  <2>9. QED
    BY <2>7, <2>8 DEF Moves, Turnover
<1>7. QED
  BY <1>5, <1>6

-----------------------------------------------------------------------------
(* The steps of a call, one by one: each gives the call a proper value and  *)
(* leaves, takes or releases the mutex.                                     *)

\* What is known of the call c before a step of it.
LEMMA Before ==
    ASSUME Basics, NEW c \in Callers
    PROVE  /\ call \in [Callers -> CallType] /\ call[c] \in CallType
           /\ Proper(call[c], now) /\ (call[c].tok <=> mu = c)
           /\ now \in Nat /\ auth \in Nat \cup {Never} /\ mu \in Callers \cup {None}
           /\ c # None /\ Timeout \in Nat /\ MaxRetries \in Nat
           /\ ExpiresIn \in Nat /\ MaxCalls \in Nat
BY CallTyped, ClientAssumption, CallersAssumption DEF Basics, TypeOK, MutexHeld

\* A call that returns, releasing the mutex if it has it.
LEMMA ReturnMoves ==
    ASSUME Basics, NEW c \in Callers, Return(c), now' = now,
           mu' = IF mu = c THEN None ELSE mu
    PROVE  \E q \in CallType : Moves(c, q)
<1> PICK r \in CallType : r = call[c]
  BY Before
<1> PICK q : q = Idle(r.left)
  OBVIOUS
<1>1. q \in CallType /\ Proper(q, now)
  BY Before DEF CallType, Idle, Pcs, Answers, Never, Proper, InFlight
<1>2. Move(c, q)
  BY DEF Return, Move
<1>3. q.tok = FALSE /\ q.pc = "idle"
  BY DEF Idle
<1>4. Turnover(c, q)
  BY <1>3, Before DEF Turnover, Leaves, Releases, Waits
<1>5. QED
  BY <1>1, <1>2, <1>3, <1>4 DEF Moves, Waits

\* What Begin gives a call is one.
LEMMA BegunTyped ==
    ASSUME NEW op \in Ops, NEW n \in Nat, NEW left \in 0..MaxCalls
    PROVE  [Idle(left) EXCEPT !.op = op, !.since = n,
               !.pc = IF op = "devices" THEN "cache" ELSE "ensure"] \in CallType
<1>1. 0 \in 0..MaxRetries
  BY ClientAssumption
<1>2. QED
  BY <1>1 DEF CallType, Pcs, Answers, Never, Idle

\* A call begins: it is before every try.
LEMMA BeginMoves ==
    ASSUME Basics, NEW c \in Callers, Begin(c)
    PROVE  \E q \in CallType : Moves(c, q)
<1> PICK r \in CallType : r = call[c]
  BY Before
<1>1. r.pc = "idle" /\ r.left > 0 /\ mu' = mu /\ ~r.tok
  BY Before DEF Begin, At, Proper, InFlight
<1> PICK op \in Ops :
        call' = [call EXCEPT ![c] =
                    [Idle(r.left - 1) EXCEPT !.op = op, !.since = now,
                        !.pc = IF op = "devices" THEN "cache" ELSE "ensure"]]
  BY DEF Begin
<1> PICK q : q = [Idle(r.left - 1) EXCEPT !.op = op, !.since = now,
                        !.pc = IF op = "devices" THEN "cache" ELSE "ensure"]
  OBVIOUS
<1>2. Move(c, q) /\ now' = now
  BY Before DEF Begin, Move
<1>0. now \in Nat /\ r.left - 1 \in 0..MaxCalls
  BY <1>1, Before DEF CallType
<1>3. q \in CallType
  BY <1>0, BegunTyped
<1>7. Proper(q, now)
  BY <1>1, Before DEF CallType, Never, Idle, Proper, InFlight
<1>4. Waits(q) => q.since = now
  BY <1>1, Before DEF CallType, Waits, Idle
<1>5. Turnover(c, q)
  BY <1>1, Before DEF Begin, CallType, Idle, Turnover, Leaves, Held, InFlight, Waits, Proper
<1>6. QED
  BY <1>2, <1>3, <1>4, <1>5, <1>7 DEF Moves

\* A stale cache sends the call on.
LEMMA CacheLookMoves ==
    ASSUME Basics, NEW c \in Callers, CacheLook(c), ~CacheFresh
    PROVE  \E q \in CallType : Moves(c, q)
<1> PICK r \in CallType : r = call[c]
  BY Before
<1>1. r.pc = "cache" /\ mu = None /\ mu' = mu /\ ~r.tok
  BY Before DEF CacheLook, Goto, At, Waiting, MutexTurn
<1> PICK q : q = [r EXCEPT !.pc = "ensure", !.since = now]
  OBVIOUS
<1>2. Move(c, q) /\ now' = now
  BY Before DEF CacheLook, Goto, Move
<1>3. q \in CallType
  BY <1>1, Before DEF CallType, Pcs, Answers, Never
<1>7. Proper(q, now)
  BY <1>1, Before DEF CallType, Never, Proper, InFlight
<1>4. Waits(q) => q.since = now
  BY <1>1, Before DEF CallType, Waits
<1>5. Turnover(c, q)
  BY <1>1, Before DEF CacheLook, Goto, CallType, Turnover, Leaves, Held, InFlight, Waits, Proper
<1>6. QED
  BY <1>2, <1>3, <1>4, <1>5, <1>7 DEF Moves

\* A valid token sends the call on.
LEMMA EnsureValidMoves ==
    ASSUME Basics, NEW c \in Callers, EnsureToken(c), TokenValid
    PROVE  \E q \in CallType : Moves(c, q)
<1> PICK r \in CallType : r = call[c]
  BY Before
<1>1. r.pc = "ensure" /\ mu = None /\ mu' = mu /\ ~r.tok
  BY Before DEF EnsureToken, Goto, At, Waiting, MutexTurn
<1> PICK q : q = [r EXCEPT !.pc = "auth", !.since = now]
  OBVIOUS
<1>2. Move(c, q) /\ now' = now
  BY Before DEF EnsureToken, Goto, Move
<1>3. q \in CallType
  BY <1>1, Before DEF CallType, Pcs, Answers, Never
<1>7. Proper(q, now)
  BY <1>1, Before DEF CallType, Never, Proper, InFlight
<1>4. Waits(q) => q.since = now
  BY <1>1, Before DEF CallType, Waits
<1>5. Turnover(c, q)
  BY <1>1, Before DEF EnsureToken, Goto, CallType, Turnover, Leaves, Held, InFlight, Waits, Proper
<1>6. QED
  BY <1>2, <1>3, <1>4, <1>5, <1>7 DEF Moves

\* The mutex is taken to fetch a token.
LEMMA EnsureTakesMoves ==
    ASSUME Basics, NEW c \in Callers, EnsureToken(c), ~TokenValid
    PROVE  \E q \in CallType : Moves(c, q)
<1> PICK r \in CallType : r = call[c]
  BY Before
<1>1. r.pc = "ensure" /\ mu = None /\ mu' = c /\ MutexTurn(c) /\ Waiting(c)
  BY Before DEF EnsureToken, At, Waiting, MutexTurn
<1> PICK q : q = [r EXCEPT !.pc = "auth", !.tok = TRUE]
  OBVIOUS
<1>2. Move(c, q) /\ now' = now
  BY Before DEF EnsureToken, Move
<1>3. q \in CallType
  BY <1>1, Before DEF CallType, Pcs, Answers, Never
<1>7. Proper(q, now)
  BY <1>1, Before DEF CallType, Never, Proper, InFlight
<1>4. Waits(q) => q.since = now
  BY <1>1, Before DEF CallType, Waits
<1>5. Turnover(c, q)
  BY <1>1, Before DEF EnsureToken, CallType, Turnover, Takes, Held, InFlight, Waits, Proper
<1>6. QED
  BY <1>2, <1>3, <1>4, <1>5, <1>7 DEF Moves

\* The header is set.
LEMMA ApplyAuthMoves ==
    ASSUME Basics, NEW c \in Callers, ApplyAuth(c)
    PROVE  \E q \in CallType : Moves(c, q)
<1> PICK r \in CallType : r = call[c]
  BY Before
<1>1. r.pc = "auth" /\ mu' = mu
  BY Before DEF ApplyAuth, At, Waiting, MutexTurn
<1> PICK q : q = [r EXCEPT !.pc = "limit", !.attempt = 0, !.hdr = IF r.tok THEN Never ELSE auth]
  OBVIOUS
<1>2. Move(c, q) /\ now' = now
  BY Before DEF ApplyAuth, Move
<1>0. (IF r.tok THEN Never ELSE auth) \in Nat \cup {Never} /\ 0 \in 0..MaxRetries
  BY Before
<1> PICK hdr \in Nat \cup {Never} : hdr = IF r.tok THEN Never ELSE auth
  BY <1>0
<1>8. q = [r EXCEPT !.pc = "limit", !.attempt = 0, !.hdr = hdr]
  OBVIOUS
<1>3. q \in CallType
  BY <1>0, <1>8 DEF CallType, Pcs
<1>7. Proper(q, now)
  BY <1>1, Before DEF CallType, Never, Proper, InFlight
<1>4. Waits(q) => q.since = now
  BY <1>1, Before DEF CallType, Waits
<1>5. Turnover(c, q)
  BY <1>1, Before DEF ApplyAuth, CallType, Turnover, Leaves, Held, InFlight, Waits, Proper
<1>6. QED
  BY <1>2, <1>3, <1>4, <1>5, <1>7 DEF Moves

\* The request is sent.
LEMMA SendMoves ==
    ASSUME Basics, NEW c \in Callers, Send(c)
    PROVE  \E q \in CallType : Moves(c, q)
<1> PICK r \in CallType : r = call[c]
  BY Before
<1>1. r.pc = "limit" /\ mu' = mu
  BY Before DEF Send, At, Waiting, MutexTurn
<1> PICK q : q = [r EXCEPT !.pc = "flight", !.since = now, !.resp = "none"]
  OBVIOUS
<1>2. Move(c, q) /\ now' = now
  BY Before DEF Send, Move
<1>3. q \in CallType
  BY <1>1, Before DEF CallType, Pcs, Answers, Never
<1>7. Proper(q, now)
  BY <1>1, Before DEF CallType, Never, Proper, InFlight
<1>4. Waits(q) => q.since = now
  BY <1>1, Before DEF CallType, Waits
<1>5. Turnover(c, q)
  BY <1>1, Before DEF Send, CallType, Turnover, Leaves, Held, InFlight, Waits, Proper
<1>6. QED
  BY <1>2, <1>3, <1>4, <1>5, <1>7 DEF Moves

\* The connection breaks.
LEMMA BreakMoves ==
    ASSUME Basics, NEW c \in Callers, Break(c)
    PROVE  \E q \in CallType : Moves(c, q)
<1> PICK r \in CallType : r = call[c]
  BY Before
<1>1. r.pc = "flight" /\ mu' = mu
  BY Before DEF Break, At, Waiting, MutexTurn
<1> PICK q : q = [r EXCEPT !.pc = "answer", !.resp = "failed"]
  OBVIOUS
<1>2. Move(c, q) /\ now' = now
  BY Before DEF Break, Move
<1>3. q \in CallType
  BY <1>1, Before DEF CallType, Pcs, Answers, Never
<1>7. Proper(q, now)
  BY <1>1, Before DEF CallType, Never, Proper, InFlight
<1>4. Waits(q) => q.since = now
  BY <1>1, Before DEF CallType, Waits
<1>5. Turnover(c, q)
  BY <1>1, Before DEF Break, CallType, Turnover, Leaves, Held, InFlight, Waits, Proper
<1>6. QED
  BY <1>2, <1>3, <1>4, <1>5, <1>7 DEF Moves

\* A try is used up.
LEMMA RetryMoves ==
    ASSUME Basics, NEW c \in Callers, Retry(c), call[c].attempt < MaxRetries
    PROVE  \E q \in CallType : Moves(c, q)
<1> PICK r \in CallType : r = call[c]
  BY Before
<1>1. r.pc = "answer" /\ mu' = mu
  BY Before DEF Retry, At, Waiting, MutexTurn
<1> PICK q : q = [r EXCEPT !.pc = "limit", !.attempt = @ + 1, !.resp = "none"]
  OBVIOUS
<1>2. Move(c, q) /\ now' = now
  BY Before DEF Retry, Move
<1>0. r.attempt + 1 \in 0..MaxRetries
  BY Before DEF CallType
<1>3. q \in CallType
  BY <1>0 DEF CallType, Pcs, Answers
<1>7. Proper(q, now)
  BY <1>1, Before DEF CallType, Never, Proper, InFlight
<1>4. Waits(q) => q.since = now
  BY <1>1, Before DEF CallType, Waits
<1>5. Turnover(c, q)
  BY <1>1, Before DEF Retry, CallType, Turnover, Leaves, Held, InFlight, Waits, Proper
<1>6. QED
  BY <1>2, <1>3, <1>4, <1>5, <1>7 DEF Moves

\* The token arrives and the mutex is given back.
LEMMA TokenArrivesMoves ==
    ASSUME Basics, NEW c \in Callers, TokenArrives(c)
    PROVE  \E q \in CallType : Moves(c, q)
<1> PICK r \in CallType : r = call[c]
  BY Before
<1>1. r.pc = "answer" /\ r.tok /\ mu = c /\ mu' = None
  BY Before DEF TokenArrives, At, Waiting, MutexTurn
<1> PICK q : q = [r EXCEPT !.pc = "auth", !.tok = FALSE, !.got = Never]
  OBVIOUS
<1>2. Move(c, q) /\ now' = now
  BY Before DEF TokenArrives, Move
<1>3. q \in CallType
  BY <1>1, Before DEF CallType, Pcs, Answers, Never
<1>7. Proper(q, now)
  BY <1>1, Before DEF CallType, Never, Proper, InFlight
<1>4. Waits(q) => q.since = now
  BY <1>1, Before DEF CallType, Waits
<1>5. Turnover(c, q)
  BY <1>1, Before DEF TokenArrives, CallType, Turnover, Releases, Held, InFlight, Waits, Proper
<1>6. QED
  BY <1>2, <1>3, <1>4, <1>5, <1>7 DEF Moves

\* The devices arrive.
LEMMA AnswerArrivesMoves ==
    ASSUME Basics, NEW c \in Callers, AnswerArrives(c), call[c].op = "devices"
    PROVE  \E q \in CallType : Moves(c, q)
<1> PICK r \in CallType : r = call[c]
  BY Before
<1>1. r.pc = "answer" /\ r.resp = "ok" /\ ~r.tok /\ r.op = "devices" /\ mu' = mu
  BY Before DEF AnswerArrives, Goto, At, Waiting, MutexTurn
<1> PICK q : q = [r EXCEPT !.pc = "store", !.since = now]
  OBVIOUS
<1>2. Move(c, q) /\ now' = now
  BY Before DEF AnswerArrives, Goto, Move
<1>3. q \in CallType
  BY <1>1, Before DEF CallType, Pcs, Answers, Never
<1>7. Proper(q, now)
  BY <1>1, Before DEF CallType, Never, Proper, InFlight
<1>4. Waits(q) => q.since = now
  BY <1>1, Before DEF CallType, Waits
<1>5. Turnover(c, q)
  BY <1>1, Before DEF AnswerArrives, Goto, CallType, Turnover, Leaves, Held, InFlight, Waits, Proper
<1>6. QED
  BY <1>2, <1>3, <1>4, <1>5, <1>7 DEF Moves

\* What an answer gives a call is one.
LEMMA AnsweredTyped ==
    ASSUME NEW r \in CallType, NEW resp \in Answers, NEW got \in Nat \cup {Never}
    PROVE  [r EXCEPT !.pc = "answer", !.resp = resp, !.got = got] \in CallType
BY DEF CallType, Pcs

\* The answer is looked at.
LEMMA HandleMoves ==
    ASSUME Basics, NEW c \in Callers, Handle(c)
    PROVE  \E q \in CallType : Moves(c, q)
<1> PICK r \in CallType : r = call[c]
  BY Before
<1>1. r.pc = "flight" /\ mu' = mu /\ now' = now
  BY Before DEF Handle, At
<1>2. ASSUME NEW q \in CallType, Move(c, q), Proper(q, now), q.pc = "answer",
             q.tok = r.tok, q.since = r.since, q.attempt = r.attempt
      PROVE  Moves(c, q)
  <2>1. Held(q, now) >= Held(r, now)
    BY <1>1, <1>2, Before DEF CallType, Held, InFlight, Proper
  <2>2. QED
    BY <1>1, <1>2, <2>1, Before DEF Moves, Turnover, Leaves, Waits
<1>3. CASE r.tok
  <2> PICK resp \in {"ok", "refused"} :
         call' = [call EXCEPT ![c].pc = "answer", ![c].resp = resp,
                           ![c].got = IF resp = "ok" THEN now + ExpiresIn ELSE Never]
    BY <1>3 DEF Handle
  <2> PICK got \in Nat \cup {Never} : got = IF resp = "ok" THEN now + ExpiresIn ELSE Never
    BY Before
  <2> PICK q : q = [r EXCEPT !.pc = "answer", !.resp = resp, !.got = got]
    OBVIOUS
  <2>1. Move(c, q)
    BY Before DEF Move
  <2>2. q \in CallType
    BY DEF CallType, Pcs, Answers
  <2>3. Proper(q, now)
    BY <1>1, <1>3, Before DEF CallType, Proper, InFlight, Answers
  <2>4. q.pc = "answer" /\ q.tok = r.tok /\ q.since = r.since /\ q.attempt = r.attempt
    BY DEF CallType
  <2>5. QED
    BY <1>2, <2>1, <2>2, <2>3, <2>4
<1>4. CASE ~r.tok /\ now < r.hdr
  <2> PICK resp \in {"ok", "refused", "done"} :
         call' = [call EXCEPT ![c].pc = "answer", ![c].resp = resp,
                           ![c].got = IF resp = "ok" /\ call[c].op = "devices" THEN now ELSE Never]
    <3>1. r.hdr \in Nat \cup {Never} /\ now \in Nat
      BY Before DEF CallType
    <3>2. ~(now >= r.hdr)
      BY <1>4, <3>1 DEF Never
    <3>3. QED
      BY <1>4, <3>2, Zenon DEF Handle, Replies
  <2> PICK got \in Nat \cup {Never} : got = IF resp = "ok" /\ r.op = "devices" THEN now ELSE Never
    BY Before
  <2> PICK q : q = [r EXCEPT !.pc = "answer", !.resp = resp, !.got = got]
    OBVIOUS
  <2>1. Move(c, q)
    BY Before DEF Move
  <2>2. q \in CallType
    BY AnsweredTyped DEF Answers
  <2>3. Proper(q, now)
    BY <1>1, <1>4, Before DEF CallType, Proper, InFlight, Answers
  <2>4. q.pc = "answer" /\ q.tok = r.tok /\ q.since = r.since /\ q.attempt = r.attempt
    BY DEF CallType
  <2>5. QED
    BY <1>2, <2>1, <2>2, <2>3, <2>4
<1>5. CASE ~r.tok /\ ~(now < r.hdr)
  <2> PICK q : q = [r EXCEPT !.pc = "answer", !.resp = "refused"]
    OBVIOUS
  <2>1. Move(c, q)
    BY <1>5, Before DEF Move, Handle
  <2>2. q \in CallType
    BY DEF CallType, Pcs, Answers
  <2>3. Proper(q, now)
    BY <1>1, <1>5, Before DEF CallType, Proper, InFlight
  <2>4. q.pc = "answer" /\ q.tok = r.tok /\ q.since = r.since /\ q.attempt = r.attempt
    BY DEF CallType
  <2>5. QED
    BY <1>2, <2>1, <2>2, <2>3, <2>4
<1>6. QED
  BY <1>3, <1>4, <1>5

-----------------------------------------------------------------------------
(* The invariant.                                                           *)

\* The values outside the calls, and that the token is kept, for the steps
\* that leave them alone.
LEMMA OutsideKept ==
    Basics /\ UNCHANGED <<token, tokenExp, auth, cache>>
      => /\ {token', tokenExp', auth'} \subseteq Nat \cup {Never}
         /\ cache' \in [read : Nat \cup {Never}, at : Nat \cup {Never}]
         /\ TokenKept'
BY DEF Basics, TypeOK, TokenKept

\* The list that is stored is as old as its own attempt and the wait for the
\* mutex, which nobody holds now.
LEMMA StoreLag ==
    ASSUME ClientInv, NEW c \in Callers, CacheStore(c)
    PROVE  now - call[c].got <= Lag /\ call[c].got \in Nat
<1> PICK r \in CallType : r = call[c]
  BY Before DEF ClientInv, Basics
<1>1. r.pc = "store" /\ mu = None /\ Waiting(c)
  BY DEF CacheStore, At, MutexTurn, Waiting
<1>2. Basics
  BY DEF ClientInv, Basics
<1>3. r.got \in Nat /\ r.since - r.got <= Timeout
  BY <1>1, <1>2, Before DEF Proper, CallType, Never
<1>5. Request \in Nat /\ Turns(c) \in Nat /\ IsFiniteSet(Ahead(c))
  BY <1>2, Measures DEF MeasuresOK
<1>10. Request * Turns(c) \in Int
  BY <1>5, Products
<1>4. now - r.since <= Request * Turns(c)
  <2>1. now - call[c].since <= Request * Turns(c) + HeldFor /\ HeldFor = 0
    BY <1>1 DEF ClientInv, Patience, HeldFor
  <2>2. QED
    BY <1>10, <2>1
<1>6. Cardinality(Callers) \in Nat /\ Turns(c) <= Cardinality(Callers) - 1
  <2>1. Cardinality(Callers) \in Nat /\ Cardinality(Ahead(c)) \in Nat
    BY <1>5, CallersAssumption, FS_CardinalityType
  <2>2. QED
    BY <2>1 DEF Turns
<1>7. Request * Turns(c) <= Request * (Cardinality(Callers) - 1)
  BY <1>5, <1>6, Products
<1>8. PICK w \in Int : w = Request * (Cardinality(Callers) - 1)
  BY <1>5, <1>6, Products
<1>9. Lag = Timeout + w
  <2>1. (Cardinality(Callers) - 1) * (MaxRetries + 1) * Timeout
          = ((MaxRetries + 1) * Timeout) * (Cardinality(Callers) - 1)
    BY <1>6, ClientAssumption
  <2>2. QED
    BY <1>8, <2>1 DEF Lag, Request
<1>11. QED
  BY <1>2, <1>3, <1>4, <1>7, <1>8, <1>9, <1>10, Before DEF CallType

\* Every step of a call, of the controller or of the network moves one call,
\* and changes the token and the cache only on arrival.
LEMMA EveryStepMoves ==
    ASSUME Basics, NEW c \in Callers,
           Begin(c) \/ Client(c) \/ Handle(c) \/ Break(c) \/ Cancel(c)
    PROVE  \E q \in CallType : Moves(c, q)
<1>1. ASSUME Return(c), now' = now, mu' = IF mu = c THEN None ELSE mu
      PROVE  \E q \in CallType : Moves(c, q)
  BY <1>1, ReturnMoves
<1>2. CASE Begin(c)
  BY <1>2, BeginMoves
<1>3. CASE CacheLook(c)
  <2>1. CASE CacheFresh
    BY <1>3, <2>1, <1>1, Before DEF CacheLook, MutexTurn
  <2>2. QED
    BY <1>3, <2>1, CacheLookMoves
<1>4. CASE CacheStore(c)
  BY <1>4, <1>1, Before DEF CacheStore, MutexTurn
<1>5. CASE EnsureToken(c)
  BY <1>5, EnsureValidMoves, EnsureTakesMoves
<1>6. CASE ApplyAuth(c)
  BY <1>6, ApplyAuthMoves
<1>7. CASE Send(c)
  BY <1>7, SendMoves
<1>8. CASE Retry(c)
  <2>1. CASE call[c].attempt < MaxRetries
    BY <1>8, <2>1, RetryMoves
  <2>2. QED
    BY <1>8, <2>1, <1>1 DEF Retry, GiveUp
<1>9. CASE Refused(c) \/ TimeOut(c) \/ Cancel(c)
  BY <1>9, <1>1 DEF Refused, TimeOut, Cancel, GiveUp
<1>10. CASE TokenArrives(c)
  BY <1>10, TokenArrivesMoves
<1>11. CASE AnswerArrives(c)
  <2>1. CASE call[c].op = "devices"
    BY <1>11, <2>1, AnswerArrivesMoves
  <2>2. CASE call[c].op # "devices"
    <3>1. mu # c
      BY <1>11, Before DEF AnswerArrives
    <3>2. QED
      BY <1>11, <2>2, <3>1, <1>1 DEF AnswerArrives
  <2>3. QED
    BY <2>1, <2>2
<1>12. CASE Handle(c)
  BY <1>12, HandleMoves
<1>13. CASE Break(c)
  BY <1>13, BreakMoves
<1>14. QED
  BY <1>2, <1>3, <1>4, <1>5, <1>6, <1>7, <1>8, <1>9, <1>10, <1>11, <1>12, <1>13 DEF Client

\* What a step of a call does to the token and to the cache.
LEMMA OutsideStep ==
    ASSUME ClientInv, NEW c \in Callers,
           Begin(c) \/ Client(c) \/ Handle(c) \/ Break(c) \/ Cancel(c)
    PROVE  /\ {token', tokenExp', auth'} \subseteq Nat \cup {Never}
           /\ cache' \in [read : Nat \cup {Never}, at : Nat \cup {Never}]
           /\ TokenKept' /\ CacheLag'
<1>1. Basics
  BY DEF ClientInv, Basics
<1>2. CASE TokenArrives(c)
  <2> PICK r \in CallType : r = call[c]
    BY <1>1, Before
  <2>1. /\ token' = r.got /\ auth' = r.got /\ tokenExp' = now + ExpiresIn /\ cache' = cache
        /\ r.pc = "answer" /\ r.resp = "ok" /\ r.tok
    BY <1>2 DEF TokenArrives, At
  <2>2. r.got \in Nat \cup {Never} /\ r.since \in Nat
    BY DEF CallType
  <2>3. r.got >= r.since + ExpiresIn /\ now <= r.since + Timeout
    BY <1>1, <2>1, Before DEF Proper, InFlight
  <2>4. {token', tokenExp', auth'} \subseteq Nat \cup {Never}
    BY <1>1, <2>1, <2>2, Before
  <2>5. TokenKept'
    BY <1>1, <2>1, <2>2, <2>3, Before, ClientAssumption, MarginAssumption DEF TokenKept, Never
  <2>6. QED
    BY <2>1, <2>4, <2>5 DEF ClientInv, TypeOK, CacheLag, Lag
<1>3. CASE CacheStore(c)
  <2>1. now - call[c].got <= Lag /\ call[c].got \in Nat
    BY <1>3, StoreLag
  <2>2. cache' = [read |-> call[c].got, at |-> now] /\ UNCHANGED <<token, tokenExp, auth>>
    BY <1>3 DEF CacheStore
  <2>3. CacheLag'
    BY <2>1, <2>2 DEF CacheLag, Lag
  <2>4. cache' \in [read : Nat \cup {Never}, at : Nat \cup {Never}]
    BY <1>1, <2>1, <2>2, Before
  <2>5. QED
    BY <2>2, <2>3, <2>4 DEF ClientInv, TypeOK, TokenKept
<1>4. CASE UNCHANGED <<token, tokenExp, auth, cache>>
  BY <1>1, <1>4, OutsideKept DEF ClientInv, CacheLag, Lag
<1>5. CASE ~TokenArrives(c) /\ ~CacheStore(c)
  <2>1. UNCHANGED <<token, tokenExp, auth, cache>>
    BY <1>5 DEF Begin, Client, Handle, Break, Cancel, CacheLook, EnsureToken, ApplyAuth, Send,
                Retry, Refused, AnswerArrives, TimeOut, GiveUp
  <2>2. QED
    BY <1>4, <2>1
<1>6. QED
  BY <1>2, <1>3, <1>5

\* The clock: nobody who is not waiting or being answered holds it up, and
\* what passes for a waiter passes for the holder's request.
LEMMA TickKeeps == ClientInv /\ Tick => ClientInv'
<1> SUFFICES ASSUME ClientInv, Tick PROVE ClientInv'
  OBVIOUS
<1>1. Basics /\ now \in Nat /\ now' = now + 1
  BY DEF ClientInv, Basics, Tick, TypeOK
<1>2. UNCHANGED <<mu, token, tokenExp, auth, cache, call>>
  BY DEF Tick
<1>3. \A c \in Callers : Proper(call'[c], now')
  <2> TAKE c \in Callers
  <2> PICK r \in CallType : r = call[c]
    BY <1>1, Before
  <2>1. /\ r.pc = "idle" \/ (InFlight(r) /\ now - r.since < Timeout) \/ Waits(r)
        /\ call'[c] = r
    BY <1>2 DEF Tick, InFlight, Waits, Waiting, At
  <2>2. Proper(r, now + 1)
    BY <1>1, <2>1, Before DEF Proper, InFlight, Waits, CallType
  <2>3. QED
    BY <1>1, <2>1, <2>2
<1>4. TypeOK' /\ MutexHeld' /\ TokenKept' /\ CacheLag'
  BY <1>1, <1>2 DEF ClientInv, TypeOK, MutexHeld, TokenKept, CacheLag, Lag
<1>5. Patience'
  <2> SUFFICES ASSUME NEW c \in Callers, Waiting(c)
               PROVE  now' - call[c].since <= Request * Turns(c)' + HeldFor'
    BY <1>2 DEF Patience, Waiting
  <2>1. Turns(c)' = Turns(c)
    BY <1>2 DEF Turns, Ahead, Waiting
  <2>2. mu # None /\ mu \in Callers
    BY DEF Tick, Waiting, At, ClientInv, TypeOK
  <2> PICK r \in CallType : r = call[mu]
    BY <1>1, <2>2, Before
  <2>3. InFlight(r)
    BY <1>1, <2>2, Before DEF Tick, InFlight, Waiting, At, Proper
  <2> PICK spent \in Int : spent = r.attempt * Timeout
    BY <1>1, ClientAssumption DEF CallType
  <2>4. HeldFor = spent + (now - r.since) /\ HeldFor' = spent + (now' - r.since)
    BY <1>2, <2>2, <2>3 DEF HeldFor, Held
  <2>5. HeldFor' = HeldFor + 1
    BY <1>1, <2>4 DEF CallType
  <2>6. Request * Turns(c) \in Int /\ HeldFor \in Nat
    BY <1>1, Measures, Products DEF MeasuresOK
  <2>7. now - call[c].since <= Request * Turns(c) + HeldFor
    BY DEF ClientInv, Patience
  <2>8. call[c].since \in Nat
    BY <1>1, Before DEF CallType
  <2>9. QED
    BY <1>1, <2>1, <2>5, <2>6, <2>7, <2>8
<1>6. QED
  BY <1>3, <1>4, <1>5 DEF ClientInv

\* At the start nobody waits and nothing is cached.
LEMMA ClientInit == Init => ClientInv
<1> SUFFICES ASSUME Init PROVE ClientInv
  OBVIOUS
<1>1. Basics
  BY BasicsInit
<1>2. Patience
  BY DEF Init, Patience, Waiting, Idle
<1>3. CacheLag
  BY DEF Init, CacheLag
<1>4. QED
  BY <1>1, <1>2, <1>3 DEF ClientInv, Basics

\* Every step keeps the invariant of the client.
LEMMA ClientStep == ClientInv /\ [Next]_vars => ClientInv'
<1> SUFFICES ASSUME ClientInv, [Next]_vars PROVE ClientInv'
  OBVIOUS
<1>0. Basics
  BY DEF ClientInv, Basics
<1>1. ASSUME NEW c \in Callers,
             Begin(c) \/ Client(c) \/ Handle(c) \/ Break(c) \/ Cancel(c)
      PROVE  ClientInv'
  <2> PICK q \in CallType : Moves(c, q)
    BY <1>0, <1>1, EveryStepMoves
  <2>1. /\ {token', tokenExp', auth'} \subseteq Nat \cup {Never}
        /\ cache' \in [read : Nat \cup {Never}, at : Nat \cup {Never}]
        /\ TokenKept' /\ CacheLag'
    BY <1>1, OutsideStep
  <2>2. Basics' /\ call'[c] = q /\ \A d \in Callers \ {c} : call'[d] = call[d]
    BY <1>0, <2>1, BasicsMoved
  <2>3. Patience
    BY DEF ClientInv
  <2>4. Patience'
    BY <1>0, <2>2, <2>3, PatienceMoved
  <2>5. QED
    BY <2>1, <2>2, <2>4 DEF ClientInv, Basics
<1>2. CASE Tick
  BY <1>2, TickKeeps
<1>3. CASE UNCHANGED vars
  BY <1>3 DEF vars, ClientInv, TypeOK, MutexHeld, TokenKept, CacheLag, Lag, Patience, Waiting,
              Turns, Ahead, HeldFor, Held, InFlight, Proper
<1>4. QED
  BY <1>1, <1>2, <1>3 DEF Next

\* The invariant of the client holds of every run.
LEMMA ClientSafe == Spec => []ClientInv
<1>1. Init => ClientInv
  BY ClientInit
<1>2. ClientInv /\ [Next]_vars => ClientInv'
  BY ClientStep
<1>3. QED
  BY <1>1, <1>2, PTL DEF Spec

\* Whenever ensureToken would keep the token, the controller accepts it and it
\* is the one that Do puts into the header: the margin is worth the time that
\* the token's own answer took, whatever was retried and whoever asked.
THEOREM TokensAreLive == Spec => []TokenLive
<1>1. ClientInv => TokenLive
  BY ClientAssumption
     DEF ClientInv, TypeOK, TokenKept, TokenLive, TokenValid, Never
<1>2. QED
  BY <1>1, ClientSafe, PTL

\* What getDevices serves from its cache is younger than the cache's TTL and
\* one token request per other goroutine, however the misses overlap.
THEOREM CachedDevicesAreRecent == Spec => []CacheAge
<1>1. ClientInv => CacheAge
  <2> SUFFICES ASSUME ClientInv, CacheFresh PROVE now - cache.read < CacheTTL + Lag
    BY DEF CacheAge
  <2>1. Lag \in Int
    BY ClientAssumption, CallersAssumption, FS_CardinalityType DEF Lag
  <2>2. now - cache.at < CacheTTL /\ cache.at - cache.read <= Lag
    BY DEF ClientInv, CacheFresh, CacheLag
  <2>3. now \in Nat /\ cache.at \in Int /\ cache.read \in Int /\ CacheTTL \in Nat
    BY ClientAssumption DEF ClientInv, TypeOK, Never
  <2>4. QED
    BY <2>1, <2>2, <2>3
<1>2. QED
  BY <1>1, ClientSafe, PTL
=============================================================================
