---------------------------- MODULE TokenManager ----------------------------
(***************************************************************************)
(* The OAuth2 token cache of one client (internal/amadeus/auth.go): a      *)
(* mutex, the cached token and the time the manager believes it expires.   *)
(* Goroutines call token() to obtain a bearer token and invalidate() when  *)
(* Amadeus rejects the one they hold.  The mutex is held across the HTTP   *)
(* exchange with the authorization server, so an exchange is three steps:  *)
(* the request goes out, the server grants, the reply is stored.           *)
(*                                                                         *)
(* Tokens are numbered in the order the server grants them; 0 is Go's      *)
(* empty string, no token.  Time is an integer clock whose unit is chosen  *)
(* by the configuration.                                                   *)
(***************************************************************************)
EXTENDS Naturals

CONSTANTS
    Callers,        \* the goroutines that share the client
    NoCaller,       \* the value of mu when nobody holds it
    RefreshWindow,  \* refreshWindow: a cached token is renewed this early
    HTTPTimeout,    \* http.Client.Timeout: the longest one exchange may take
    Lifetime,       \* expires_in of every grant
    MaxTokens,      \* bound: how many tokens the server ever grants
    MaxTime         \* bound: the clock stops here

ASSUME CallersAssumption == NoCaller \notin Callers

ASSUME ClockAssumption ==
    /\ RefreshWindow \in Nat
    /\ HTTPTimeout \in Nat
    /\ Lifetime \in Nat

ASSUME BoundsAssumption == MaxTokens \in Nat /\ MaxTime \in Nat

VARIABLES
    mu,          \* the goroutine holding tokenManager.mu, or NoCaller
    cached,      \* tokenManager.cached
    expiresAt,   \* tokenManager.expiresAt
    stage,       \* where each goroutine stands with the token manager
    bearer,      \* the token a goroutine last got in this call, 0 for none
    granted,     \* the token in the reply travelling to a goroutine
    deadline,    \* when the HTTP client gives up on a goroutine's exchange (0: none)
    now,         \* the clock
    issued,      \* the server: how many tokens it has granted
    honoured,    \* the server: the tokens it has not revoked
    goodUntil,   \* the server: when it stops accepting each token
    delivered    \* history: the tokens that ever reached the cache

managerVars == <<mu, cached, expiresAt>>
serverVars  == <<issued, honoured, goodUntil>>
tokenVars   == <<mu, cached, expiresAt, stage, bearer, granted, deadline, now,
                 issued, honoured, goodUntil, delivered>>

Tokens == 1..MaxTokens

Stages == { "out",         \* outside the token manager, holding no token
            "waiting",     \* in token(), at m.mu.Lock()
            "exchanging",  \* in authenticate(): the request is on the wire
            "granted",     \* in authenticate(): the grant is on its way back
            "holding",     \* token() has returned bearer
            "dropping" }   \* in invalidate(), at m.mu.Lock()

InExchange(c) == stage[c] \in {"exchanging", "granted"}

TokenTypeOK ==
    /\ mu \in Callers \cup {NoCaller}
    /\ cached \in 0..MaxTokens
    /\ expiresAt \in Nat
    /\ stage \in [Callers -> Stages]
    /\ bearer \in [Callers -> 0..MaxTokens]
    /\ granted \in [Callers -> 0..MaxTokens]
    /\ deadline \in [Callers -> Nat]
    /\ now \in Nat
    /\ issued \in 0..MaxTokens
    /\ honoured \subseteq Tokens
    /\ goodUntil \in [Tokens -> Nat]
    /\ delivered \subseteq Tokens

TokenInit ==
    /\ mu = NoCaller
    /\ cached = 0
    /\ expiresAt = 0
    /\ stage = [c \in Callers |-> "out"]
    /\ bearer = [c \in Callers |-> 0]
    /\ granted = [c \in Callers |-> 0]
    /\ deadline = [c \in Callers |-> 0]
    /\ now = 0
    /\ issued = 0
    /\ honoured = {}
    /\ goodUntil = [t \in Tokens |-> 0]
    /\ delivered = {}

-----------------------------------------------------------------------------
(* The manager's steps, each taken by one goroutine c. *)

\* A call to token(): c queues for the mutex.
Ask(c) ==
    /\ stage[c] = "out"
    /\ stage' = [stage EXCEPT ![c] = "waiting"]
    /\ bearer' = [bearer EXCEPT ![c] = 0]
    /\ UNCHANGED <<managerVars, serverVars, granted, deadline, now, delivered>>

CacheIsFresh_NoWindow == cached # 0 /\ now < expiresAt

\* m.cached != "" && time.Now().Before(m.expiresAt.Add(-refreshWindow))
CacheIsFresh == cached # 0 /\ now + RefreshWindow < expiresAt

\* token() finds a fresh cached token: lock, read, unlock.
UseCached(c) ==
    /\ stage[c] = "waiting"
    /\ mu = NoCaller
    /\ CacheIsFresh
    /\ stage' = [stage EXCEPT ![c] = "holding"]
    /\ bearer' = [bearer EXCEPT ![c] = cached]
    /\ UNCHANGED <<managerVars, serverVars, granted, deadline, now, delivered>>

BeginExchange_Unlocked(c) ==
    /\ stage[c] = "waiting"
    /\ ~CacheIsFresh
    /\ mu' = c
    /\ stage' = [stage EXCEPT ![c] = "exchanging"]
    /\ deadline' = [deadline EXCEPT ![c] = now + HTTPTimeout]
    /\ UNCHANGED <<cached, expiresAt, serverVars, bearer, granted, now, delivered>>

\* token() finds no fresh token and sends the client-credentials request,
\* keeping the mutex until authenticate() returns.
BeginExchange(c) ==
    /\ stage[c] = "waiting"
    /\ mu = NoCaller
    /\ ~CacheIsFresh
    /\ mu' = c
    /\ stage' = [stage EXCEPT ![c] = "exchanging"]
    /\ deadline' = [deadline EXCEPT ![c] = now + HTTPTimeout]
    /\ UNCHANGED <<cached, expiresAt, serverVars, bearer, granted, now, delivered>>

\* External: the authorization server grants a token that it will accept for
\* Lifetime, and answers with its expires_in.
Grant(c) ==
    /\ stage[c] = "exchanging"
    /\ issued < MaxTokens
    /\ issued' = issued + 1
    /\ honoured' = honoured \cup {issued + 1}
    /\ goodUntil' = [goodUntil EXCEPT ![issued + 1] = now + Lifetime]
    /\ granted' = [granted EXCEPT ![c] = issued + 1]
    /\ stage' = [stage EXCEPT ![c] = "granted"]
    /\ UNCHANGED <<managerVars, bearer, deadline, now, delivered>>

StoreGrant_NoExpiry(c) ==
    /\ stage[c] = "granted"
    /\ cached' = granted[c]
    /\ mu' = NoCaller
    /\ stage' = [stage EXCEPT ![c] = "holding"]
    /\ bearer' = [bearer EXCEPT ![c] = granted[c]]
    /\ granted' = [granted EXCEPT ![c] = 0]
    /\ delivered' = delivered \cup {granted[c]}
    /\ deadline' = [deadline EXCEPT ![c] = 0]
    /\ UNCHANGED <<expiresAt, serverVars, now>>

\* The grant arrives: token() records it, releases the mutex and returns it.
StoreGrant(c) ==
    /\ stage[c] = "granted"
    /\ cached' = granted[c]
    /\ expiresAt' = now + Lifetime
    /\ mu' = NoCaller
    /\ stage' = [stage EXCEPT ![c] = "holding"]
    /\ bearer' = [bearer EXCEPT ![c] = granted[c]]
    /\ granted' = [granted EXCEPT ![c] = 0]
    /\ delivered' = delivered \cup {granted[c]}
    /\ deadline' = [deadline EXCEPT ![c] = 0]
    /\ UNCHANGED <<serverVars, now>>

ExchangeFails_LeaksMutex(c) ==
    /\ InExchange(c)
    /\ stage' = [stage EXCEPT ![c] = "out"]
    /\ granted' = [granted EXCEPT ![c] = 0]
    /\ bearer' = [bearer EXCEPT ![c] = 0]
    /\ deadline' = [deadline EXCEPT ![c] = 0]
    /\ UNCHANGED <<mu, cached, expiresAt, serverVars, now, delivered>>

\* authenticate() fails: the request or its reply is lost, the context or the
\* timeout ends it, the status is not 200, or the body is not a grant.  The
\* deferred unlock runs and the cache keeps what it had.
ExchangeFails(c) ==
    /\ InExchange(c)
    /\ mu' = NoCaller
    /\ stage' = [stage EXCEPT ![c] = "out"]
    /\ granted' = [granted EXCEPT ![c] = 0]
    /\ bearer' = [bearer EXCEPT ![c] = 0]
    /\ deadline' = [deadline EXCEPT ![c] = 0]
    /\ UNCHANGED <<cached, expiresAt, serverVars, now, delivered>>

\* The call that held the token is over.
Release(c) ==
    /\ stage[c] = "holding"
    /\ stage' = [stage EXCEPT ![c] = "out"]
    /\ bearer' = [bearer EXCEPT ![c] = 0]
    /\ UNCHANGED <<managerVars, serverVars, granted, deadline, now, delivered>>

\* Amadeus answered 401 to the held token: c calls invalidate().
Reject(c) ==
    /\ stage[c] = "holding"
    /\ stage' = [stage EXCEPT ![c] = "dropping"]
    /\ UNCHANGED <<managerVars, serverVars, bearer, granted, deadline, now, delivered>>

Invalidate_KeepsToken(c) ==
    /\ stage[c] = "dropping"
    /\ mu = NoCaller
    /\ expiresAt' = expiresAt
    /\ stage' = [stage EXCEPT ![c] = "waiting"]
    /\ UNCHANGED <<mu, cached, serverVars, bearer, granted, deadline, now, delivered>>

\* invalidate() clears the cache, whatever token it holds by now, and c asks
\* again.  bearer keeps the rejected token until the next one replaces it.
Invalidate(c) ==
    /\ stage[c] = "dropping"
    /\ mu = NoCaller
    /\ cached' = 0
    /\ expiresAt' = 0
    /\ stage' = [stage EXCEPT ![c] = "waiting"]
    /\ UNCHANGED <<mu, serverVars, bearer, granted, deadline, now, delivered>>

-----------------------------------------------------------------------------
(* The server and the clock. *)

\* External: a token is revoked before it expires.
Revoke(t) ==
    /\ t \in honoured
    /\ honoured' = honoured \ {t}
    /\ UNCHANGED <<managerVars, stage, bearer, granted, deadline, now, issued,
                   goodUntil, delivered>>

\* External: the server accepts a token it has not revoked until it expires.
Accepts(t) == t \in honoured /\ now < goodUntil[t]

\* The HTTP client ends an exchange at its deadline, so the clock cannot pass
\* the deadline of an exchange that is still going on.
Tick ==
    /\ now < MaxTime
    /\ \A c \in Callers : InExchange(c) => now < deadline[c]
    /\ now' = now + 1
    /\ UNCHANGED <<managerVars, serverVars, stage, bearer, granted, deadline, delivered>>

CallerStep(c) ==
    \/ Ask(c)
    \/ UseCached(c)
    \/ BeginExchange(c)
    \/ Grant(c)
    \/ StoreGrant(c)
    \/ ExchangeFails(c)
    \/ Release(c)
    \/ Reject(c)
    \/ Invalidate(c)

TokenNext ==
    \/ \E c \in Callers : CallerStep(c)
    \/ \E t \in Tokens : Revoke(t)
    \/ Tick

TokenSpec == TokenInit /\ [][TokenNext]_tokenVars

-----------------------------------------------------------------------------
(* What the manager promises. *)

\* The mutex is held exactly while its holder is inside the exchange: no two
\* exchanges ever overlap, and no path out of authenticate() leaks the mutex.
OneExchangeAtATime ==
    \A c \in Callers : InExchange(c) <=> mu = c

\* A goroutine whose token was rejected never gets that token, nor an older
\* one, back from token(): its retry always carries a newer token, whatever
\* the other goroutines do to the cache between its invalidate() and its turn.
RetryUsesNewerToken ==
    [][\A c \in Callers :
          stage[c] # "holding" /\ stage'[c] = "holding" => bearer'[c] > bearer[c]]_tokenVars

\* The client would still use this token if it had it cached, and the server
\* would accept it.
Usable(t) == t \in honoured /\ now + RefreshWindow < goodUntil[t]

SpareTokens == {t \in delivered : Usable(t) /\ t # cached}

\* auth.go, token(): "a burst of goroutines finding the token expired should
\* produce one token request, not one per goroutine".  A token request made
\* while a usable token had already been obtained leaves the older one spare.
OneTokenPerBurst == \A t \in SpareTokens : \A u \in delivered : u <= t

\* What does hold: the manager discards a usable token only in the aftermath
\* of a rejection, when some older token it had obtained stopped being
\* accepted.  Without rejections a burst costs one token request.
SpareOnlyAfterRejection ==
    \A t \in SpareTokens : \E r \in delivered : r < t /\ ~Accepts(r)
=============================================================================
