----------------------------- MODULE Transport ------------------------------
(***************************************************************************)
(* Client.send and its neighbours (internal/amadeus/client.go), composed   *)
(* with the token manager: every goroutine runs calls that obtain a token, *)
(* send the request, retry once after a 401 and turn the answer into a     *)
(* result.  sdk.New (sdk.go) is the first call of all: unless told to skip *)
(* it, it pings - obtains a token and sends nothing - before the client is *)
(* handed to the other goroutines.                                         *)
(*                                                                         *)
(* The network may lose a request or its reply at any point, a caller may  *)
(* cancel its context at any point, and http.Client.Timeout ends every     *)
(* exchange and every attempt.                                             *)
(***************************************************************************)
EXTENDS TokenManager

CONSTANT MaxCalls    \* bound: how many calls are ever begun, New's included

ASSUME MaxCallsAssumption == MaxCalls \in Nat

VARIABLES
    client,     \* "none", "checking" (New is in Ping) or "ready"
    op,         \* what a goroutine's latest call is: "none", "ping" or "do"
    phase,      \* how far it is
    attempt,    \* 1 or 2: which attempt of send it is on, 0 outside a call
    due,        \* when the HTTP client gives up on the attempt (0: none)
    response,   \* the answer the server gave to the latest attempt
    executed,   \* the server: how many times it executed this call
    cancelled,  \* the context of a pending call has been cancelled
    result,     \* what the call returned
    calls       \* how many calls have begun

callVars == <<client, op, phase, attempt, due, response, executed, cancelled, result, calls>>
vars     == <<tokenVars, callVars>>

Phases    == {"idle", "authorising", "sent", "answered", "returned"}
Executed  == {"success", "undecodable", "errors", "failure"}
Responses == Executed \cup {"none", "unauthorized"}
Results   == {"none", "ok", "authError", "transportError", "apiError", "decodeError"}

Pending(c) == phase[c] \in {"authorising", "sent", "answered"}
OnTheWire(c) == phase[c] \in {"sent", "answered"}

CallTypeOK ==
    /\ client \in {"none", "checking", "ready"}
    /\ op \in [Callers -> {"none", "ping", "do"}]
    /\ phase \in [Callers -> Phases]
    /\ attempt \in [Callers -> 0..2]
    /\ due \in [Callers -> Nat]
    /\ response \in [Callers -> Responses]
    /\ executed \in [Callers -> 0..1]
    /\ cancelled \in [Callers -> BOOLEAN]
    /\ result \in [Callers -> Results]
    /\ calls \in 0..MaxCalls

TypeOK == TokenTypeOK /\ CallTypeOK

Init ==
    /\ TokenInit
    /\ client = "none"
    /\ op = [c \in Callers |-> "none"]
    /\ phase = [c \in Callers |-> "idle"]
    /\ attempt = [c \in Callers |-> 0]
    /\ due = [c \in Callers |-> 0]
    /\ response = [c \in Callers |-> "none"]
    /\ executed = [c \in Callers |-> 0]
    /\ cancelled = [c \in Callers |-> FALSE]
    /\ result = [c \in Callers |-> "none"]
    /\ calls = 0

-----------------------------------------------------------------------------
(* Beginning a call. *)

Begin(c, what) ==
    /\ ~Pending(c)
    /\ calls < MaxCalls
    /\ Ask(c)
    /\ op' = [op EXCEPT ![c] = what]
    /\ phase' = [phase EXCEPT ![c] = "authorising"]
    /\ attempt' = [attempt EXCEPT ![c] = 1]
    /\ executed' = [executed EXCEPT ![c] = 0]
    /\ result' = [result EXCEPT ![c] = "none"]
    /\ calls' = calls + 1
    /\ UNCHANGED <<due, response, cancelled>>

\* New with SkipCredentialCheck: the client is usable and nothing was sent.
NewUnchecked ==
    /\ client = "none"
    /\ client' = "ready"
    /\ UNCHANGED <<tokenVars, op, phase, attempt, due, response, executed,
                   cancelled, result, calls>>

\* New without it: transport.Ping(context.Background()).
NewChecked(c) ==
    /\ client = "none"
    /\ client' = "checking"
    /\ Begin(c, "ping")

\* Client.Ping on a client in use, as a health check.
Ping(c) ==
    /\ client = "ready"
    /\ Begin(c, "ping")
    /\ UNCHANGED client

\* A service method calls Do.
Do(c) ==
    /\ client = "ready"
    /\ Begin(c, "do")
    /\ UNCHANGED client

-----------------------------------------------------------------------------
(* Obtaining a token. *)

\* token() returned: attempt puts the request on the wire.
ObtainToken(c) ==
    /\ UseCached(c) \/ StoreGrant(c)
    /\ IF op[c] = "do"
       THEN /\ phase' = [phase EXCEPT ![c] = "sent"]
            /\ due' = [due EXCEPT ![c] = now + HTTPTimeout]
       ELSE UNCHANGED <<phase, due>>
    /\ UNCHANGED <<client, op, attempt, response, executed, cancelled, result, calls>>

Exchange(c) ==
    /\ BeginExchange(c) \/ Grant(c)
    /\ UNCHANGED callVars

\* The call returns r; its locals are gone.
Return(c, r) ==
    /\ phase' = [phase EXCEPT ![c] = "returned"]
    /\ result' = [result EXCEPT ![c] = r]
    /\ due' = [due EXCEPT ![c] = 0]
    /\ cancelled' = [cancelled EXCEPT ![c] = FALSE]
    /\ attempt' = [attempt EXCEPT ![c] = 0]
    /\ response' = [response EXCEPT ![c] = "none"]
    /\ UNCHANGED <<op, executed, calls>>

\* token() failed, so the call fails; if it was New's ping, there is no client.
AuthFails(c) ==
    /\ ExchangeFails(c)
    /\ Return(c, "authError")
    /\ client' = IF client = "checking" THEN "none" ELSE client

\* Ping obtained a token, which is all it wanted.
PingReturns(c) ==
    /\ op[c] = "ping"
    /\ Release(c)
    /\ Return(c, "ok")
    /\ client' = "ready"

-----------------------------------------------------------------------------
(* One attempt. *)

\* External: the server answers.  It executes a request only if it accepts
\* the token; an execution ends in a usable body, a 2xx body that is not the
\* expected JSON, a body with an errors array, or a failure status.
Answer(c) ==
    /\ phase[c] = "sent"
    /\ phase' = [phase EXCEPT ![c] = "answered"]
    /\ IF Accepts(bearer[c])
       THEN /\ executed' = [executed EXCEPT ![c] = @ + 1]
            /\ \E r \in Executed : response' = [response EXCEPT ![c] = r]
       ELSE /\ response' = [response EXCEPT ![c] = "unauthorized"]
            /\ UNCHANGED executed
    /\ UNCHANGED <<tokenVars, client, op, attempt, due, cancelled, result, calls>>

\* http.Do or ReadAll fails: the network, the timeout or the context.  The
\* request may have been executed all the same.
AttemptFails(c) ==
    /\ OnTheWire(c)
    /\ Release(c)
    /\ Return(c, "transportError")
    /\ UNCHANGED client

Retryable_AnyFailure(c) == response[c] \in {"unauthorized", "failure"} /\ attempt[c] = 1

\* status == http.StatusUnauthorized, on the first attempt.
Retryable(c) == response[c] = "unauthorized" /\ attempt[c] = 1

\* send sees the first 401 and turns to invalidate().
FirstUnauthorized(c) ==
    /\ phase[c] = "answered"
    /\ Retryable(c)
    /\ Reject(c)
    /\ phase' = [phase EXCEPT ![c] = "authorising"]
    /\ due' = [due EXCEPT ![c] = 0]
    /\ UNCHANGED <<client, op, attempt, response, executed, cancelled, result, calls>>

\* invalidate() got the mutex; the second attempt begins.
Retry(c) ==
    /\ Invalidate(c)
    /\ attempt' = [attempt EXCEPT ![c] = @ + 1]
    /\ UNCHANGED <<client, op, phase, due, response, executed, cancelled, result, calls>>

Verdict_StatusOnly(r) ==
    IF r \in {"success", "errors"} THEN "ok"
    ELSE IF r = "undecodable" THEN "decodeError" ELSE "apiError"

\* What send and Do make of an answer they do not retry.
Verdict(r) ==
    IF r = "success" THEN "ok" ELSE IF r = "undecodable" THEN "decodeError" ELSE "apiError"

Settle(c) ==
    /\ phase[c] = "answered"
    /\ ~Retryable(c)
    /\ Release(c)
    /\ Return(c, Verdict(response[c]))
    /\ UNCHANGED client

-----------------------------------------------------------------------------
(* The environment. *)

\* The caller cancels its context.  New's ping has context.Background().
Cancel(c) ==
    /\ Pending(c)
    /\ client = "ready"
    /\ ~cancelled[c]
    /\ cancelled' = [cancelled EXCEPT ![c] = TRUE]
    /\ UNCHANGED <<tokenVars, client, op, phase, attempt, due, response, executed,
                   result, calls>>

RevokeToken == (\E t \in Tokens : Revoke(t)) /\ UNCHANGED callVars

\* net/http ends an attempt at its deadline, and anything it has on the wire
\* for a cancelled context at once.
TimePasses ==
    /\ Tick
    /\ \A c \in Callers :
          /\ OnTheWire(c) => now < due[c]
          /\ cancelled[c] => ~OnTheWire(c) /\ ~InExchange(c)
    /\ UNCHANGED callVars

CallStep(c) ==
    \/ NewChecked(c)
    \/ Ping(c)
    \/ Do(c)
    \/ ObtainToken(c)
    \/ Exchange(c)
    \/ AuthFails(c)
    \/ PingReturns(c)
    \/ Answer(c)
    \/ AttemptFails(c)
    \/ FirstUnauthorized(c)
    \/ Retry(c)
    \/ Settle(c)
    \/ Cancel(c)

Next ==
    \/ NewUnchecked
    \/ \E c \in Callers : CallStep(c)
    \/ RevokeToken
    \/ TimePasses

Spec == Init /\ [][Next]_vars

\* sync.Mutex hands itself to a waiter of a millisecond before any newcomer,
\* so a goroutine that keeps finding it free takes it: strong fairness.
TakesMutex(c) == ObtainToken(c) \/ (BeginExchange(c) /\ UNCHANGED callVars) \/ Retry(c)

\* Everything else a call does depends on nobody but the HTTP client, which
\* ends each exchange and attempt by its timeout if nothing else does.
MovesOn(c) ==
    \/ StoreGrant(c) /\ ObtainToken(c)
    \/ AuthFails(c)
    \/ PingReturns(c)
    \/ AttemptFails(c)
    \/ FirstUnauthorized(c)
    \/ Settle(c)

Fairness == \A c \in Callers : SF_vars(TakesMutex(c)) /\ WF_vars(MovesOn(c))

FairSpec == Spec /\ Fairness

-----------------------------------------------------------------------------
(* What a call promises. *)

\* The contract's view of a goroutine's latest call; a ping is no request.
CallStatus == [c \in Callers |-> IF op[c] # "do" THEN "idle"
                                ELSE IF Pending(c) THEN "pending" ELSE "done"]

CallOutcome == [c \in Callers |-> IF op[c] # "do" \/ result[c] = "none" THEN "none"
                                 ELSE IF result[c] = "ok" THEN "ok" ELSE "error"]

Contract == INSTANCE CallContract WITH status <- CallStatus, outcome <- CallOutcome

\* send's 401 retry never makes the server execute a request twice, and Do
\* never reports success for a request the server did not execute.
ImplementsContract == Contract!Spec

\* A call that reports success got a usable answer: a 2xx body with no errors
\* array, whichever attempt it came on.
SuccessIsUsable ==
    [][\A c \in Callers :
          op[c] = "do" /\ result[c] = "none" /\ result'[c] = "ok" => response[c] = "success"]_vars

\* auth.go, refreshWindow: "so a request already in flight never races the
\* expiry".  It may: the manager counts a token's life from the arrival of the
\* grant, the server from the grant, so a token may leave the cache one timeout
\* nearer to its end than the window says, and its request takes another.  What
\* the window is worth is this: no request on the wire carries a token that ran
\* out two timeouts less the window ago, nor one fresh from its exchange that
\* ran out two timeouts less its lifetime ago.
OverrunIsBounded ==
    \A c \in Callers :
        phase[c] = "sent" =>
            LET latest == goodUntil[bearer[c]] + 2 * HTTPTimeout
            IN  now + RefreshWindow < latest \/ now + Lifetime <= latest

\* Every call returns, however the others behave: nobody waits forever for
\* the mutex and nobody retries forever.
EveryCallReturns == \A c \in Callers : Pending(c) ~> ~Pending(c)
=============================================================================
