-------------------------- MODULE TransportProofs ---------------------------
(***************************************************************************)
(* Proofs about the token manager, and about the transport that is         *)
(* composed with it.  The token manager's theorems carry over because      *)
(* every step of a call is a step of the manager or leaves it alone; the   *)
(* rest are about send and the clock.                                      *)
(***************************************************************************)
EXTENDS Transport, TLAPS

-----------------------------------------------------------------------------
(* The token manager: its types, the exclusion of exchanges and that a     *)
(* retry never gets the rejected token back.                               *)

(***************************************************************************)
(* Neither exclusion nor the newer token is inductive alone.  A goroutine  *)
(* that waits after a rejection must find the cache empty or newer than    *)
(* what it was refused; a grant on its way into the cache must be newer    *)
(* than every token anybody holds, which is where exclusion is needed: if  *)
(* two exchanges overlapped, the older grant could be stored last.         *)
(***************************************************************************)
NumbersInOrder ==
    /\ cached <= issued
    /\ \A c \in Callers : bearer[c] <= issued

GrantIsNewest ==
    \A c \in Callers : stage[c] = "granted" =>
        /\ granted[c] \in 1..issued
        /\ cached < granted[c]
        /\ \A d \in Callers : bearer[d] < granted[c]

RejectedIsGone ==
    \A c \in Callers : stage[c] \in {"waiting", "exchanging", "granted"} =>
        cached = 0 \/ bearer[c] < cached

TokenInv ==
    /\ TokenTypeOK
    /\ OneExchangeAtATime
    /\ NumbersInOrder
    /\ GrantIsNewest
    /\ RejectedIsGone

LEMMA TokenInitInv == TokenInit => TokenInv
  BY CallersAssumption, BoundsAssumption
  DEF TokenInit, TokenInv, TokenTypeOK, OneExchangeAtATime, NumbersInOrder,
      GrantIsNewest, RejectedIsGone, InExchange, Stages, Tokens

\* The types are preserved by every step.
LEMMA TokenTypeStep == TokenInv /\ [TokenNext]_tokenVars => TokenTypeOK'
  <1> SUFFICES ASSUME TokenTypeOK, GrantIsNewest, [TokenNext]_tokenVars
               PROVE  TokenTypeOK'
    BY DEF TokenInv
  <1> USE CallersAssumption, ClockAssumption, BoundsAssumption DEF TokenTypeOK, Stages, Tokens,
          managerVars, serverVars
  <1>1. ASSUME NEW c \in Callers, Ask(c) PROVE TokenTypeOK'
    BY <1>1 DEF Ask
  <1>2. ASSUME NEW c \in Callers, UseCached(c) PROVE TokenTypeOK'
    BY <1>2 DEF UseCached
  <1>3. ASSUME NEW c \in Callers, BeginExchange(c) PROVE TokenTypeOK'
    BY <1>3 DEF BeginExchange
  <1>4. ASSUME NEW c \in Callers, Grant(c) PROVE TokenTypeOK'
    <2>1. issued + 1 \in Tokens /\ issued + 1 \in 0..MaxTokens
      BY <1>4 DEF Grant
    <2>2. QED
      BY <1>4, <2>1 DEF Grant
  <1>5. ASSUME NEW c \in Callers, StoreGrant(c) PROVE TokenTypeOK'
    <2>1. granted[c] \in Tokens
      BY <1>5 DEF StoreGrant, GrantIsNewest
    <2>2. cached' \in 0..MaxTokens /\ delivered' \subseteq Tokens
      BY <1>5, <2>1 DEF StoreGrant
    <2>3. expiresAt' \in Nat
      BY <1>5 DEF StoreGrant
    <2>4. bearer' \in [Callers -> 0..MaxTokens] /\ granted' \in [Callers -> 0..MaxTokens]
      BY <1>5, <2>1 DEF StoreGrant
    <2>5. stage' \in [Callers -> Stages] /\ deadline' \in [Callers -> Nat] /\ mu' = NoCaller
      BY <1>5 DEF StoreGrant
    <2>6. QED
      BY <1>5, <2>2, <2>3, <2>4, <2>5 DEF StoreGrant
  <1>6. ASSUME NEW c \in Callers, ExchangeFails(c) PROVE TokenTypeOK'
    BY <1>6 DEF ExchangeFails
  <1>7. ASSUME NEW c \in Callers, Release(c) PROVE TokenTypeOK'
    BY <1>7 DEF Release
  <1>8. ASSUME NEW c \in Callers, Reject(c) PROVE TokenTypeOK'
    BY <1>8 DEF Reject
  <1>9. ASSUME NEW c \in Callers, Invalidate(c) PROVE TokenTypeOK'
    BY <1>9 DEF Invalidate
  <1>10. ASSUME NEW t \in Tokens, Revoke(t) PROVE TokenTypeOK'
    BY <1>10 DEF Revoke
  <1>11. ASSUME Tick PROVE TokenTypeOK'
    BY <1>11 DEF Tick
  <1>12. ASSUME UNCHANGED tokenVars PROVE TokenTypeOK'
    BY <1>12 DEF tokenVars
  <1>13. QED
    BY <1>1, <1>2, <1>3, <1>4, <1>5, <1>6, <1>7, <1>8, <1>9, <1>10, <1>11, <1>12
    DEF TokenNext, CallerStep

\* Exclusion: the mutex is taken only when free, and only with the exchange.
LEMMA ExclusionStep == TokenInv /\ [TokenNext]_tokenVars => OneExchangeAtATime'
  <1> SUFFICES ASSUME TokenTypeOK, OneExchangeAtATime, [TokenNext]_tokenVars
               PROVE  OneExchangeAtATime'
    BY DEF TokenInv
  <1> USE CallersAssumption DEF TokenTypeOK, OneExchangeAtATime, InExchange,
          managerVars, serverVars
  <1>1. ASSUME NEW c \in Callers, CallerStep(c) PROVE OneExchangeAtATime'
    <2>1. CASE Ask(c)            BY <2>1 DEF Ask
    <2>2. CASE UseCached(c)      BY <2>2 DEF UseCached
    <2>3. CASE BeginExchange(c)  BY <2>3 DEF BeginExchange
    <2>4. CASE Grant(c)          BY <2>4 DEF Grant
    <2>5. CASE StoreGrant(c)     BY <2>5 DEF StoreGrant
    <2>6. CASE ExchangeFails(c)  BY <2>6 DEF ExchangeFails
    <2>7. CASE Release(c)        BY <2>7 DEF Release
    <2>8. CASE Reject(c)         BY <2>8 DEF Reject
    <2>9. CASE Invalidate(c)     BY <2>9 DEF Invalidate
    <2>10. QED
      BY <1>1, <2>1, <2>2, <2>3, <2>4, <2>5, <2>6, <2>7, <2>8, <2>9 DEF CallerStep
  <1>2. ASSUME NEW t \in Tokens, Revoke(t) PROVE OneExchangeAtATime'
    BY <1>2 DEF Revoke
  <1>3. ASSUME Tick PROVE OneExchangeAtATime'
    BY <1>3 DEF Tick
  <1>4. ASSUME UNCHANGED tokenVars PROVE OneExchangeAtATime'
    BY <1>4 DEF tokenVars
  <1>5. QED
    BY <1>1, <1>2, <1>3, <1>4 DEF TokenNext

OrderInv == NumbersInOrder /\ GrantIsNewest /\ RejectedIsGone

\* The order of token numbers: each step of the manager, then the rest.
LEMMA OrderStep == TokenInv /\ [TokenNext]_tokenVars => OrderInv'
  <1> SUFFICES ASSUME TokenInv, [TokenNext]_tokenVars
               PROVE  OrderInv'
    OBVIOUS
  <1> USE CallersAssumption, BoundsAssumption
      DEF TokenInv, TokenTypeOK, Stages, Tokens, OneExchangeAtATime, InExchange, OrderInv,
          NumbersInOrder, GrantIsNewest, RejectedIsGone, managerVars, serverVars
  <1>1. ASSUME NEW c \in Callers, CallerStep(c) PROVE OrderInv'
    <2>1. CASE Ask(c)            BY <2>1 DEF Ask
    <2>2. CASE UseCached(c)      BY <2>2 DEF UseCached, CacheIsFresh
    <2>3. CASE BeginExchange(c)  BY <2>3 DEF BeginExchange
    <2>4. CASE Grant(c)
      <3>1. NumbersInOrder'
        BY <2>4 DEF Grant
      <3>2. GrantIsNewest'
        BY <2>4 DEF Grant
      <3>3. RejectedIsGone'
        BY <2>4 DEF Grant
      <3>4. QED
        BY <3>1, <3>2, <3>3
    <2>5. CASE StoreGrant(c)     BY <2>5 DEF StoreGrant
    <2>6. CASE ExchangeFails(c)  BY <2>6 DEF ExchangeFails
    <2>7. CASE Release(c)        BY <2>7 DEF Release
    <2>8. CASE Reject(c)         BY <2>8 DEF Reject
    <2>9. CASE Invalidate(c)     BY <2>9 DEF Invalidate
    <2>10. QED
      BY <1>1, <2>1, <2>2, <2>3, <2>4, <2>5, <2>6, <2>7, <2>8, <2>9 DEF CallerStep
  <1>2. ASSUME NEW t \in Tokens, Revoke(t) PROVE OrderInv'
    BY <1>2 DEF Revoke
  <1>3. ASSUME Tick PROVE OrderInv'
    BY <1>3 DEF Tick
  <1>4. ASSUME UNCHANGED tokenVars PROVE OrderInv'
    BY <1>4 DEF tokenVars
  <1>5. QED
    BY <1>1, <1>2, <1>3, <1>4 DEF TokenNext

\* The inductive invariant of the token manager (auth.go).
THEOREM TokenInvariant == TokenSpec => []TokenInv
  <1>1. TokenInv /\ [TokenNext]_tokenVars => TokenInv'
    BY TokenTypeStep, ExclusionStep, OrderStep DEF TokenInv, OrderInv
  <1>2. QED
    BY TokenInitInv, <1>1, PTL DEF TokenSpec

\* m.mu is held exactly by the goroutine whose exchange is going on, so
\* token requests never overlap and the mutex never leaks.
THEOREM Exclusion == TokenSpec => []OneExchangeAtATime
  <1>1. TokenInv => OneExchangeAtATime
    BY DEF TokenInv
  <1>2. QED
    BY TokenInvariant, <1>1, PTL

\* token() never answers a goroutine with the token it was just refused, nor
\* with an older one.
LEMMA NewerTokenStep ==
    TokenInv /\ [TokenNext]_tokenVars
    => \A c \in Callers :
          stage[c] # "holding" /\ stage'[c] = "holding" => bearer'[c] > bearer[c]
  <1> SUFFICES ASSUME TokenInv, [TokenNext]_tokenVars, NEW d \in Callers,
                      stage[d] # "holding", stage'[d] = "holding"
               PROVE  bearer'[d] > bearer[d]
    OBVIOUS
  <1> USE DEF TokenInv, TokenTypeOK, GrantIsNewest, RejectedIsGone
  <1>1. ASSUME NEW c \in Callers, CallerStep(c) PROVE bearer'[d] > bearer[d]
    <2>1. CASE UseCached(c)
      BY <2>1 DEF UseCached, CacheIsFresh
    <2>2. CASE StoreGrant(c)
      BY <2>2 DEF StoreGrant
    <2>3. CASE ~UseCached(c) /\ ~StoreGrant(c)
      BY <1>1, <2>3 DEF CallerStep, Ask, BeginExchange, Grant, ExchangeFails, Release,
         Reject, Invalidate
    <2>4. QED
      BY <2>1, <2>2, <2>3
  <1>2. ASSUME NEW t \in Tokens, Revoke(t) PROVE bearer'[d] > bearer[d]
    BY <1>2 DEF Revoke
  <1>3. ASSUME Tick PROVE bearer'[d] > bearer[d]
    BY <1>3 DEF Tick
  <1>4. ASSUME UNCHANGED tokenVars PROVE bearer'[d] > bearer[d]
    BY <1>4 DEF tokenVars
  <1>5. QED
    BY <1>1, <1>2, <1>3, <1>4 DEF TokenNext

THEOREM NewerToken == TokenSpec => RetryUsesNewerToken
  <1>1. TokenInv /\ [TokenNext]_tokenVars
        => [\A c \in Callers :
              stage[c] # "holding" /\ stage'[c] = "holding"
              => bearer'[c] > bearer[c]]_tokenVars
    BY NewerTokenStep
  <1>2. QED
    BY TokenInvariant, <1>1, PTL DEF TokenSpec, RetryUsesNewerToken

-----------------------------------------------------------------------------
(* The transport implements the token manager's specification. *)

LEMMA CallStepIsTokenStep == [Next]_vars => [TokenNext]_tokenVars
  <1> SUFFICES ASSUME [Next]_vars
               PROVE  [TokenNext]_tokenVars
    OBVIOUS
  <1>1. ASSUME NEW c \in Callers, CallStep(c) PROVE [TokenNext]_tokenVars
    <2>1. CallerStep(c) \/ UNCHANGED tokenVars
      BY <1>1 DEF CallStep, CallerStep, NewChecked, Ping, Do, Begin, ObtainToken, Exchange, AuthFails,
         PingReturns, Answer, AttemptFails, FirstUnauthorized, Retry, Settle, Cancel
    <2>2. QED
      BY <2>1 DEF TokenNext
  <1>2. CASE NewUnchecked
    BY <1>2 DEF NewUnchecked
  <1>3. CASE RevokeToken
    BY <1>3 DEF RevokeToken, TokenNext
  <1>4. CASE TimePasses
    BY <1>4 DEF TimePasses, TokenNext
  <1>5. CASE UNCHANGED vars
    BY <1>5 DEF vars
  <1>6. QED
    BY <1>1, <1>2, <1>3, <1>4, <1>5 DEF Next

\* Whatever send does with the token manager, it keeps to its protocol.
THEOREM ImplementsTokenManager == Spec => TokenSpec
  <1>1. Init => TokenInit
    BY DEF Init
  <1>2. QED
    BY <1>1, CallStepIsTokenStep, PTL DEF Spec, TokenSpec

-----------------------------------------------------------------------------
(***************************************************************************)
(* Types and the shape of a call.  That attempt never passes 2 and that    *)
(* executed never passes 1 is not a matter of types: the first rests on    *)
(* only a first attempt ever reaching invalidate(), the second on the      *)
(* server's 401 meaning that it did not execute the request.               *)
(***************************************************************************)
ShapeOf(c) ==
    /\ phase[c] \in {"idle", "returned"} => stage[c] = "out"
    /\ phase[c] = "authorising" =>
          \/ stage[c] \in {"waiting", "exchanging", "granted", "dropping"}
          \/ op[c] = "ping" /\ stage[c] = "holding"
    /\ OnTheWire(c) => stage[c] = "holding" /\ op[c] = "do"
    /\ Pending(c) => attempt[c] \in 1..2 /\ op[c] # "none" /\ result[c] = "none"
    /\ stage[c] = "dropping" => attempt[c] = 1 /\ op[c] = "do"

ExecutionOf(c) ==
    /\ phase[c] \in {"idle", "authorising", "sent"} => executed[c] = 0
    /\ phase[c] = "answered" =>
          \/ response[c] = "unauthorized" /\ executed[c] = 0
          \/ response[c] \in Executed /\ executed[c] = 1
    /\ op[c] = "do" /\ result[c] = "ok" => executed[c] = 1
    /\ op[c] # "do" => executed[c] = 0
    /\ phase[c] = "idle" => op[c] = "none" /\ result[c] = "none"
    /\ phase[c] = "returned" => result[c] # "none"

\* Nobody calls a client that New has not returned, and New returns it once.
ClientOf(c) ==
    /\ op[c] = "do" => client = "ready"
    /\ Pending(c) => client # "none"
    /\ \A d \in Callers : client = "checking" /\ Pending(c) /\ Pending(d) => c = d

CallInv ==
    /\ TokenInv
    /\ CallTypeOK
    /\ \A c \in Callers : ClientOf(c)
    /\ \A c \in Callers : ShapeOf(c) /\ ExecutionOf(c)

LEMMA CallInitInv == Init => CallInv
  BY TokenInitInv, MaxCallsAssumption
  DEF Init, TokenInit, CallInv, CallTypeOK, ClientOf, ShapeOf, ExecutionOf, OnTheWire, Pending, Phases,
      Responses, Executed, Results

LEMMA CallTypeStep == CallInv /\ [Next]_vars => CallTypeOK'
  <1> SUFFICES ASSUME CallInv, [Next]_vars
               PROVE  CallTypeOK'
    OBVIOUS
  <1> USE MaxCallsAssumption, ClockAssumption
      DEF CallInv, TokenInv, TokenTypeOK, CallTypeOK, Phases, Responses, Executed, Results, callVars
  <1>1. ASSUME NEW c \in Callers, CallStep(c) PROVE CallTypeOK'
    <2>1. CASE NewChecked(c)        BY <2>1 DEF NewChecked, Begin
    <2>2. CASE Ping(c) \/ Do(c)     BY <2>2 DEF Ping, Do, Begin
    <2>3. CASE ObtainToken(c)       BY <2>3 DEF ObtainToken
    <2>4. CASE Exchange(c)          BY <2>4 DEF Exchange
    <2>5. CASE AuthFails(c)         BY <2>5 DEF AuthFails, Return
    <2>6. CASE PingReturns(c)       BY <2>6 DEF PingReturns, Return
    <2>7. CASE Answer(c)            BY <2>7 DEF Answer, ExecutionOf
    <2>8. CASE AttemptFails(c)      BY <2>8 DEF AttemptFails, Return
    <2>9. CASE FirstUnauthorized(c) BY <2>9 DEF FirstUnauthorized
    <2>10. CASE Retry(c)            BY <2>10 DEF Retry, Invalidate, ShapeOf
    <2>11. CASE Settle(c)           BY <2>11 DEF Settle, Return, Verdict
    <2>12. CASE Cancel(c)           BY <2>12 DEF Cancel
    <2>13. QED
      BY <1>1, <2>1, <2>2, <2>3, <2>4, <2>5, <2>6, <2>7, <2>8, <2>9, <2>10, <2>11, <2>12
      DEF CallStep
  <1>2. CASE NewUnchecked
    BY <1>2 DEF NewUnchecked
  <1>3. CASE RevokeToken
    BY <1>3 DEF RevokeToken
  <1>4. CASE TimePasses
    BY <1>4 DEF TimePasses
  <1>5. CASE UNCHANGED vars
    BY <1>5 DEF vars
  <1>6. QED
    BY <1>1, <1>2, <1>3, <1>4, <1>5 DEF Next

LEMMA ShapeStep == CallInv /\ [Next]_vars => \A d \in Callers : ShapeOf(d)'
  <1> SUFFICES ASSUME CallInv, [Next]_vars, NEW d \in Callers
               PROVE  ShapeOf(d)'
    OBVIOUS
  <1> USE DEF CallInv, TokenInv, TokenTypeOK, CallTypeOK, Stages, Phases, ShapeOf, OnTheWire,
          Pending
  <1>1. ASSUME NEW c \in Callers, CallStep(c) PROVE ShapeOf(d)'
    <2>1. CASE NewChecked(c)        BY <2>1 DEF NewChecked, Begin, Ask
    <2>2. CASE Ping(c) \/ Do(c)     BY <2>2 DEF Ping, Do, Begin, Ask
    <2>3. CASE ObtainToken(c)       BY <2>3 DEF ObtainToken, UseCached, StoreGrant
    <2>4. CASE Exchange(c)          BY <2>4 DEF Exchange, BeginExchange, Grant, callVars
    <2>5. CASE AuthFails(c)         BY <2>5 DEF AuthFails, Return, ExchangeFails, InExchange
    <2>6. CASE PingReturns(c)       BY <2>6 DEF PingReturns, Return, Release
    <2>7. CASE Answer(c)            BY <2>7 DEF Answer, tokenVars
    <2>8. CASE AttemptFails(c)      BY <2>8 DEF AttemptFails, Return, Release
    <2>9. CASE FirstUnauthorized(c) BY <2>9 DEF FirstUnauthorized, Retryable, Reject
    <2>10. CASE Retry(c)            BY <2>10 DEF Retry, Invalidate
    <2>11. CASE Settle(c)           BY <2>11 DEF Settle, Return, Release
    <2>12. CASE Cancel(c)           BY <2>12 DEF Cancel, tokenVars
    <2>13. QED
      BY <1>1, <2>1, <2>2, <2>3, <2>4, <2>5, <2>6, <2>7, <2>8, <2>9, <2>10, <2>11, <2>12
      DEF CallStep
  <1>2. CASE NewUnchecked
    BY <1>2 DEF NewUnchecked, tokenVars
  <1>3. CASE RevokeToken
    BY <1>3 DEF RevokeToken, Revoke, callVars
  <1>4. CASE TimePasses
    BY <1>4 DEF TimePasses, Tick, callVars
  <1>5. CASE UNCHANGED vars
    BY <1>5 DEF vars, tokenVars, callVars
  <1>6. QED
    BY <1>1, <1>2, <1>3, <1>4, <1>5 DEF Next

\* One execution per call: the second attempt only follows an answer that
\* was no execution.
LEMMA ExecutionStep == CallInv /\ [Next]_vars => \A d \in Callers : ExecutionOf(d)'
  <1> SUFFICES ASSUME CallInv, [Next]_vars, NEW d \in Callers
               PROVE  ExecutionOf(d)'
    OBVIOUS
  <1> USE DEF CallInv, CallTypeOK, Phases, Responses, Executed, Results, ShapeOf, ExecutionOf,
          OnTheWire, Pending
  <1>1. ASSUME NEW c \in Callers, CallStep(c) PROVE ExecutionOf(d)'
    <2>1. CASE NewChecked(c)        BY <2>1 DEF NewChecked, Begin
    <2>2. CASE Ping(c) \/ Do(c)     BY <2>2 DEF Ping, Do, Begin
    <2>3. CASE ObtainToken(c)       BY <2>3 DEF ObtainToken, UseCached, StoreGrant
    <2>4. CASE Exchange(c)          BY <2>4 DEF Exchange, callVars
    <2>5. CASE AuthFails(c)
      BY <2>5 DEF AuthFails, Return, ExchangeFails, InExchange
    <2>6. CASE PingReturns(c)       BY <2>6 DEF PingReturns, Return, Release
    <2>7. CASE Answer(c)            BY <2>7 DEF Answer
    <2>8. CASE AttemptFails(c)      BY <2>8 DEF AttemptFails, Return
    <2>9. CASE FirstUnauthorized(c) BY <2>9 DEF FirstUnauthorized, Retryable
    <2>10. CASE Retry(c)            BY <2>10 DEF Retry
    <2>11. CASE Settle(c)           BY <2>11 DEF Settle, Return, Verdict
    <2>12. CASE Cancel(c)           BY <2>12 DEF Cancel
    <2>13. QED
      BY <1>1, <2>1, <2>2, <2>3, <2>4, <2>5, <2>6, <2>7, <2>8, <2>9, <2>10, <2>11, <2>12
      DEF CallStep
  <1>2. CASE NewUnchecked
    BY <1>2 DEF NewUnchecked
  <1>3. CASE RevokeToken
    BY <1>3 DEF RevokeToken, callVars
  <1>4. CASE TimePasses
    BY <1>4 DEF TimePasses, callVars
  <1>5. CASE UNCHANGED vars
    BY <1>5 DEF vars, callVars
  <1>6. QED
    BY <1>1, <1>2, <1>3, <1>4, <1>5 DEF Next

LEMMA ClientStep == CallInv /\ [Next]_vars => \A d \in Callers : ClientOf(d)'
  <1> SUFFICES ASSUME CallInv, [Next]_vars, NEW d \in Callers
               PROVE  ClientOf(d)'
    OBVIOUS
  <1> USE DEF CallInv, CallTypeOK, ClientOf, Pending
  <1>1. ASSUME NEW c \in Callers, CallStep(c) PROVE ClientOf(d)'
    <2>1. CASE NewChecked(c)        BY <2>1 DEF NewChecked, Begin
    <2>2. CASE Ping(c) \/ Do(c)     BY <2>2 DEF Ping, Do, Begin
    <2>3. CASE ObtainToken(c)       BY <2>3 DEF ObtainToken
    <2>4. CASE Exchange(c)          BY <2>4 DEF Exchange, callVars
    <2>5. CASE AuthFails(c)
      BY <2>5 DEF AuthFails, Return, ExchangeFails, InExchange, ShapeOf, OnTheWire, Phases
    <2>6. CASE PingReturns(c)
      BY <2>6 DEF PingReturns, Return, Release, ShapeOf, Phases
    <2>7. CASE Answer(c)            BY <2>7 DEF Answer
    <2>8. CASE AttemptFails(c)      BY <2>8 DEF AttemptFails, Return
    <2>9. CASE FirstUnauthorized(c) BY <2>9 DEF FirstUnauthorized
    <2>10. CASE Retry(c)            BY <2>10 DEF Retry
    <2>11. CASE Settle(c)           BY <2>11 DEF Settle, Return
    <2>12. CASE Cancel(c)           BY <2>12 DEF Cancel
    <2>13. QED
      BY <1>1, <2>1, <2>2, <2>3, <2>4, <2>5, <2>6, <2>7, <2>8, <2>9, <2>10, <2>11, <2>12
      DEF CallStep
  <1>2. CASE NewUnchecked
    BY <1>2 DEF NewUnchecked
  <1>3. CASE RevokeToken
    BY <1>3 DEF RevokeToken, callVars
  <1>4. CASE TimePasses
    BY <1>4 DEF TimePasses, callVars
  <1>5. CASE UNCHANGED vars
    BY <1>5 DEF vars, callVars
  <1>6. QED
    BY <1>1, <1>2, <1>3, <1>4, <1>5 DEF Next

\* The inductive invariant of the transport.
THEOREM CallInvariant == Spec => []CallInv
  <1>1. CallInv /\ [Next]_vars => TokenInv'
    <2>1. TokenInv /\ [TokenNext]_tokenVars => TokenInv'
      BY TokenTypeStep, ExclusionStep, OrderStep DEF TokenInv, OrderInv
    <2>2. QED
      BY <2>1, CallStepIsTokenStep DEF CallInv
  <1>2. CallInv /\ [Next]_vars => CallInv'
    BY <1>1, CallTypeStep, ClientStep, ShapeStep, ExecutionStep DEF CallInv
  <1>3. QED
    BY CallInitInv, <1>2, PTL DEF Spec

\* Every variable keeps its type; in particular no call makes a third attempt
\* and no request is executed twice.
THEOREM TypeCorrect == Spec => []TypeOK
  <1>1. CallInv => TypeOK
    BY DEF CallInv, TokenInv, TypeOK
  <1>2. QED
    BY CallInvariant, <1>1, PTL

\* The exclusion of TokenManager holds when its goroutines are calls: no two
\* token requests of one client ever overlap, whatever the calls do.
THEOREM TransportExclusion == Spec => []OneExchangeAtATime
  BY ImplementsTokenManager, Exclusion, PTL

\* Likewise a retry after a 401 always carries a newer token than the one that
\* was refused.
THEOREM TransportNewerToken == Spec => RetryUsesNewerToken
  BY ImplementsTokenManager, NewerToken, PTL

-----------------------------------------------------------------------------
(***************************************************************************)
(* Refinement of the call contract.  Beginning, the server's execution and *)
(* the return of a call are steps of the contract; obtaining tokens, the   *)
(* refused attempt and its retry are invisible to it.                      *)
(***************************************************************************)
LEMMA ContractInit == Init => Contract!Init
  BY DEF Init, Contract!Init, CallStatus, CallOutcome

LEMMA ContractStutter ==
    UNCHANGED <<op, executed, result>> /\ (\A c \in Callers : Pending(c)' = Pending(c))
    => UNCHANGED Contract!contractVars
  BY DEF Contract!contractVars, CallStatus, CallOutcome

LEMMA ContractBegin ==
    ASSUME CallInv, NEW c \in Callers, Do(c)
    PROVE  Contract!Begin(c)
  <1> USE DEF CallInv, CallTypeOK, Do, Begin, Pending
  <1>1. CallStatus[c] # "pending"
    BY DEF CallStatus
  <1>2. CallStatus' = [CallStatus EXCEPT ![c] = "pending"]
    BY DEF CallStatus
  <1>3. CallOutcome' = [CallOutcome EXCEPT ![c] = "none"]
    BY DEF CallOutcome
  <1>4. QED
    BY <1>1, <1>2, <1>3 DEF Contract!Begin

\* A ping is no call of the contract: the goroutine is idle there.
LEMMA ContractPing ==
    ASSUME CallInv, NEW c \in Callers, NewChecked(c) \/ Ping(c)
    PROVE  Contract!Forget(c) \/ UNCHANGED Contract!contractVars
  <1> USE DEF CallInv, CallTypeOK, ExecutionOf, NewChecked, Ping, Begin, Pending
  <1>1. CASE op[c] = "do"
    <2>1. CallStatus[c] = "done"
      BY <1>1 DEF CallStatus
    <2>2. CallStatus' = [CallStatus EXCEPT ![c] = "idle"]
      BY DEF CallStatus
    <2>3. CallOutcome' = [CallOutcome EXCEPT ![c] = "none"]
      BY DEF CallOutcome
    <2>4. QED
      BY <2>1, <2>2, <2>3 DEF Contract!Forget
  <1>2. CASE op[c] # "do"
    BY <1>2 DEF Contract!contractVars, CallStatus, CallOutcome
  <1>3. QED
    BY <1>1, <1>2

LEMMA ContractFinish ==
    ASSUME CallInv, NEW c \in Callers, NEW r \in Results \ {"none"}, Return(c, r),
           op[c] = "do", Pending(c), r = "ok" => executed[c] = 1
    PROVE  Contract!Finish(c)
  <1> USE DEF CallInv, CallTypeOK, Return, Pending, Results
  <1>1. CallStatus[c] = "pending"
    BY DEF CallStatus
  <1>2. CallStatus' = [CallStatus EXCEPT ![c] = "done"]
    BY DEF CallStatus
  <1>3. CallOutcome' = [CallOutcome EXCEPT ![c] = IF r = "ok" THEN "ok" ELSE "error"]
    BY DEF CallOutcome
  <1>4. QED
    BY <1>1, <1>2, <1>3 DEF Contract!Finish

LEMMA ContractAnswer ==
    ASSUME CallInv, NEW c \in Callers, Answer(c)
    PROVE  Contract!Execute(c) \/ UNCHANGED Contract!contractVars
  <1> USE DEF CallInv, CallTypeOK, Answer, Pending, ShapeOf, ExecutionOf, OnTheWire
  <1>1. UNCHANGED <<CallStatus, CallOutcome>>
    BY DEF CallStatus, CallOutcome
  <1>2. CASE Accepts(bearer[c])
    <2>1. CallStatus[c] = "pending" /\ executed[c] = 0
      BY DEF CallStatus
    <2>2. executed' = [executed EXCEPT ![c] = 1]
      BY <1>2, <2>1
    <2>3. QED
      BY <1>1, <2>1, <2>2 DEF Contract!Execute
  <1>3. CASE ~Accepts(bearer[c])
    BY <1>1, <1>3 DEF Contract!contractVars
  <1>4. QED
    BY <1>2, <1>3

LEMMA ContractStep == CallInv /\ [Next]_vars => [Contract!Next]_(Contract!contractVars)
  <1> SUFFICES ASSUME CallInv, [Next]_vars
               PROVE  [Contract!Next]_(Contract!contractVars)
    OBVIOUS
  <1> USE DEF CallInv, CallTypeOK, Pending, Contract!Next
  <1>1. ASSUME NEW c \in Callers, CallStep(c) PROVE [Contract!Next]_(Contract!contractVars)
    <2>1. CASE NewChecked(c) \/ Ping(c)
      BY <2>1, ContractPing
    <2>2. CASE Do(c)
      BY <2>2, ContractBegin
    <2>3. CASE ObtainToken(c)
      BY <2>3, ContractStutter DEF ObtainToken, UseCached, StoreGrant, ShapeOf, Phases, OnTheWire
    <2>4. CASE Exchange(c)
      BY <2>4, ContractStutter DEF Exchange, callVars
    <2>5. CASE AuthFails(c)
      <3>1. CASE op[c] = "do"
        <4>1. Pending(c)
          BY <2>5 DEF AuthFails, ExchangeFails, InExchange, ShapeOf, Phases
        <4>2. QED
          BY <2>5, <3>1, <4>1, ContractFinish DEF AuthFails, Results
      <3>2. CASE op[c] # "do"
        BY <2>5, <3>2 DEF AuthFails, Return, Contract!contractVars, CallStatus, CallOutcome
      <3>3. QED
        BY <3>1, <3>2
    <2>6. CASE PingReturns(c)
      BY <2>6 DEF PingReturns, Return, Contract!contractVars, CallStatus, CallOutcome
    <2>7. CASE Answer(c)
      BY <2>7, ContractAnswer
    <2>8. CASE AttemptFails(c)
      BY <2>8, ContractFinish DEF AttemptFails, OnTheWire, ShapeOf, Results
    <2>9. CASE FirstUnauthorized(c)
      BY <2>9, ContractStutter DEF FirstUnauthorized
    <2>10. CASE Retry(c)
      BY <2>10, ContractStutter DEF Retry
    <2>11. CASE Settle(c)
      <3>1. Verdict(response[c]) \in Results \ {"none"}
        BY DEF Verdict, Results
      <3>2. Verdict(response[c]) = "ok" => executed[c] = 1
        BY <2>11 DEF Settle, Verdict, ExecutionOf
      <3>3. QED
        BY <2>11, <3>1, <3>2, ContractFinish DEF Settle, ShapeOf, OnTheWire
    <2>12. CASE Cancel(c)
      BY <2>12, ContractStutter DEF Cancel
    <2>13. QED
      BY <1>1, <2>1, <2>2, <2>3, <2>4, <2>5, <2>6, <2>7, <2>8, <2>9, <2>10, <2>11, <2>12
      DEF CallStep
  <1>2. CASE NewUnchecked
    BY <1>2, ContractStutter DEF NewUnchecked
  <1>3. CASE RevokeToken
    BY <1>3, ContractStutter DEF RevokeToken, callVars
  <1>4. CASE TimePasses
    BY <1>4, ContractStutter DEF TimePasses, callVars
  <1>5. CASE UNCHANGED vars
    BY <1>5, ContractStutter DEF vars, callVars
  <1>6. QED
    BY <1>1, <1>2, <1>3, <1>4, <1>5 DEF Next

\* send with its one retry executes a request at most once, and a call that
\* reports success was executed.
THEOREM AtMostOnce == Spec => ImplementsContract
  BY ContractInit, ContractStep, CallInvariant, PTL DEF Spec, ImplementsContract, Contract!Spec

-----------------------------------------------------------------------------
(***************************************************************************)
(* Tokens thrown away.  The cache always holds the newest delivered token  *)
(* or nothing, and believes it lasts at least as long as it does, so an    *)
(* exchange replaces only a token that is past its renewal time.  What     *)
(* invalidate() drops is either the refused token itself or - the stale    *)
(* invalidation - a newer one, and then the refused token is the witness.  *)
(***************************************************************************)
CacheIsNewest ==
    /\ \A t \in delivered : t <= issued
    /\ cached # 0 => /\ cached \in delivered
                     /\ goodUntil[cached] <= expiresAt
                     /\ \A t \in delivered : t <= cached

RefusedIsDead(c) ==
    /\ stage[c] = "holding" => bearer[c] \in delivered
    /\ stage[c] = "dropping" => bearer[c] \in delivered /\ ~Accepts(bearer[c])
    /\ phase[c] = "answered" /\ response[c] = "unauthorized" => ~Accepts(bearer[c])

\* Once begun, an exchange replaces a token that may no longer be handed out,
\* and what it brings was granted during the exchange.
ReplacesStale(c) ==
    /\ InExchange(c) /\ cached # 0 => expiresAt <= now + RefreshWindow
    /\ stage[c] = "granted" => /\ goodUntil[granted[c]] <= now + Lifetime
                               /\ \A t \in delivered : t < granted[c]

SpareInv ==
    /\ CallInv
    /\ CacheIsNewest
    /\ \A c \in Callers : RefusedIsDead(c) /\ ReplacesStale(c)
    /\ SpareOnlyAfterRejection

LEMMA SpareInitInv == Init => SpareInv
  BY CallInitInv
  DEF Init, TokenInit, SpareInv, CacheIsNewest, RefusedIsDead, ReplacesStale, InExchange,
      SpareOnlyAfterRejection, SpareTokens

\* A token that stops being accepted stays refused.
LEMMA RefusedForever ==
    ASSUME CallInv, [Next]_vars, NEW t \in Tokens, t <= issued, ~Accepts(t)
    PROVE  ~Accepts(t)'
  <1> USE DEF CallInv, TokenInv, TokenTypeOK, Accepts, Tokens
  <1>1. CASE \E c \in Callers : Grant(c)
    BY <1>1 DEF Grant
  <1>2. CASE ~ \E c \in Callers : Grant(c)
    <2>1. [TokenNext]_tokenVars
      BY CallStepIsTokenStep
    <2>2. goodUntil' = goodUntil /\ honoured' \subseteq honoured /\ now <= now'
      BY <1>2, <2>1 DEF TokenNext, CallerStep, Ask, UseCached, BeginExchange, StoreGrant,
         ExchangeFails, Release, Reject, Invalidate, Revoke, Tick, tokenVars, serverVars
    <2>3. now' \in Nat /\ goodUntil[t] \in Nat
      BY <2>1, TokenTypeStep
    <2>4. QED
      BY <2>2, <2>3
  <1>3. QED
    BY <1>1, <1>2

LEMMA CacheIsNewestStep ==
    ASSUME SpareInv, [TokenNext]_tokenVars
    PROVE  CacheIsNewest'
  <1> USE BoundsAssumption, ClockAssumption
      DEF SpareInv, CallInv, TokenInv, TokenTypeOK, NumbersInOrder, CacheIsNewest, Tokens,
          ReplacesStale, managerVars, serverVars
  <1>1. ASSUME NEW c \in Callers, CallerStep(c) PROVE CacheIsNewest'
    <2>1. CASE Grant(c)
      BY <2>1 DEF Grant
    <2>2. CASE StoreGrant(c)
      <3>1. granted[c] \in 1..issued /\ goodUntil[granted[c]] <= now + Lifetime
        BY <2>2 DEF StoreGrant, GrantIsNewest
      <3>2. \A t \in delivered : t < granted[c]
        BY <2>2 DEF StoreGrant
      <3>3. QED
        BY <2>2, <3>1, <3>2 DEF StoreGrant
    <2>3. CASE Invalidate(c)
      BY <2>3 DEF Invalidate
    <2>4. CASE ~Grant(c) /\ ~StoreGrant(c) /\ ~Invalidate(c)
      BY <1>1, <2>4 DEF CallerStep, Ask, UseCached, BeginExchange, ExchangeFails, Release, Reject
    <2>5. QED
      BY <2>1, <2>2, <2>3, <2>4
  <1>2. ASSUME NEW t \in Tokens, Revoke(t) PROVE CacheIsNewest'
    BY <1>2 DEF Revoke
  <1>3. ASSUME Tick PROVE CacheIsNewest'
    BY <1>3 DEF Tick
  <1>4. ASSUME UNCHANGED tokenVars PROVE CacheIsNewest'
    BY <1>4 DEF tokenVars
  <1>5. QED
    BY <1>1, <1>2, <1>3, <1>4 DEF TokenNext

LEMMA ReplacesStaleStep ==
    ASSUME SpareInv, [TokenNext]_tokenVars, NEW d \in Callers
    PROVE  ReplacesStale(d)'
  <1> USE BoundsAssumption, ClockAssumption, CallersAssumption
      DEF SpareInv, CallInv, TokenInv, TokenTypeOK, Stages, NumbersInOrder, CacheIsNewest, Tokens,
          ReplacesStale, OneExchangeAtATime, InExchange, managerVars, serverVars
  <1>1. ASSUME NEW c \in Callers, CallerStep(c) PROVE ReplacesStale(d)'
    <2>1. CASE BeginExchange(c)
      BY <2>1 DEF BeginExchange, CacheIsFresh
    <2>2. CASE Grant(c)
      BY <2>2 DEF Grant
    <2>3. CASE StoreGrant(c)
      BY <2>3 DEF StoreGrant
    <2>4. CASE Invalidate(c)
      BY <2>4 DEF Invalidate
    <2>5. CASE ExchangeFails(c)
      BY <2>5 DEF ExchangeFails
    <2>6. CASE Ask(c) \/ UseCached(c) \/ Release(c) \/ Reject(c)
      BY <2>6 DEF Ask, UseCached, Release, Reject
    <2>7. QED
      BY <1>1, <2>1, <2>2, <2>3, <2>4, <2>5, <2>6 DEF CallerStep
  <1>2. ASSUME NEW t \in Tokens, Revoke(t) PROVE ReplacesStale(d)'
    BY <1>2 DEF Revoke
  <1>3. ASSUME Tick PROVE ReplacesStale(d)'
    BY <1>3 DEF Tick, GrantIsNewest
  <1>4. ASSUME UNCHANGED tokenVars PROVE ReplacesStale(d)'
    BY <1>4 DEF tokenVars
  <1>5. QED
    BY <1>1, <1>2, <1>3, <1>4 DEF TokenNext

LEMMA RefusedIsDeadStep ==
    ASSUME SpareInv, [Next]_vars, NEW d \in Callers
    PROVE  RefusedIsDead(d)'
  <1> USE DEF SpareInv, CallInv, CallTypeOK, RefusedIsDead, ShapeOf, OnTheWire
  <1>1. \A t \in delivered : ~Accepts(t) => ~Accepts(t)'
    BY RefusedForever DEF TokenInv, TokenTypeOK, CacheIsNewest
  <1>2. ASSUME NEW c \in Callers, CallStep(c) PROVE RefusedIsDead(d)'
    <2> USE DEF TokenInv, TokenTypeOK, Stages, Phases, Responses, Executed
    <2>1. CASE NewChecked(c) \/ Ping(c) \/ Do(c)
      BY <1>1, <2>1 DEF NewChecked, Ping, Do, Begin, Ask, Pending
    <2>2. CASE ObtainToken(c)
      <3>1. stage'[c] = "holding" /\ bearer'[c] \in delivered' /\ delivered \subseteq delivered'
        BY <2>2 DEF ObtainToken, UseCached, StoreGrant, CacheIsFresh, CacheIsNewest
      <3>2. \A e \in Callers : e # c =>
              /\ stage'[e] = stage[e] /\ bearer'[e] = bearer[e]
              /\ phase'[e] = phase[e] /\ response'[e] = response[e]
        BY <2>2 DEF ObtainToken, UseCached, StoreGrant
      <3>3. phase'[c] # "answered"
        BY <2>2 DEF ObtainToken, UseCached, StoreGrant
      <3>4. CASE d = c
        BY <3>1, <3>3, <3>4
      <3>5. CASE d # c
        BY <1>1, <3>1, <3>2, <3>5
      <3>6. QED
        BY <3>4, <3>5
    <2>3. CASE Exchange(c)
      BY <1>1, <2>3 DEF Exchange, BeginExchange, Grant, callVars
    <2>4. CASE AuthFails(c)
      BY <1>1, <2>4 DEF AuthFails, Return, ExchangeFails, InExchange
    <2>5. CASE PingReturns(c)
      BY <1>1, <2>5 DEF PingReturns, Return, Release
    <2>6. CASE Answer(c)
      BY <1>1, <2>6 DEF Answer, tokenVars
    <2>7. CASE AttemptFails(c) \/ Settle(c)
      BY <1>1, <2>7 DEF AttemptFails, Settle, Return, Release
    <2>8. CASE FirstUnauthorized(c)
      BY <1>1, <2>8 DEF FirstUnauthorized, Retryable, Reject
    <2>9. CASE Retry(c)
      BY <1>1, <2>9 DEF Retry, Invalidate
    <2>10. CASE Cancel(c)
      BY <1>1, <2>10 DEF Cancel, tokenVars
    <2>11. QED
      BY <1>2, <2>1, <2>2, <2>3, <2>4, <2>5, <2>6, <2>7, <2>8, <2>9, <2>10 DEF CallStep
  <1>3. CASE NewUnchecked
    BY <1>1, <1>3 DEF NewUnchecked, tokenVars
  <1>4. CASE RevokeToken
    BY <1>1, <1>4 DEF RevokeToken, Revoke, callVars
  <1>5. CASE TimePasses
    BY <1>1, <1>5 DEF TimePasses, Tick, callVars
  <1>6. CASE UNCHANGED vars
    BY <1>1, <1>6 DEF vars, tokenVars, callVars
  <1>7. QED
    BY <1>2, <1>3, <1>4, <1>5, <1>6 DEF Next

\* A refused token in the cache's past is a witness for every newer spare one.
LEMMA SpareStep ==
    ASSUME SpareInv, [Next]_vars
    PROVE  SpareOnlyAfterRejection'
  <1> USE BoundsAssumption, ClockAssumption
      DEF SpareInv, CallInv, TokenInv, TokenTypeOK, CacheIsNewest, Tokens
  <1>1. \A r \in delivered : ~Accepts(r) => ~Accepts(r)'
    BY RefusedForever
  <1>2. [TokenNext]_tokenVars
    BY CallStepIsTokenStep
  <1>3. SUFFICES ASSUME NEW t \in delivered', Usable(t)', t # cached'
                 PROVE  \E r \in delivered' : r < t /\ ~Accepts(r)'
    BY DEF SpareOnlyAfterRejection, SpareTokens
  <1>4. ASSUME UNCHANGED delivered, t \in SpareTokens
        PROVE  \E r \in delivered' : r < t /\ ~Accepts(r)'
    BY <1>1, <1>4 DEF SpareOnlyAfterRejection
  <1>5. delivered' = delivered \/ \E c \in Callers : StoreGrant(c)
    BY <1>2 DEF TokenNext, CallerStep, Ask, UseCached, BeginExchange, Grant, ExchangeFails,
       Release, Reject, Invalidate, Revoke, Tick, tokenVars
  <1>6. t \in delivered => Usable(t)
    <2>1. now' >= now /\ now' \in Nat
      BY <1>2, TokenTypeStep DEF TokenNext, CallerStep, Ask, UseCached, BeginExchange, Grant,
         StoreGrant, ExchangeFails, Release, Reject, Invalidate, Revoke, Tick, tokenVars
    <2>2. t \in delivered => goodUntil'[t] = goodUntil[t] /\ (t \in honoured' => t \in honoured)
      BY SMTT(30), <1>2 DEF TokenNext, CallerStep, Ask, UseCached, BeginExchange, Grant, StoreGrant,
         ExchangeFails, Release, Reject, Invalidate, Revoke, Tick, tokenVars, serverVars
    <2>3. QED
      BY <1>3, <2>1, <2>2 DEF Usable
  <1>7. CASE \E c \in Callers : StoreGrant(c)
    <2>1. PICK c \in Callers : StoreGrant(c)
      BY <1>7
    <2>2. t \in delivered
      BY <1>3, <2>1 DEF StoreGrant
    <2>3. t # cached
      BY <1>6, <2>1, <2>2 DEF StoreGrant, ReplacesStale, InExchange, Usable
    <2>4. PICK r \in delivered : r < t /\ ~Accepts(r)
      BY <1>6, <2>2, <2>3 DEF SpareOnlyAfterRejection, SpareTokens
    <2>5. QED
      BY <1>1, <2>1, <2>4 DEF StoreGrant
  <1>8. CASE \E c \in Callers : Invalidate(c)
    <2>1. PICK c \in Callers : Invalidate(c)
      BY <1>8
    <2>2. delivered' = delivered
      BY <2>1 DEF Invalidate
    <2>3. CASE t # cached
      BY <1>4, <1>6, <2>2, <2>3 DEF SpareTokens
    <2>4. CASE t = cached
      <3>1. bearer[c] \in delivered /\ ~Accepts(bearer[c])
        BY <2>1 DEF Invalidate, RefusedIsDead
      <3>2. bearer[c] # t
        BY <1>6, <2>2, <3>1 DEF Usable, Accepts
      <3>3. bearer[c] < t
        BY <2>2, <2>4, <3>1, <3>2
      <3>4. QED
        BY <1>1, <2>2, <3>1, <3>3
    <2>5. QED
      BY <2>3, <2>4
  <1>9. CASE ~(\E c \in Callers : StoreGrant(c)) /\ ~(\E c \in Callers : Invalidate(c))
    <2>1. cached' = cached
      BY <1>2, <1>9 DEF TokenNext, CallerStep, Ask, UseCached, BeginExchange, Grant,
         ExchangeFails, Release, Reject, Revoke, Tick, tokenVars, managerVars
    <2>2. QED
      BY <1>3, <1>4, <1>5, <1>6, <1>9, <2>1 DEF SpareTokens
  <1>10. QED
    BY <1>7, <1>8, <1>9

\* A usable token is thrown away only after a rejection.
THEOREM SpareAfterRejection == Spec => []SpareOnlyAfterRejection
  <1>1. SpareInv /\ [Next]_vars => SpareInv'
    <2>1. SpareInv /\ [Next]_vars => CallInv'
      <3>1. TokenInv /\ [TokenNext]_tokenVars => TokenInv'
        BY TokenTypeStep, ExclusionStep, OrderStep DEF TokenInv, OrderInv
      <3>2. QED
        BY <3>1, CallStepIsTokenStep, CallTypeStep, ClientStep, ShapeStep, ExecutionStep
        DEF SpareInv, CallInv
    <2>2. QED
      BY <2>1, CacheIsNewestStep, ReplacesStaleStep, RefusedIsDeadStep, SpareStep,
         CallStepIsTokenStep
      DEF SpareInv
  <1>2. SpareInv => SpareOnlyAfterRejection
    BY DEF SpareInv
  <1>3. QED
    BY SpareInitInv, <1>1, <1>2, PTL DEF Spec

-----------------------------------------------------------------------------
(* The verdict. *)

\* The action formula of SuccessIsUsable.
UsableAnswers ==
    \A c \in Callers :
        op[c] = "do" /\ result[c] = "none" /\ result'[c] = "ok" => response[c] = "success"

LEMMA UsableStep == CallInv /\ [Next]_vars => UsableAnswers
  <1> SUFFICES ASSUME CallInv, [Next]_vars, NEW d \in Callers,
                      op[d] = "do", result[d] = "none", result'[d] = "ok"
               PROVE  response[d] = "success"
    BY DEF UsableAnswers
  <1>1. result \in [Callers -> Results]
    BY DEF CallInv, CallTypeOK
  <1>2. ASSUME NEW c \in Callers, CallStep(c)
        PROVE  response[d] = "success"
    <2>1. CASE Settle(c)
      <3>1. result' = [result EXCEPT ![c] = Verdict(response[c])]
        BY <2>1 DEF Settle, Return
      <3>2. c = d /\ Verdict(response[c]) = "ok"
        BY <1>1, <3>1
      <3>3. QED
        BY <3>2 DEF Verdict
    <2>2. CASE PingReturns(c)
      <3>1. op[c] = "ping" /\ result' = [result EXCEPT ![c] = "ok"]
        BY <2>2 DEF PingReturns, Return
      <3>2. QED
        BY <1>1, <3>1
    <2>3. CASE AuthFails(c) \/ AttemptFails(c)
      <3>1. result' = [result EXCEPT ![c] = "authError"] \/ result' = [result EXCEPT ![c] = "transportError"]
        BY <2>3 DEF AuthFails, AttemptFails, Return
      <3>2. QED
        BY <1>1, <3>1
    <2>4. CASE NewChecked(c) \/ Ping(c) \/ Do(c)
      <3>1. result' = [result EXCEPT ![c] = "none"]
        BY <2>4 DEF NewChecked, Ping, Do, Begin
      <3>2. QED
        BY <1>1, <3>1
    <2>5. CASE \/ ObtainToken(c) \/ Exchange(c) \/ Answer(c) \/ FirstUnauthorized(c) \/ Retry(c)
               \/ Cancel(c)
      BY <2>5 DEF ObtainToken, Exchange, Answer, FirstUnauthorized, Retry, Cancel, callVars
    <2>6. QED
      BY <1>2, <2>1, <2>2, <2>3, <2>4, <2>5 DEF CallStep
  <1>3. CASE NewUnchecked \/ RevokeToken \/ TimePasses \/ UNCHANGED vars
    BY <1>3 DEF NewUnchecked, RevokeToken, TimePasses, vars, callVars
  <1>4. QED
    BY <1>2, <1>3 DEF Next

\* Do reports success only for a 2xx answer with a body and no errors array,
\* on whichever attempt it came: a ping's success, a refused first attempt or
\* an answer of another goroutine's call is never taken for one.
THEOREM OnlyUsableIsSuccess == Spec => SuccessIsUsable
  <1>1. CallInv /\ [Next]_vars => [UsableAnswers]_vars
    BY UsableStep
  <1>2. QED
    BY <1>1, CallInvariant, PTL DEF Spec, SuccessIsUsable, UsableAnswers

-----------------------------------------------------------------------------
(***************************************************************************)
(* Expiry.  The manager counts a token's life from the arrival of the      *)
(* reply, the server from the grant, so the manager may be late by one     *)
(* timeout; the request itself may take another.  The refresh window is    *)
(* taken off the sum, whether or not it covers it.                         *)
(***************************************************************************)
CacheClock == cached # 0 => expiresAt <= goodUntil[cached] + HTTPTimeout

ExchangeClock(c) ==
    stage[c] = "exchanging" => now <= deadline[c] /\ deadline[c] <= now + HTTPTimeout

GrantClock(c) ==
    stage[c] = "granted" =>
        /\ now <= deadline[c]
        /\ deadline[c] + Lifetime <= goodUntil[granted[c]] + HTTPTimeout

HeldToken(c) == stage[c] = "holding" => bearer[c] \in 1..issued

\* due + RefreshWindow is less than the latest for a token from the cache,
\* due + Lifetime no more than it for a token just granted.
InTime(until, t) ==
    t + RefreshWindow < until + 2 * HTTPTimeout \/ t + Lifetime <= until + 2 * HTTPTimeout

SentClock(c) == phase[c] = "sent" => now <= due[c] /\ InTime(goodUntil[bearer[c]], due[c])

ClockInv ==
    /\ CallInv
    /\ CacheClock
    /\ \A c \in Callers : ExchangeClock(c) /\ GrantClock(c) /\ HeldToken(c) /\ SentClock(c)

\* The facts about numbers that every clock step needs.
LEMMA ClockTypes ==
    ASSUME ClockInv
    PROVE  /\ now \in Nat /\ expiresAt \in Nat /\ issued \in Nat /\ cached \in Nat
           /\ cached <= issued /\ issued <= MaxTokens
           /\ goodUntil \in [1..MaxTokens -> Nat]
           /\ deadline \in [Callers -> Nat] /\ due \in [Callers -> Nat]
           /\ stage \in [Callers -> Stages] /\ phase \in [Callers -> Phases]
           /\ bearer \in [Callers -> 0..MaxTokens] /\ granted \in [Callers -> 0..MaxTokens]
           /\ \A c \in Callers : /\ deadline[c] \in Nat /\ due[c] \in Nat
                                /\ bearer[c] \in Nat /\ granted[c] \in Nat
                                /\ stage[c] = "granted" => granted[c] \in 1..issued
           /\ \A t \in 1..issued : t \in Nat /\ t <= issued /\ goodUntil[t] \in Nat
           /\ HTTPTimeout \in Nat /\ RefreshWindow \in Nat /\ Lifetime \in Nat /\ MaxTokens \in Nat
  BY SMTT(30), ClockAssumption, BoundsAssumption
  DEF ClockInv, CallInv, TokenInv, TokenTypeOK, CallTypeOK, NumbersInOrder, GrantIsNewest, Tokens

LEMMA CacheClockStep == ClockInv /\ [TokenNext]_tokenVars => CacheClock'
  <1> SUFFICES ASSUME ClockInv, [TokenNext]_tokenVars PROVE CacheClock'
    OBVIOUS
  <1>1. ASSUME NEW c \in Callers, Grant(c) PROVE CacheClock'
    BY <1>1, ClockTypes DEF Grant, CacheClock, ClockInv, managerVars
  <1>2. ASSUME NEW c \in Callers, StoreGrant(c) PROVE CacheClock'
    <2>1. now + Lifetime <= goodUntil[granted[c]] + HTTPTimeout
      <3>1. /\ granted[c] \in 1..issued /\ now <= deadline[c]
            /\ deadline[c] + Lifetime <= goodUntil[granted[c]] + HTTPTimeout
        BY <1>2, ClockTypes DEF StoreGrant, GrantClock, ClockInv
      <3>2. deadline[c] \in Nat /\ goodUntil[granted[c]] \in Nat
        BY <3>1, ClockTypes
      <3>3. QED
        BY SMTT(30), <3>1, <3>2, ClockTypes
    <2>2. cached' = granted[c] /\ expiresAt' = now + Lifetime /\ goodUntil' = goodUntil
      BY <1>2 DEF StoreGrant, serverVars
    <2>3. QED
      BY <2>1, <2>2 DEF CacheClock
  <1>3. ASSUME NEW c \in Callers, Invalidate(c) PROVE CacheClock'
    BY <1>3 DEF Invalidate, CacheClock
  <1>4. CASE UNCHANGED <<cached, expiresAt, goodUntil>>
    BY <1>4 DEF CacheClock, ClockInv
  <1>5. QED
    BY <1>1, <1>2, <1>3, <1>4
    DEF TokenNext, CallerStep, Ask, UseCached, BeginExchange, ExchangeFails, Release, Reject,
        Revoke, Tick, tokenVars, managerVars, serverVars

LEMMA ExchangeClockStep ==
    ClockInv /\ [TokenNext]_tokenVars => \A d \in Callers : ExchangeClock(d)'
  <1> SUFFICES ASSUME ClockInv, [TokenNext]_tokenVars, NEW d \in Callers PROVE ExchangeClock(d)'
    OBVIOUS
  <1>1. ASSUME NEW c \in Callers, BeginExchange(c) PROVE ExchangeClock(d)'
    BY SMTT(30), <1>1, ClockTypes DEF BeginExchange, ExchangeClock, ClockInv
  <1>2. CASE Tick
    BY SMTT(30), <1>2, ClockTypes DEF Tick, InExchange, ExchangeClock, ClockInv
  <1>3. ASSUME NEW c \in Callers,
               Ask(c) \/ UseCached(c) \/ Grant(c) \/ StoreGrant(c) \/ ExchangeFails(c)
                 \/ Release(c) \/ Reject(c) \/ Invalidate(c)
        PROVE  ExchangeClock(d)'
    <2>1. now' = now /\ (stage'[d] = "exchanging" => stage[d] = "exchanging" /\ deadline'[d] = deadline[d])
      BY <1>3, ClockTypes
      DEF Ask, UseCached, Grant, StoreGrant, ExchangeFails, Release, Reject, Invalidate
    <2>2. QED
      BY <2>1 DEF ExchangeClock, ClockInv
  <1>4. CASE UNCHANGED <<now, stage, deadline>>
    BY <1>4 DEF ExchangeClock, ClockInv
  <1>5. QED
    BY <1>1, <1>2, <1>3, <1>4 DEF TokenNext, CallerStep, Revoke, tokenVars

LEMMA GrantClockStep ==
    ClockInv /\ [TokenNext]_tokenVars => \A d \in Callers : GrantClock(d)'
  <1> SUFFICES ASSUME ClockInv, [TokenNext]_tokenVars, NEW d \in Callers PROVE GrantClock(d)'
    OBVIOUS
  <1>1. ASSUME NEW c \in Callers, Grant(c) PROVE GrantClock(d)'
    <2>1. CASE d = c
      <3>1. now <= deadline[d] /\ deadline[d] <= now + HTTPTimeout
        BY <1>1, <2>1 DEF Grant, ExchangeClock, ClockInv
      <3>2. goodUntil'[granted'[d]] = now + Lifetime /\ deadline' = deadline /\ now' = now
        BY <1>1, <2>1, ClockTypes DEF Grant
      <3>3. now \in Nat /\ deadline[d] \in Nat /\ Lifetime \in Nat /\ HTTPTimeout \in Nat
        BY ClockTypes
      <3>4. deadline[d] + Lifetime <= now + Lifetime + HTTPTimeout
        BY <3>1, <3>3
      <3>5. QED
        BY <3>1, <3>2, <3>4 DEF GrantClock
    <2>2. CASE d # c
      <3>1. granted'[d] = granted[d] /\ stage'[d] = stage[d] /\ deadline' = deadline /\ now' = now
        BY <1>1, <2>2, ClockTypes DEF Grant
      <3>2. stage[d] = "granted" => goodUntil'[granted[d]] = goodUntil[granted[d]]
        BY <1>1, ClockTypes DEF Grant
      <3>3. QED
        BY <3>1, <3>2 DEF GrantClock, ClockInv
    <2>3. QED
      BY <2>1, <2>2
  <1>2. CASE Tick
    BY SMTT(30), <1>2, ClockTypes DEF Tick, InExchange, GrantClock, ClockInv, serverVars
  <1>3. ASSUME NEW c \in Callers,
               Ask(c) \/ UseCached(c) \/ BeginExchange(c) \/ StoreGrant(c) \/ ExchangeFails(c)
                 \/ Release(c) \/ Reject(c) \/ Invalidate(c)
        PROVE  GrantClock(d)'
    <2>1. /\ now' = now /\ goodUntil' = goodUntil
          /\ stage'[d] = "granted" =>
                stage[d] = "granted" /\ deadline'[d] = deadline[d] /\ granted'[d] = granted[d]
      BY <1>3, ClockTypes
      DEF Ask, UseCached, BeginExchange, StoreGrant, ExchangeFails, Release, Reject, Invalidate,
          serverVars
    <2>2. QED
      BY <2>1 DEF GrantClock, ClockInv
  <1>4. CASE UNCHANGED <<now, stage, deadline, granted, goodUntil>>
    BY <1>4 DEF GrantClock, ClockInv
  <1>5. QED
    BY <1>1, <1>2, <1>3, <1>4 DEF TokenNext, CallerStep, Revoke, tokenVars

LEMMA HeldTokenStep ==
    ClockInv /\ [TokenNext]_tokenVars => \A d \in Callers : HeldToken(d)'
  <1> SUFFICES ASSUME ClockInv, [TokenNext]_tokenVars, NEW d \in Callers PROVE HeldToken(d)'
    OBVIOUS
  <1>1. ASSUME NEW c \in Callers, UseCached(c) PROVE HeldToken(d)'
    <2>1. cached \in 1..issued
      BY SMTT(30), <1>1, ClockTypes DEF UseCached, CacheIsFresh
    <2>2. issued' = issued /\ bearer' = [bearer EXCEPT ![c] = cached] /\ stage' = [stage EXCEPT ![c] = "holding"]
      BY <1>1 DEF UseCached, serverVars
    <2>3. QED
      BY <2>1, <2>2, ClockTypes DEF HeldToken, ClockInv
  <1>2. ASSUME NEW c \in Callers, StoreGrant(c) PROVE HeldToken(d)'
    BY <1>2, ClockTypes DEF StoreGrant, HeldToken, ClockInv, serverVars
  <1>3. ASSUME NEW c \in Callers,
               Ask(c) \/ BeginExchange(c) \/ Grant(c) \/ ExchangeFails(c)
                 \/ Release(c) \/ Reject(c) \/ Invalidate(c)
        PROVE  HeldToken(d)'
    <2>1. issued' = issued \/ issued' = issued + 1
      BY <1>3
      DEF Ask, BeginExchange, Grant, ExchangeFails, Release, Reject, Invalidate, serverVars
    <2>2. stage'[d] = "holding" => stage[d] = "holding" /\ bearer'[d] = bearer[d]
      BY <1>3, ClockTypes
      DEF Ask, BeginExchange, Grant, ExchangeFails, Release, Reject, Invalidate
    <2>3. 1..issued \subseteq 1..issued'
      BY SMTT(30), <2>1, ClockTypes
    <2>4. QED
      BY <2>2, <2>3 DEF HeldToken, ClockInv
  <1>4. CASE UNCHANGED <<stage, bearer, issued>>
    BY <1>4 DEF HeldToken, ClockInv
  <1>5. QED
    BY <1>1, <1>2, <1>3, <1>4 DEF TokenNext, CallerStep, Revoke, Tick, tokenVars, serverVars

LEMMA SentClockStep ==
    ASSUME ClockInv, [Next]_vars
    PROVE  \A d \in Callers : SentClock(d)'
  <1> SUFFICES ASSUME NEW d \in Callers PROVE SentClock(d)'
    OBVIOUS
  <1>1. phase[d] = "sent" => bearer[d] \in 1..issued /\ stage[d] = "holding"
    BY DEF ClockInv, CallInv, ShapeOf, OnTheWire, HeldToken
  <1>2. ASSUME NEW c \in Callers, ObtainToken(c) PROVE SentClock(d)'
    <2>1. CASE d = c /\ op[c] = "do" /\ UseCached(c)
      <3>1. cached \in 1..issued /\ now + RefreshWindow < goodUntil[cached] + HTTPTimeout
        <4>1. cached # 0 /\ now + RefreshWindow < expiresAt
          BY <2>1 DEF UseCached, CacheIsFresh
        <4>2. cached \in 1..issued /\ goodUntil[cached] \in Nat
          BY SMTT(30), <4>1, ClockTypes
        <4>3. expiresAt <= goodUntil[cached] + HTTPTimeout
          BY <4>1 DEF ClockInv, CacheClock
        <4>4. now \in Nat /\ expiresAt \in Nat /\ RefreshWindow \in Nat /\ HTTPTimeout \in Nat
          BY ClockTypes
        <4>5. QED
          BY <4>1, <4>2, <4>3, <4>4
      <3>2. /\ due'[d] = now + HTTPTimeout /\ now' = now
            /\ goodUntil' = goodUntil /\ bearer'[d] = cached
        BY <1>2, <2>1, ClockTypes DEF ObtainToken, UseCached, serverVars
      <3>3. /\ goodUntil[cached] \in Nat /\ now \in Nat
            /\ RefreshWindow \in Nat /\ HTTPTimeout \in Nat
        BY <3>1, ClockTypes
      <3>4. now + HTTPTimeout + RefreshWindow < goodUntil[cached] + 2 * HTTPTimeout
        BY <3>1, <3>3
      <3>5. QED
        BY <3>2, <3>3, <3>4 DEF SentClock, InTime
    <2>2. CASE d = c /\ op[c] = "do" /\ StoreGrant(c)
      <3>1. /\ granted[c] \in 1..issued /\ now <= deadline[c]
            /\ deadline[c] + Lifetime <= goodUntil[granted[c]] + HTTPTimeout
        BY <2>2, ClockTypes DEF StoreGrant, ClockInv, GrantClock
      <3>2. /\ due'[d] = now + HTTPTimeout /\ now' = now
            /\ goodUntil' = goodUntil /\ bearer'[d] = granted[c]
        BY <1>2, <2>2, ClockTypes DEF ObtainToken, StoreGrant, serverVars
      <3>3. /\ goodUntil[granted[c]] \in Nat /\ now \in Nat /\ deadline[c] \in Nat
            /\ Lifetime \in Nat /\ HTTPTimeout \in Nat
        BY <3>1, ClockTypes
      <3>4. now + HTTPTimeout + Lifetime <= goodUntil[granted[c]] + 2 * HTTPTimeout
        BY <3>1, <3>3
      <3>5. QED
        BY <3>2, <3>3, <3>4 DEF SentClock, InTime
    <2>3. CASE d # c \/ op[c] # "do"
      <3>1. phase'[d] = phase[d] /\ due'[d] = due[d] /\ now' = now /\ goodUntil' = goodUntil
        BY <1>2, <2>3, ClockTypes DEF ObtainToken, UseCached, StoreGrant, serverVars
      <3>2. phase[d] = "sent" => bearer'[d] = bearer[d]
        BY <1>1, <1>2, <2>3, ClockTypes DEF ObtainToken, UseCached, StoreGrant
      <3>3. QED
        BY <3>1, <3>2 DEF SentClock, ClockInv
    <2>4. QED
      BY <1>2, <2>1, <2>2, <2>3 DEF ObtainToken
  <1>3. ASSUME NEW c \in Callers, Exchange(c) PROVE SentClock(d)'
    <2>1. phase' = phase /\ due' = due /\ now' = now /\ bearer' = bearer
      BY <1>3 DEF Exchange, BeginExchange, Grant, callVars
    <2>2. phase[d] = "sent" => goodUntil'[bearer[d]] = goodUntil[bearer[d]]
      <3>1. \A t \in 1..issued : goodUntil'[t] = goodUntil[t]
        <4>1. CASE Grant(c)
          BY <4>1, ClockTypes DEF Grant
        <4>2. CASE BeginExchange(c)
          BY <4>2 DEF BeginExchange, serverVars
        <4>3. QED
          BY <1>3, <4>1, <4>2 DEF Exchange
      <3>2. QED
        BY <1>1, <3>1
    <2>3. QED
      BY <2>1, <2>2 DEF SentClock, ClockInv
  <1>4. CASE TimePasses
    BY <1>4, ClockTypes DEF TimePasses, Tick, OnTheWire, SentClock, ClockInv, serverVars, callVars
  <1>5. ASSUME NEW c \in Callers,
               NewChecked(c) \/ Ping(c) \/ Do(c) \/ AuthFails(c) \/ PingReturns(c) \/ Answer(c)
                 \/ AttemptFails(c) \/ FirstUnauthorized(c) \/ Retry(c) \/ Settle(c) \/ Cancel(c)
        PROVE  SentClock(d)'
    <2>1. now' = now /\ goodUntil' = goodUntil
      BY <1>5
      DEF NewChecked, Ping, Do, Begin, Ask, AuthFails, ExchangeFails, PingReturns, Answer,
          AttemptFails, FirstUnauthorized, Reject, Retry, Invalidate, Settle, Release, Cancel,
          tokenVars, serverVars
    <2>2. phase'[d] = "sent" => phase[d] = "sent" /\ due'[d] = due[d]
      BY <1>5, ClockTypes
      DEF NewChecked, Ping, Do, Begin, AuthFails, Return, PingReturns, Answer, AttemptFails,
          FirstUnauthorized, Retry, Settle, Cancel
    <2>3. phase[d] = "sent" /\ phase'[d] = "sent" => bearer'[d] = bearer[d]
      BY <1>1, <1>5, ClockTypes
      DEF NewChecked, Ping, Do, Begin, Ask, AuthFails, ExchangeFails, InExchange, Return, PingReturns,
          Answer, AttemptFails, FirstUnauthorized, Reject, Retry, Invalidate, Settle, Release,
          Cancel, tokenVars
    <2>4. QED
      BY <2>1, <2>2, <2>3 DEF SentClock, ClockInv
  <1>6. CASE UNCHANGED <<phase, due, now, bearer, goodUntil>>
    BY <1>6 DEF SentClock, ClockInv
  <1>7. QED
    BY <1>2, <1>3, <1>4, <1>5, <1>6
    DEF Next, CallStep, NewUnchecked, RevokeToken, Revoke, vars, tokenVars, callVars

\* A token a request carries ran out less than two timeouts less the window
\* ago, whatever the window, the timeout and the lifetime: with the defaults of
\* 30 and 60 seconds, less than 90 seconds ago.
THEOREM LittleOverrun == Spec => []OverrunIsBounded
  <1>1. Init => ClockInv
    BY CallInitInv
    DEF Init, TokenInit, ClockInv, CacheClock, ExchangeClock, GrantClock, HeldToken, SentClock
  <1>2. ClockInv /\ [Next]_vars => ClockInv'
    <2>1. ClockInv /\ [Next]_vars => CallInv'
      <3>1. TokenInv /\ [TokenNext]_tokenVars => TokenInv'
        BY TokenTypeStep, ExclusionStep, OrderStep DEF TokenInv, OrderInv
      <3>2. QED
        BY <3>1, CallStepIsTokenStep, CallTypeStep, ClientStep, ShapeStep, ExecutionStep
        DEF ClockInv, CallInv
    <2>2. QED
      BY <2>1, CallStepIsTokenStep, CacheClockStep, ExchangeClockStep, GrantClockStep,
         HeldTokenStep, SentClockStep
      DEF ClockInv
  <1>3. ClockInv => OverrunIsBounded
    <2> SUFFICES ASSUME ClockInv, NEW c \in Callers, phase[c] = "sent"
                 PROVE  InTime(goodUntil[bearer[c]], now)
      BY DEF OverrunIsBounded, InTime
    <2>1. bearer[c] \in 1..issued
      BY DEF ClockInv, CallInv, ShapeOf, OnTheWire, HeldToken
    <2>2. /\ now \in Nat /\ due[c] \in Nat /\ goodUntil[bearer[c]] \in Nat
          /\ RefreshWindow \in Nat /\ Lifetime \in Nat /\ HTTPTimeout \in Nat
      BY <2>1, ClockTypes
    <2>3. now <= due[c] /\ InTime(goodUntil[bearer[c]], due[c])
      BY DEF ClockInv, SentClock
    <2>4. QED
      BY <2>2, <2>3 DEF InTime
  <1>4. QED
    BY <1>1, <1>2, <1>3, PTL DEF Spec
=============================================================================
