------------------------------- MODULE Answers -------------------------------
(* One goroutine's calls of the booking service, from the request it encodes  *)
(* to the order it is given, with everything the client logs on the way:      *)
(* client.go (Do, send, attempt), auth.go's log of a rejected exchange,       *)
(* logging.go and booking/mapper.go. How calls share tokens and race is in    *)
(* Transport; here it matters what is in the bodies.                          *)
EXTENDS OrderAnswers, Logging

CONSTANTS
    Cards,          \* the cards bookings are paid with: [number, code, threeDS]
    Orders,         \* the orders Amadeus may answer with
    MaxCalls        \* bound: how many calls are made

ASSUME OrdersAreWire == Orders \subseteq HotelOrder
ASSUME CallsAreBounded == MaxCalls \in Nat

VARIABLES
    level,          \* the level of the caller's logger
    phase,          \* where the call is: idle, token, attempt, answered
    request,        \* the request of the current or last call
    retried,        \* whether the second attempt is under way
    answer,         \* Amadeus's last answer to it
    told,           \* what the service returned
    log,            \* the records that reached the logger
    calls           \* calls made so far

vars == <<level, phase, request, retried, answer, told, log, calls>>

---------------------------------------------------------------------------
(* Bodies *)

Leaves(pairs) == [path \in { p[1] : p \in pairs } |->
                    (CHOOSE p \in pairs : p[1] = path)[2]]
Under(prefix, pairs) == { <<prefix \o p[1], p[2]>> : p \in pairs }

(* toCard: where the request holds what must not be logged.                   *)
toCard(card) ==
    { <<<<"paymentCardInfo", "cardNumber">>, card.number>>,
      <<<<"paymentCardInfo", "securityCode">>, card.code>>,
      <<<<"paymentCardInfo", "holderName">>, "holder">> }
    \cup { <<<<"threeDomainSecure", "cryptogramValue">>, c>> : c \in card.threeDS }

(* The create body holds the card under data.payment, the update body under   *)
(* data.hotelBooking.payment.                                                 *)
CreateBody(card) ==
    Leaves(Under(<<"data", "payment", "paymentCard">>, toCard(card))
           \cup { <<<<"data", "guests", "lastName">>, "guest">> })
UpdateBody(card) ==
    Leaves(Under(<<"data", "hotelBooking", "payment", "paymentCard">>, toCard(card)))

Body(leaves, encodable) == {[leaves |-> leaves, encodable |-> encodable]}
Requests ==
    { [path |-> "booking", body |-> Body(CreateBody(c), e)] : c \in Cards, e \in BOOLEAN }
    \cup { [path |-> "booking", body |-> Body(UpdateBody(c), TRUE)] : c \in Cards }
    \cup { [path |-> "booking", body |-> {}] }

Secrets ==
    (UNION { {c.number, c.code} \cup c.threeDS : c \in Cards }) \cup {"client secret", "token"}

(* The other words of the bodies, and the placeholder, are not among them.    *)
ASSUME SecretsAreSecret ==
    Secrets \cap {"holder", "guest", "masked", "reason", REDACTED} = {}

(* Amadeus's answers. It masks card numbers, and an error body quotes no      *)
(* request. A 2xx body may hold an order, errors, no data, or no JSON at all. *)
Masked == <<"data", "hotelBookings", "payment", "paymentCard", "paymentCardInfo", "cardNumber">>
Answer(ok, unauthorized, details, json, data) ==
    [ok |-> ok, unauthorized |-> unauthorized, details |-> details, json |-> json, data |-> data,
     leaves |-> IF data # {} THEN Leaves({ <<Masked, "masked">> })
                ELSE Leaves({ <<<<"errors", "detail">>, "reason">> })]
NoAnswer == Answer(FALSE, FALSE, FALSE, TRUE, {})
Replies ==
    { Answer(TRUE, FALSE, FALSE, TRUE, {o}) : o \in Orders }
    \cup { Answer(TRUE, FALSE, details, TRUE, {}) : details \in BOOLEAN }
    \cup { Answer(TRUE, FALSE, FALSE, FALSE, {}) }
    \cup { Answer(FALSE, unauthorized, details, TRUE, {}) :
           unauthorized \in BOOLEAN, details \in BOOLEAN }

---------------------------------------------------------------------------
Nothing == [kind |-> "nothing", order |-> NoOrder, reference |-> {}]
Failed == [Nothing EXCEPT !.kind = "error"]
Returned(order) == [kind |-> "order", order |-> order, reference |-> Reference(order)]

Init ==
    /\ phase = "idle" /\ retried = FALSE /\ calls = 0
    /\ request \in Requests /\ answer = NoAnswer /\ told = Nothing
    /\ level \in Levels /\ log = {}

Call ==
    /\ phase = "idle" /\ calls < MaxCalls
    /\ request' \in Requests
    /\ phase' = "token" /\ retried' = FALSE /\ answer' = NoAnswer /\ told' = Nothing
    /\ calls' = calls + 1 /\ UNCHANGED <<level, log>>

Return(result) == phase' = "idle" /\ told' = result

(* attempt: the token, cached or exchanged for. Only a rejected exchange is   *)
(* logged.                                                                    *)
token ==
    /\ phase = "token"
    /\ \/ phase' = "attempt" /\ UNCHANGED <<told, log>>
       \/ Return(Failed) /\ log' = log \cup logAuthFailure(level, NoAnswer)
       \/ Return(Failed) /\ UNCHANGED log                      \* no answer
    /\ UNCHANGED <<level, request, retried, answer, calls>>

(* attempt: build encodes the body before anything is logged; the request is  *)
(* logged, sent, and its answer logged before anybody looks at it.            *)
Encodable == \A b \in request.body : b.encodable
attempt ==
    /\ phase = "attempt"
    /\ \/ ~Encodable /\ Return(Failed) /\ UNCHANGED <<answer, log>>
       \/ /\ Encodable /\ Return(Failed)                       \* the network, a timeout
          /\ log' = log \cup logRequest(level, request) /\ UNCHANGED answer
       \/ /\ Encodable /\ answer' \in Replies
          /\ log' = log \cup logRequest(level, request) \cup logResponse(level, request, answer')
          /\ phase' = "answered" /\ UNCHANGED told
    /\ UNCHANGED <<level, request, retried, calls>>

(* send and Do: one retry of a 401, then errors and bad statuses are logged   *)
(* and returned, and anything else is decoded and mapped.                     *)
retry ==
    /\ phase = "answered" /\ answer.unauthorized /\ ~retried
    /\ phase' = "token" /\ retried' = TRUE
    /\ UNCHANGED <<level, request, answer, told, log, calls>>
Rejected == answer.details \/ ~answer.ok
Decoded == IF answer.data = {} THEN NoOrder ELSE CHOOSE o \in answer.data : TRUE
settle ==
    /\ phase = "answered" /\ (answer.unauthorized => retried)
    /\ \/ /\ Rejected
          /\ log' = log \cup logFailure(level, request, answer) /\ Return(Failed)
       \/ /\ ~Rejected /\ UNCHANGED log
          /\ Return(IF answer.json THEN Returned(mapOrder(Decoded)) ELSE Failed)
    /\ UNCHANGED <<level, request, retried, answer, calls>>

Next == Call \/ token \/ attempt \/ retry \/ settle

Spec == Init /\ [][Next]_vars

---------------------------------------------------------------------------
(* Properties *)

(* No card number, verification code, 3-D Secure cryptogram, client secret or *)
(* token is ever in a record that reaches the logger, at whatever level, from *)
(* whichever of the three places that log a body, on the first attempt, the   *)
(* retry or a failure.                                                        *)
ValuesOf(bodies) == UNION { Range(b) : b \in bodies }
NoSecretIsLogged ==
    \A record \in log : (ValuesOf(record.request) \cup ValuesOf(record.response)) \cap Secrets = {}

(* Create, Get and Cancel return an empty Order and no error for a 2xx answer *)
(* without data. Nothing the SDK says of such an order is taken for a         *)
(* reservation: it has no ID and no record locator, and IsConfirmed is false  *)
(* of it, as it is of an order without bookings. An order with any of the     *)
(* three is one that the last answer of the call holds, not the rejected      *)
(* attempt before it.                                                         *)
NoReservationIsInvented ==
    told.kind = "order" =>
        /\ answer.ok /\ answer.json
        /\ answer.data = {} =>
              told.order.id = "" /\ told.reference = {} /\ ~IsConfirmed(told.order)
        /\ \A o \in answer.data :
              /\ told.order.id = o.id
              /\ told.reference \subseteq { o.records[i].reference : i \in DOMAIN o.records }
              /\ IsConfirmed(told.order) => o.bookings # <<>>
=============================================================================
