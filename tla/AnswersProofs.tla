---------------------------- MODULE AnswersProofs ----------------------------
(* That no secret reaches a log and that no reservation is made of an empty   *)
(* answer, for every set of cards, every answer and any number of calls.      *)
EXTENDS Answers, TLAPS, SequenceTheorems, WellFoundedInduction

(* The keys of the leaves of what the SDK encodes, and of what is above them. *)
Keys == {"data", "hotelBooking", "payment", "paymentCard", "paymentCardInfo",
         "threeDomainSecure", "cardNumber", "securityCode", "cryptogramValue",
         "holderName", "guests", "lastName"}

Words == {"holder", "guest", "masked", "reason", REDACTED}

(* A leaf is harmless if its key is redacted, or if it holds a word.          *)
Harmless(path, value) == Sensitive(Last(path)) \/ value \in Words

HarmlessPairs(pairs) ==
    \A p \in pairs : p[1] \in Seq(Keys) \ {<<>>} /\ Harmless(p[1], p[2])

HarmlessBody(body) ==
    \A path \in DOMAIN body : path \in Seq(Keys) \ {<<>>} /\ Harmless(path, body[path])

Clean(body) == Range(body) \subseteq Words

LogIsClean == \A record \in log : \A b \in record.request \cup record.response : Clean(b)

(* What is returned with an order is what the last answer holds.              *)
ToldIsAnswered ==
    told.kind = "order" =>
        phase = "idle" /\ answer.ok /\ answer.json /\ told = Returned(mapOrder(Decoded))

AnswersInv ==
    /\ request \in Requests
    /\ answer \in Replies \cup {NoAnswer}
    /\ LogIsClean
    /\ phase # "idle" => told = Nothing
    /\ ToldIsAnswered

-----------------------------------------------------------------------------
(* Redaction. *)

(* Of a path, what is left ends in the key that cut it, or nothing was cut.   *)
LEMMA CutEndsSensitive ==
    ASSUME NEW path \in Seq(Keys)
    PROVE  Cut(path) = path \/ Sensitive(Last(Cut(path)))
<1> DEFINE at == {i \in DOMAIN path : Sensitive(path[i])}
<1>1. CASE at = {}
  BY <1>1 DEF Cut
<1>2. CASE at # {}
  <2>1. at \subseteq Nat
    OBVIOUS
  <2>2. PICK k \in at : \A i \in at : k <= i
    <3>1. PICK k \in at : \A i \in at : ~(<<i, k>> \in OpToRel(<, Nat))
      BY <1>2, <2>1, NatLessThanWellFounded, WFMin
    <3>2. \A i \in at : ~(i < k)
      BY <2>1, <3>1 DEF OpToRel
    <3>3. \A i \in at : k <= i
      BY <2>1, <3>2
    <3> QED
      BY <3>3
  <2>3. Min(at) = k
    BY <2>1, <2>2 DEF Min
  <2>4. Cut(path) = SubSeq(path, 1, k)
    BY <1>2, <2>3 DEF Cut
  <2>5. k \in 1..Len(path) /\ Sensitive(path[k])
    OBVIOUS
  <2>6. Len(SubSeq(path, 1, k)) = k /\ SubSeq(path, 1, k)[k] = path[k]
    BY <2>5
  <2> QED
    BY <2>4, <2>5, <2>6 DEF Last
<1> QED
  BY <1>1, <1>2

(* What is left of a harmless body after redaction are words.                 *)
LEMMA RedactedIsClean ==
    ASSUME NEW body, HarmlessBody(body)
    PROVE  Clean(redactValue(body))
<1> SUFFICES ASSUME NEW path \in DOMAIN redactValue(body)
             PROVE  redactValue(body)[path] \in Words
  BY DEF Clean, Range
<1>1. PICK p \in DOMAIN body : path = Cut(p)
  BY DEF redactValue
<1>2. redactValue(body)[path] = IF Sensitive(Last(path)) THEN REDACTED ELSE body[path]
  BY DEF redactValue
<1>3. CASE Sensitive(Last(path))
  BY <1>2, <1>3 DEF Words
<1>4. CASE ~Sensitive(Last(path))
  <2>1. path = p
    BY <1>1, <1>4, CutEndsSensitive DEF HarmlessBody
  <2> QED
    BY <1>2, <1>4, <2>1 DEF HarmlessBody, Harmless
<1> QED
  BY <1>3, <1>4

-----------------------------------------------------------------------------
(* The bodies the SDK encodes. *)

LEMMA LeavesAreHarmless ==
    ASSUME NEW pairs, HarmlessPairs(pairs)
    PROVE  HarmlessBody(Leaves(pairs))
<1> SUFFICES ASSUME NEW path \in DOMAIN Leaves(pairs)
             PROVE  path \in Seq(Keys) \ {<<>>} /\ Harmless(path, Leaves(pairs)[path])
  BY DEF HarmlessBody
<1>1. \E p \in pairs : p[1] = path
  BY DEF Leaves
<1> DEFINE q == CHOOSE p \in pairs : p[1] = path
<1>2. q \in pairs /\ q[1] = path
  BY <1>1
<1>3. Leaves(pairs)[path] = q[2]
  BY DEF Leaves
<1> QED
  BY <1>2, <1>3 DEF HarmlessPairs

LEMMA UnderIsHarmless ==
    ASSUME NEW prefix \in Seq(Keys), NEW pairs, HarmlessPairs(pairs)
    PROVE  HarmlessPairs(Under(prefix, pairs))
<1> SUFFICES ASSUME NEW q \in Under(prefix, pairs)
             PROVE  q[1] \in Seq(Keys) \ {<<>>} /\ Harmless(q[1], q[2])
  BY DEF HarmlessPairs
<1>0. PICK p \in pairs : q = <<prefix \o p[1], p[2]>>
  BY DEF Under
<1>1. p[1] \in Seq(Keys) /\ p[1] # <<>>
  BY DEF HarmlessPairs
<1>2. Len(p[1]) \in Nat \ {0}
  BY <1>1, EmptySeq
<1>3. /\ prefix \o p[1] \in Seq(Keys) /\ Len(prefix \o p[1]) = Len(prefix) + Len(p[1])
      /\ (prefix \o p[1])[Len(prefix) + Len(p[1])] = p[1][Len(p[1])]
  BY <1>1, <1>2
<1>4. Last(prefix \o p[1]) = Last(p[1]) /\ prefix \o p[1] # <<>>
  BY <1>2, <1>3 DEF Last
<1>5. q[1] = prefix \o p[1] /\ q[2] = p[2]
  BY <1>0
<1>6. Harmless(p[1], p[2])
  BY DEF HarmlessPairs
<1> QED
  BY <1>3, <1>4, <1>5, <1>6 DEF Harmless

LEMMA KeysOfCards ==
    ASSUME NEW block \in Keys, NEW key \in Keys
    PROVE  <<block, key>> \in Seq(Keys) \ {<<>>} /\ Last(<<block, key>>) = key
<1>1. <<block, key>> \in Seq(Keys) /\ Len(<<block, key>>) = 2
  OBVIOUS
<1>2. <<block, key>> # <<>>
  BY <1>1, EmptySeq
<1> QED
  BY <1>1, <1>2 DEF Last

(* Each field of a card that must not be logged has a key that is redacted.   *)
LEMMA CardIsHarmless ==
    ASSUME NEW card
    PROVE  HarmlessPairs(toCard(card))
<1>1. Sensitive("cardNumber") /\ Sensitive("securityCode") /\ Sensitive("cryptogramValue")
  BY DEF Sensitive, ToLower, sensitiveKeys
<1> SUFFICES ASSUME NEW p \in toCard(card)
             PROVE  p[1] \in Seq(Keys) \ {<<>>} /\ Harmless(p[1], p[2])
  BY DEF HarmlessPairs
<1>2. \E block \in Keys, key \in Keys :
        p[1] = <<block, key>> /\ (Sensitive(key) \/ p[2] \in Words)
  <2>1. CASE p = <<<<"paymentCardInfo", "cardNumber">>, card.number>>
    BY <1>1, <2>1 DEF Keys
  <2>2. CASE p = <<<<"paymentCardInfo", "securityCode">>, card.code>>
    BY <1>1, <2>2 DEF Keys
  <2>3. CASE p = <<<<"paymentCardInfo", "holderName">>, "holder">>
    BY <2>3 DEF Words, Keys
  <2>4. CASE \E c \in card.threeDS : p = <<<<"threeDomainSecure", "cryptogramValue">>, c>>
    BY <1>1, <2>4 DEF Keys
  <2> QED
    BY <2>1, <2>2, <2>3, <2>4 DEF toCard
<1> QED
  BY <1>2, KeysOfCards DEF Harmless

LEMMA RequestsAreHarmless ==
    ASSUME NEW r \in Requests, NEW b \in r.body
    PROVE  HarmlessBody(b.leaves)
<1>1. ASSUME NEW card
      PROVE  HarmlessBody(CreateBody(card))
  <2> DEFINE cardLeaves == Under(<<"data", "payment", "paymentCard">>, toCard(card))
             guestLeaf  == <<<<"data", "guests", "lastName">>, "guest">>
  <2>1. <<"data", "payment", "paymentCard">> \in Seq(Keys)
    BY DEF Keys
  <2>2. HarmlessPairs(cardLeaves)
    BY <2>1, CardIsHarmless, UnderIsHarmless
  <2>3. <<"data", "guests", "lastName">> \in Seq(Keys) /\ Len(<<"data", "guests", "lastName">>) = 3
    BY DEF Keys
  <2>4. guestLeaf[1] \in Seq(Keys) \ {<<>>}
    BY <2>3, EmptySeq
  <2>5. Harmless(guestLeaf[1], guestLeaf[2])
    BY DEF Harmless, Words
  <2>6. HarmlessPairs(cardLeaves \cup {guestLeaf})
    BY <2>2, <2>4, <2>5 DEF HarmlessPairs
  <2> QED
    BY <2>6, LeavesAreHarmless DEF CreateBody
<1>2. ASSUME NEW card
      PROVE  HarmlessBody(UpdateBody(card))
  <2> DEFINE cardLeaves == Under(<<"data", "hotelBooking", "payment", "paymentCard">>, toCard(card))
  <2>1. <<"data", "hotelBooking", "payment", "paymentCard">> \in Seq(Keys)
    BY DEF Keys
  <2>2. HarmlessPairs(cardLeaves)
    BY <2>1, CardIsHarmless, UnderIsHarmless
  <2> QED
    BY <2>2, LeavesAreHarmless DEF UpdateBody
<1>3. \E card \in Cards : b.leaves = CreateBody(card) \/ b.leaves = UpdateBody(card)
  BY DEF Requests, Body
<1> QED
  BY <1>1, <1>2, <1>3

LEMMA RedactedRequestIsClean ==
    ASSUME NEW r \in Requests, NEW b \in Redacted(r)
    PROVE  Clean(b)
<1>1. PICK body \in r.body : b \in redactBody(body)
  BY DEF Redacted
<1>2. b = redactValue(body.leaves)
  BY <1>1 DEF redactBody
<1> QED
  BY <1>2, RequestsAreHarmless, RedactedIsClean

LEMMA AnswerIsClean ==
    ASSUME NEW a \in Replies \cup {NoAnswer}
    PROVE  Clean(a.leaves)
<1> DEFINE masked == Leaves({<<Masked, "masked">>})
           reason == Leaves({<<<<"errors", "detail">>, "reason">>})
<1>1. a.leaves \in {masked, reason}
  <2> HIDE DEF masked, reason
  <2>1. CASE a = NoAnswer
    BY <2>1 DEF NoAnswer, Answer, masked, reason
  <2>2. CASE a \in Replies
    BY <2>2 DEF Replies, Answer, masked, reason
  <2> QED
    BY <2>1, <2>2
<1>2. ASSUME NEW path, NEW word \in Words
      PROVE  Clean(Leaves({<<path, word>>}))
  BY <1>2 DEF Clean, Range, Leaves
<1> QED
  BY <1>1, <1>2 DEF Words

(* Every record the three places that log build is clean.                     *)
LEMMA RecordsAreClean ==
    ASSUME NEW r \in Requests, NEW a \in Replies \cup {NoAnswer},
           NEW record \in logRequest(level, r) \cup logResponse(level, r, a)
                          \cup logFailure(level, r, a) \cup logAuthFailure(level, NoAnswer),
           NEW b \in record.request \cup record.response
    PROVE  Clean(b)
<1>1. NoAnswer \in Replies \cup {NoAnswer}
  OBVIOUS
<1>2. record.request \in {{}, Redacted(r)} /\ record.response \in {{}, {a.leaves}, {NoAnswer.leaves}}
  <2>1. CASE record \in logRequest(level, r)
    BY <2>1 DEF logRequest, Logged, Record
  <2>2. CASE record \in logResponse(level, r, a)
    BY <2>2 DEF logResponse, Logged, Record
  <2>3. CASE record \in logFailure(level, r, a)
    <3>1. record = Record("call failed", Redacted(r), {a.leaves})
      BY <2>3 DEF logFailure, Logged
    <3> QED
      BY <3>1 DEF Record
  <2>4. CASE record \in logAuthFailure(level, NoAnswer)
    <3>1. record = Record("authentication failed", {}, {NoAnswer.leaves})
      BY <2>4 DEF logAuthFailure, Logged
    <3> QED
      BY <3>1 DEF Record
  <2> QED
    BY <2>1, <2>2, <2>3, <2>4
<1>3. b \in Redacted(r) \/ b = a.leaves \/ b = NoAnswer.leaves
  BY <1>2
<1> QED
  BY <1>1, <1>3, RedactedRequestIsClean, AnswerIsClean

-----------------------------------------------------------------------------
(* The invariant. *)

LEMMA AnswersInvariant == Spec => []AnswersInv
<1>1. Init => AnswersInv
  BY DEF Init, AnswersInv, LogIsClean, ToldIsAnswered, Nothing
<1>2. AnswersInv /\ [Next]_vars => AnswersInv'
  <2> SUFFICES ASSUME AnswersInv, [Next]_vars PROVE AnswersInv'
    OBVIOUS
  <2> USE DEF AnswersInv
  <2> DEFINE Written == logRequest(level, request) \cup logResponse(level, request, answer')
                        \cup logFailure(level, request, answer) \cup logAuthFailure(level, NoAnswer)
                        \cup logFailure(level, request, answer')
  <2>0. ASSUME log' \subseteq log \cup Written, answer' \in Replies \cup {NoAnswer}
        PROVE  LogIsClean'
    <3> SUFFICES ASSUME NEW record \in log', NEW b \in record.request \cup record.response
                 PROVE  Clean(b)
      BY DEF LogIsClean
    <3>1. CASE record \in log
      BY <3>1 DEF LogIsClean
    <3>2. CASE record \in Written
      BY <2>0, <3>2, RecordsAreClean
    <3> QED
      BY <2>0, <3>1, <3>2
  <2> HIDE DEF Written
  <2>f. Failed.kind = "error" /\ Nothing.kind = "nothing"
    BY DEF Failed, Nothing
  <2>1. CASE Call
    <3>1. log' \subseteq log \cup Written /\ answer' \in Replies \cup {NoAnswer}
      BY <2>1 DEF Call
    <3> QED
      BY <2>0, <3>1, <2>1, <2>f DEF Call, ToldIsAnswered
  <2>2. CASE token
    <3>1. log' \subseteq log \cup Written /\ answer' = answer
      BY <2>2 DEF token, Written
    <3>2. LogIsClean'
      BY <2>0, <3>1
    <3>3. request' = request /\ (phase' # "idle" => told' = Nothing) /\ told'.kind # "order"
      BY <2>2, <2>f DEF token, Return
    <3> QED
      BY <3>1, <3>2, <3>3 DEF ToldIsAnswered
  <2>3. CASE attempt
    <3>1. log' \subseteq log \cup Written /\ answer' \in Replies \cup {NoAnswer}
      BY <2>3 DEF attempt, Written
    <3>2. LogIsClean'
      BY <2>0, <3>1
    <3>3. request' = request /\ (phase' # "idle" => told' = Nothing) /\ told'.kind # "order"
      BY <2>3, <2>f DEF attempt, Return
    <3> QED
      BY <3>1, <3>2, <3>3 DEF ToldIsAnswered
  <2>4. CASE retry
    <3>1. log' \subseteq log \cup Written /\ answer' = answer
      BY <2>4 DEF retry
    <3>2. LogIsClean'
      BY <2>0, <3>1
    <3>3. request' = request /\ told' = Nothing
      BY <2>4 DEF retry
    <3> QED
      BY <3>1, <3>2, <3>3, <2>f DEF ToldIsAnswered
  <2>5. CASE settle
    <3>1. log' \subseteq log \cup Written /\ answer' = answer /\ request' = request /\ phase' = "idle"
      BY <2>5 DEF settle, Return, Written
    <3>2. LogIsClean'
      BY <2>0, <3>1
    <3>3. CASE told' = Failed
      BY <3>1, <3>2, <3>3, <2>f DEF ToldIsAnswered
    <3>4. CASE ~Rejected /\ answer.json /\ told' = Returned(mapOrder(Decoded))
      <4>1. answer.ok /\ Decoded' = Decoded
        BY <3>1, <3>4 DEF Rejected, Decoded
      <4> QED
        BY <3>1, <3>2, <3>4, <4>1 DEF ToldIsAnswered
    <3> QED
      BY <2>5, <3>3, <3>4 DEF settle, Return
  <2>6. CASE UNCHANGED vars
    BY <2>6 DEF vars, LogIsClean, ToldIsAnswered, Decoded
  <2> QED
    BY <2>1, <2>2, <2>3, <2>4, <2>5, <2>6 DEF Next
<1> QED
  BY <1>1, <1>2, PTL DEF Spec

-----------------------------------------------------------------------------
(* Theorems. *)

(* No card number, verification code, cryptogram, client secret or token      *)
(* reaches the logger, whatever the cards, the answers and the level: every   *)
(* body that is logged went through redactBody, and every field of a card     *)
(* that must not be logged has a key it knows.                                *)
THEOREM SecretsStaySecret == Spec => []NoSecretIsLogged
<1>1. AnswersInv => NoSecretIsLogged
  <2> SUFFICES ASSUME AnswersInv, NEW record \in log
               PROVE  (ValuesOf(record.request) \cup ValuesOf(record.response)) \cap Secrets = {}
    BY DEF NoSecretIsLogged
  <2>1. ValuesOf(record.request) \subseteq Words /\ ValuesOf(record.response) \subseteq Words
    BY DEF AnswersInv, LogIsClean, ValuesOf, Clean
  <2> QED
    BY <2>1, SecretsAreSecret DEF Words
<1> QED
  BY <1>1, AnswersInvariant, PTL

(* An order that has an ID or a locator, or is confirmed, is made of an order *)
(* that Amadeus answered with: the 2xx answer without data, which the service *)
(* returns without an error, has none of the three.                           *)
THEOREM EmptyAnswersAreNoReservations == Spec => []NoReservationIsInvented
<1>1. AnswersInv => NoReservationIsInvented
  <2> SUFFICES ASSUME AnswersInv, told.kind = "order"
               PROVE  /\ answer.data = {} =>
                            told.order.id = "" /\ told.reference = {} /\ ~IsConfirmed(told.order)
                      /\ \A o \in answer.data :
                            /\ told.order.id = o.id
                            /\ told.reference \subseteq {o.records[i].reference : i \in DOMAIN o.records}
                            /\ IsConfirmed(told.order) => o.bookings # <<>>
    BY DEF AnswersInv, ToldIsAnswered, NoReservationIsInvented
  <2>1. told.order = mapOrder(Decoded) /\ told.reference = Reference(mapOrder(Decoded))
    BY DEF AnswersInv, ToldIsAnswered, Returned
  <2>2. ASSUME NEW o
        PROVE  /\ mapOrder(o).id = o.id
               /\ Reference(mapOrder(o)) \subseteq {o.records[i].reference : i \in DOMAIN o.records}
               /\ IsConfirmed(mapOrder(o)) => o.bookings # <<>>
    <3>1. /\ DOMAIN mapOrder(o).records = DOMAIN o.records
          /\ \A i \in DOMAIN o.records : mapOrder(o).records[i].reference = o.records[i].reference
      BY DEF mapOrder, map, mapRecord
    <3>2. o.bookings = <<>> => mapOrder(o).bookings = <<>>
      BY DEF mapOrder, map
    <3>3. mapOrder(o).id = o.id
      BY DEF mapOrder
    <3> QED
      BY <3>1, <3>2, <3>3 DEF Reference, IsConfirmed
  <2>3. CASE answer.data = {}
    <3>1. Decoded = NoOrder
      BY <2>3 DEF Decoded
    <3>2. NoOrder.id = "" /\ DOMAIN NoOrder.records = {} /\ NoOrder.bookings = <<>>
      BY DEF NoOrder
    <3>3. Reference(mapOrder(NoOrder)) = {} /\ ~IsConfirmed(mapOrder(NoOrder)) /\ mapOrder(NoOrder).id = ""
      BY <2>2, <3>2
    <3> QED
      BY <2>1, <2>3, <3>1, <3>3
  <2>4. CASE answer.data # {}
    <3>1. \A o \in answer.data : Decoded = o
      BY <2>4 DEF Decoded, AnswersInv, Replies, Answer, NoAnswer
    <3> QED
      BY <2>1, <2>2, <2>4, <3>1
  <2> QED
    BY <2>3, <2>4
<1> QED
  BY <1>1, AnswersInvariant, PTL
==============================================================================
