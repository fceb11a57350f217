------------------------------- MODULE Orders -------------------------------
(***************************************************************************)
(* The booking service (booking/service.go and the mapping of an order in  *)
(* booking/mapper.go) between applications and Amadeus's order server.     *)
(* Goroutines create, look up, modify, cancel and delete bookings; each    *)
(* operation is one call of the transport, of which only the contract of   *)
(* CallContract is used: executed at most once, and executed if it reports *)
(* success.  A call that reports failure may have been executed.           *)
(*                                                                         *)
(* The server is external.  It gives every order one booking, on the terms *)
(* of its first room.  An order's ID and its record locator are both its   *)
(* position in orders; 0 is Go's empty string.                             *)
(***************************************************************************)
EXTENDS ModificationRules

CONSTANTS
    Callers,         \* the goroutines of the application
    Modifications,   \* the changes they ask for
    MaxOrders,       \* bound: how many orders the server ever makes
    MaxOperations    \* bound: how many operations are ever begun

ASSUME OrdersAssumption == MaxOrders \in Nat /\ MaxOperations \in Nat

ASSUME ModificationsAssumption ==
    \A m \in Modifications :
        IsPointer(m.specialRequest) /\ IsPointer(m.stay) /\ IsPointer(m.guests) /\ IsPointer(m.card)

VARIABLES
    status, executed, outcome,   \* the transport's calls: see CallContract
    ask,         \* the operation each goroutine is on, or did last
    reply,       \* the server's answer to it, on its way back
    told,        \* what the service returned from it
    orders,      \* the server: the orders it holds
    known,       \* the order IDs the application has been given
    lost,        \* history: the Create operations that returned an error
    bare,        \* history: those the server answered 2xx without the order
    operations   \* how many operations have begun

callVars == <<status, executed, outcome>>
vars     == <<status, executed, outcome, ask, reply, told, orders, known, lost,
              bare, operations>>

Call == INSTANCE CallContract

NoAsk == [op |-> "none", number |-> 0]

\* bookingres.HotelOrder's zero value, which an absent member decodes to.
ZeroOrder == [id |-> 0, by |-> 0, bookings |-> <<>>]

NoReply == [ok |-> FALSE, data |-> {}, included |-> {}]

Told(kind, order, number) == [kind |-> kind, order |-> order, number |-> number]
Refusal(kind) == Told(kind, ZeroOrder, "")

Init ==
    /\ Call!Init
    /\ ask = [c \in Callers |-> NoAsk]
    /\ reply = [c \in Callers |-> NoReply]
    /\ told = [c \in Callers |-> Refusal("nothing")]
    /\ orders = <<>>
    /\ known = {}
    /\ lost = {}
    /\ bare = {}
    /\ operations = 0

-----------------------------------------------------------------------------
(* The operations, up to the request. *)

\* c begins an operation: a refused one returns at once and sends nothing.
Begin(c, operation, refused) ==
    /\ status[c] # "pending"
    /\ operations < MaxOperations
    /\ operations' = operations + 1
    /\ ask' = [ask EXCEPT ![c] = operation]
    /\ reply' = [reply EXCEPT ![c] = NoReply]
    /\ told' = [told EXCEPT ![c] = Refusal(IF refused THEN "invalid" ELSE "nothing")]
    /\ IF refused THEN UNCHANGED callVars ELSE Call!Begin(c)
    /\ UNCHANGED <<orders, known, lost, bare>>

Create(c, r) ==
    Begin(c, [op |-> "create", number |-> operations + 1,
              body |-> IF Accepts(r) THEN {toRequest(r)} ELSE {}],
          ~Accepts(r))

Get(c, id) ==
    Begin(c, [op |-> "get", number |-> operations + 1, order |-> id], id = 0)

GetByReference(c, reference) ==
    Begin(c, [op |-> "byReference", number |-> operations + 1, order |-> reference],
          reference = 0)

validateIDs(id, booking) == id # 0 /\ booking # 0

Cancel(c, id, booking) ==
    Begin(c, [op |-> "cancel", number |-> operations + 1, order |-> id, booking |-> booking],
          ~validateIDs(id, booking))

Modify(c, id, booking, m) ==
    Begin(c, [op |-> "modify", number |-> operations + 1, order |-> id, booking |-> booking,
              change |-> m],
          ~validateIDs(id, booking) \/ validateModification(m) # {})

Delete(c, id, booking) ==
    Begin(c, [op |-> "delete", number |-> operations + 1, order |-> id, booking |-> booking],
          ~validateIDs(id, booking))

-----------------------------------------------------------------------------
(* External: the order server. *)

Terms(body) ==
    [request    |-> body.rooms[1].request,
     references |-> body.rooms[1].references,
     offer      |-> body.rooms[1].offer,
     checkIn    |-> 1,
     checkOut   |-> 2,
     guests     |-> Cardinality(DOMAIN body.guests),
     rateCode   |-> "RAC",
     card       |-> IF body.payment.card = {} THEN "none"
                    ELSE CHOOSE card \in body.payment.card : TRUE]

\* A booking the hotel has not accepted yet has six dots for a number.
Accepted == [confirmation |-> "C", cancellation |-> ""]
OnRequest == [confirmation |-> "......", cancellation |-> ""]

NewBooking(body, state) ==
    [state    |-> state,
     provider |-> IF state = "CONFIRMED" THEN Accepted ELSE OnRequest,
     terms    |-> Terms(body)]

Reply(c, data, included) ==
    reply' = [reply EXCEPT ![c] = [ok |-> TRUE, data |-> data, included |-> included]]

\* A 2xx body need not have the member the SDK reads its order from.
ReplyData(c, order) == \E data \in {{}, {order}} : Reply(c, data, {})

MakeOrder(c) ==
    /\ ask[c].op = "create"
    /\ Len(orders) < MaxOrders
    /\ \E body \in ask[c].body, state \in {"CONFIRMED", "PENDING"} :
          LET order == [id |-> Len(orders) + 1, by |-> ask[c].number,
                        bookings |-> <<NewBooking(body, state)>>]
          IN  orders' = Append(orders, order) /\ ReplyData(c, order)

Exists(c) == ask[c].order \in DOMAIN orders

ReadOrder(c) ==
    /\ ask[c].op \in {"get", "byReference"}
    /\ Exists(c)
    /\ ReplyData(c, orders[ask[c].order])
    /\ UNCHANGED orders

\* "answers an unknown locator with 200 and an empty element rather than a 404"
UnknownReference(c) ==
    /\ ask[c].op = "byReference"
    /\ ~Exists(c)
    /\ \E data \in {{}, {ZeroOrder}} : Reply(c, data, {})
    /\ UNCHANGED orders

\* The booking c addresses, if it can still be changed.
Changeable(c) ==
    /\ ask[c].op \in {"cancel", "modify", "delete"}
    /\ Exists(c)
    /\ ask[c].booking \in DOMAIN orders[ask[c].order].bookings
    /\ orders[ask[c].order].bookings[ask[c].booking].state \in {"CONFIRMED", "PENDING"}

Put(c, booking) == [orders EXCEPT ![ask[c].order].bookings[ask[c].booking] = booking]

\* A cancelled booking gets the provider's number, or "NONE".
CancelBooking(c) ==
    /\ Changeable(c)
    /\ ask[c].op \in {"cancel", "delete"}
    /\ \E number \in {"X", "NONE"} :
          LET old == orders[ask[c].order].bookings[ask[c].booking] IN
          /\ orders' = Put(c, [old EXCEPT !.provider.cancellation = number,
                               !.state = IF ask[c].op = "cancel" THEN "CANCELLED" ELSE "DELETED"])
          /\ IF ask[c].op = "cancel" THEN ReplyData(c, orders'[ask[c].order])
             ELSE \E included \in {{}, {""}, {number}} : Reply(c, {}, included)

\* A PATCH: what the body leaves out stays as booked.
Patch(terms, body) ==
    [f \in DOMAIN terms |-> IF body[f] = {} THEN terms[f] ELSE CHOOSE v \in body[f] : TRUE]

PatchBooking(c) ==
    /\ Changeable(c)
    /\ ask[c].op = "modify"
    /\ LET old == orders[ask[c].order].bookings[ask[c].booking] IN
       orders' = Put(c, [old EXCEPT !.terms = Patch(@, toUpdateRequest(ask[c].change))])
    /\ LET reference == [ZeroOrder EXCEPT !.id = ask[c].order] IN
       \E included \in {{}, {ZeroOrder}, {orders'[ask[c].order]}} : Reply(c, {reference}, included)

\* Anything else ends in a failure status and changes nothing.
Refuse == UNCHANGED <<reply, orders>>

Execute(c) ==
    /\ Call!Execute(c)
    /\ \/ MakeOrder(c)
       \/ ReadOrder(c)
       \/ UnknownReference(c)
       \/ CancelBooking(c)
       \/ PatchBooking(c)
       \/ Refuse
    /\ bare' = IF ask[c].op = "create" /\ reply'[c].ok /\ reply'[c].data = {}
               THEN bare \cup {ask[c].number} ELSE bare
    /\ UNCHANGED <<ask, told, known, lost, operations>>

-----------------------------------------------------------------------------
(* The operations, from the answer. *)

\* A member the body lacks decodes to the zero value.
Decoded(member) == IF member = {} THEN ZeroOrder ELSE CHOOSE order \in member : TRUE

\* As if the ID were left to the caller.
mapOrder_WithoutID(order) == [id |-> 0, by |-> order.by, bookings |-> order.bookings]

mapOrder(order) == [id |-> order.id, by |-> order.by, bookings |-> order.bookings]

\* As if an array with an element were an answer.
FoundByReference_AnyElement(data) ==
    IF data = {} THEN Refusal("notFound") ELSE Told("order", mapOrder(Decoded(data)), "")

FoundByReference(data) ==
    IF data = {} \/ Decoded(data).id = 0 THEN Refusal("notFound")
    ELSE Told("order", mapOrder(Decoded(data)), "")

\* As if Modify answered like the other operations.
ModifyResult_FromData(r) == Told("order", mapOrder(Decoded(r.data)), "")

\* "Modify is the one endpoint whose updated order arrives under included"
ModifyResult(r) ==
    IF r.included = {} THEN Refusal("error") ELSE Told("order", mapOrder(Decoded(r.included)), "")

\* "Amadeus writes NONE when the provider returned no reference"
DeleteResult(r) ==
    IF r.included = {} THEN Refusal("error")
    ELSE LET number == CHOOSE n \in r.included : TRUE
         IN  Told("deleted", ZeroOrder, IF number = "NONE" THEN "" ELSE number)

Result(op, r) ==
    CASE op \in {"create", "get", "cancel"} -> Told("order", mapOrder(Decoded(r.data)), "")
      [] op = "byReference" -> FoundByReference(r.data)
      [] op = "modify" -> ModifyResult(r)
      [] op = "delete" -> DeleteResult(r)

\* As if an error were a reason to send the reservation again.
Return_ResendsCreate(c) ==
    /\ status[c] = "pending"
    /\ ask[c].op = "create"
    /\ executed' = [executed EXCEPT ![c] = 0]
    /\ reply' = [reply EXCEPT ![c] = NoReply]
    /\ UNCHANGED <<status, outcome, ask, told, orders, known, lost, bare, operations>>

\* Do returns and the operation makes its result of what came back.  A caller
\* persists the ID of an order it is given.
Return(c) ==
    /\ Call!Finish(c)
    /\ outcome'[c] = "ok" => reply[c].ok
    /\ told' = [told EXCEPT ![c] = IF outcome'[c] = "ok" THEN Result(ask[c].op, reply[c])
                                   ELSE Refusal("error")]
    /\ known' = known \cup ({told'[c].order.id} \ {0})
    /\ lost' = IF ask[c].op = "create" /\ outcome'[c] = "error" THEN lost \cup {ask[c].number}
               ELSE lost
    /\ reply' = [reply EXCEPT ![c] = NoReply]
    /\ UNCHANGED <<ask, orders, bare, operations>>

\* Booking.ConfirmationNumber and CancellationNumber: "" when there is none.
ConfirmationNumber(booking) ==
    IF booking.provider.confirmation = "......" THEN "" ELSE booking.provider.confirmation

\* As if any text were a number.
CancellationNumber_Raw(booking) == booking.provider.cancellation

CancellationNumber(booking) ==
    IF booking.provider.cancellation = "NONE" THEN "" ELSE booking.provider.cancellation

BookingIDs == {0, 1}

Operation(c) ==
    \/ \E r \in Drafts : Create(c, r)
    \/ \E id \in known \cup {0, MaxOrders + 1} :
          \/ Get(c, id)
          \/ \E booking \in BookingIDs :
                \/ Cancel(c, id, booking)
                \/ Delete(c, id, booking)
                \/ \E m \in Modifications : Modify(c, id, booking, m)
    \/ \E reference \in 0..MaxOrders : GetByReference(c, reference)

Next == \E c \in Callers : Operation(c) \/ Execute(c) \/ Return(c)

Spec == Init /\ [][Next]_vars

-----------------------------------------------------------------------------
(* Properties. *)

\* One Create is at most one order, whatever was lost on the way: the service
\* never answers an error by sending a reservation again.
NoDoubleBooking == \A i, j \in DOMAIN orders : orders[i].by = orders[j].by => i = j

\* service.go, Create: the returned Order.ID "is the only handle to the
\* booking".  An order nobody has the ID of belongs to a Create that has not
\* returned, that returned an error, or whose 2xx answer did not hold the order:
\* the SDK loses no ID it was sent.  The last of these returns an Order without
\* an ID and no error, so a caller has to look at the ID too.
OrphansAreAccountedFor ==
    \A i \in DOMAIN orders :
        \/ orders[i].id \in known
        \/ orders[i].by \in lost \cup bare
        \/ \E c \in Callers : status[c] = "pending" /\ ask[c].number = orders[i].by

\* service.go, Modify: "Only the fields set on the Modification are sent;
\* everything else is left as booked".  A term of a booking changes only when
\* the server carries out a modification that sets it, so modifications of
\* different fields by different goroutines never undo each other.
LeftAsBooked ==
    [][\A i \in DOMAIN orders : \A b \in DOMAIN orders[i].bookings :
          LET terms == orders[i].bookings[b].terms
          IN  \A f \in DOMAIN terms :
                  orders'[i].bookings[b].terms[f] # terms[f] =>
                      \E c \in Callers :
                          /\ executed[c] = 0 /\ executed'[c] = 1
                          /\ ask[c].op = "modify" /\ ask[c].order = i /\ ask[c].booking = b
                          /\ Wanted(ask[c].change)[f] # {}]_vars

\* Every field the caller set reads as it was set, but for a request cleared
\* with the empty string, and so does every membership he gave, but for those of
\* guests that GuestIDs does not list.
Took(m, terms) ==
    /\ \A f \in DOMAIN terms :
          Wanted(m)[f] \subseteq {terms[f]} \cup IF f = "request" THEN {""} ELSE {}
    /\ \A ref \in WantedMemberships(m) :
          ref \in Range(terms.references) \/ ref.guest \notin Range(m.guestIDs)

\* What an answer without the order decodes to.
IsBlank(order) == order.id = 0 /\ order.bookings = <<>>

\* An operation reported done was done: the order of this Create exists, the
\* booking is cancelled, or gone.  And the order it comes with is about what was
\* asked - the order of this Create, the order looked up, a booking that is
\* cancelled, terms that are the ones wanted - or it is blank: Create, Get,
\* Cancel and Modify return an empty Order and no error for a 2xx answer without
\* one.  GetByReference never does.
SuccessMeansDone ==
    \A c \in Callers :
        LET order   == told[c].order
            Has     == ask[c].booking \in DOMAIN order.bookings
            booking == order.bookings[ask[c].booking]
            Held    == orders[ask[c].order].bookings[ask[c].booking]
        IN  /\ told[c].kind = "order" =>
                  /\ ask[c].op = "create" => \E i \in DOMAIN orders : orders[i].by = ask[c].number
                  /\ ask[c].op = "cancel" => Held.state = "CANCELLED"
                  /\ \/ IsBlank(order) /\ ask[c].op # "byReference"
                     \/ /\ ask[c].op = "create" => order.by = ask[c].number
                        /\ ask[c].op \in {"get", "byReference"} => order.id = ask[c].order
                        /\ ask[c].op = "cancel" => Has /\ booking.state = "CANCELLED"
                        /\ ask[c].op = "modify" => Has /\ Took(ask[c].change, booking.terms)
            /\ told[c].kind = "deleted" => Held.state = "DELETED"

\* Amadeus's placeholders never reach a caller as a hotel's reference.
NoPlaceholderEscapes ==
    \A c \in Callers :
        /\ told[c].number # "NONE"
        /\ \A b \in DOMAIN told[c].order.bookings :
              LET booking == told[c].order.bookings[b]
              IN  /\ ConfirmationNumber(booking) # "......"
                  /\ CancellationNumber(booking) # "NONE"

\* service.go, Modification: "Set it to a pointer to an empty string to clear
\* one".  A modification that clears the request, is reported done and comes with
\* the order did.
ClearedMeansCleared ==
    \A c \in Callers :
        /\ ask[c].op = "modify" /\ told[c].kind = "order" /\ ~IsBlank(told[c].order)
        /\ ask[c].change.specialRequest = {""}
        => told[c].order.bookings[ask[c].booking].terms.request = ""
=============================================================================
