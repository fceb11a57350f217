-------------------------- MODULE ReservationRules --------------------------
(***************************************************************************)
(* What booking.Create and booking.Modify accept, and what they send       *)
(* (booking/reservation.go, the first half of booking/mapper.go, and the   *)
(* omitempty tags of internal/amadeus/dto/bookingreq).                     *)
(*                                                                         *)
(* Text fields are reduced to the three classes validation tells apart:    *)
(* "" (Go's empty string), "ok" and "bad".  A Go pointer is a set: {} is   *)
(* nil and {x} points to x.  A map from guest IDs is a function.  On the   *)
(* wire, a field that omitempty drops reads "".                            *)
(***************************************************************************)
EXTENDS Integers, Sequences, FiniteSets, Functions

CONSTANTS
    Drafts,             \* the reservations applications draft
    MaxRooms,           \* the most rooms an order can hold
    MaxNameLength,      \* the longest title, first and last name together
    MaxSpecialRequest   \* the longest special request

ASSUME LimitsAssumption ==
    MaxRooms \in Nat /\ MaxNameLength \in Nat /\ MaxSpecialRequest \in Nat

\* A Go pointer: nil, or one value.
IsPointer(p) == \A x, y \in p : x = y

IsSlice(s) == Len(s) \in Nat /\ DOMAIN s = 1..Len(s)

\* Guests, Rooms and GuestIDs are slices, ArrivingAt is a pointer.
ASSUME DraftsAssumption ==
    \A r \in Drafts :
        /\ IsSlice(r.guests)
        /\ IsSlice(r.rooms)
        /\ \A i \in DOMAIN r.rooms :
              IsSlice(r.rooms[i].guestIDs) /\ r.rooms[i].requestLength \in Nat
        /\ \A a \in r.arrival : IsPointer(a.arrivingAt)

Methods == {"CREDIT_CARD", "AGENCY_ACCOUNT", "TRAVEL_AGENT_ID", "VCC_BILLBACK",
            "VCC_B2B_WALLET", "CREDIT_CARD_AGENCY", "CREDIT_CARD_TRAVELER"}

RequiresCard(method) == method \in {"CREDIT_CARD", "CREDIT_CARD_AGENCY", "CREDIT_CARD_TRAVELER"}

-----------------------------------------------------------------------------
(* Validation: the faults found, as <<field, position>>. *)

Fault(field, i, wrong) == IF wrong THEN {<<field, i>>} ELSE {}

GuestFaults(guests, i) ==
    LET guest == guests[i] IN
        Fault("Guests.ID", i, \E j \in 1..(i - 1) : guests[j].id = guest.id)
   \cup Fault("Guests.FirstName", i, guest.firstName # "ok")
   \cup Fault("Guests.LastName", i, guest.lastName # "ok")
   \cup Fault("Guests", i, guest.nameLength > MaxNameLength)
   \cup Fault("Guests.Email", i, guest.email = "bad")
   \cup Fault("Guests.ChildAge", i, \E age \in guest.childAge : age < 0 \/ age > 17)
   \cup Fault("Guests.FrequentTraveler", i, guest.memberships > 1)

validateGuests(guests) ==
    IF guests = <<>> THEN {<<"Guests", 0>>}
    ELSE UNION {GuestFaults(guests, i) : i \in DOMAIN guests}

\* As if seats were looked up in one room at a time.
Occupied_PerRoom(rooms, i, k) ==
    \E l \in 1..(k - 1) : rooms[i].guestIDs[l] = rooms[i].guestIDs[k]

\* Guest room.guestIDs[k] already has a place, in this room or an earlier one.
Occupied(rooms, i, k) ==
    \E j \in 1..i : \E l \in DOMAIN rooms[j].guestIDs :
        /\ j < i \/ l < k
        /\ rooms[j].guestIDs[l] = rooms[i].guestIDs[k]

RoomFaults(rooms, known, i) ==
    LET room == rooms[i] IN
        Fault("Rooms.OfferID", i, room.offer = "")
   \cup Fault("Rooms.GuestIDs", i,
              \/ room.guestIDs = <<>>
              \/ \E k \in DOMAIN room.guestIDs :
                    room.guestIDs[k] \notin known \/ Occupied(rooms, i, k))
   \cup Fault("Rooms.LoyaltyIDs", i, ~(DOMAIN room.loyaltyIDs \subseteq known))
   \cup Fault("Rooms.SpecialRequest", i, room.requestLength > MaxSpecialRequest)

\* As if a guest's ID were its position.
validateRooms_ByPosition(r) ==
    IF r.rooms = <<>> \/ Len(r.rooms) > MaxRooms THEN {<<"Rooms", 0>>}
    ELSE UNION {RoomFaults(r.rooms, DOMAIN r.guests, i) : i \in DOMAIN r.rooms}

validateRooms(r) ==
    IF r.rooms = <<>> \/ Len(r.rooms) > MaxRooms THEN {<<"Rooms", 0>>}
    ELSE UNION {RoomFaults(r.rooms, {r.guests[g].id : g \in DOMAIN r.guests}, i) :
                i \in DOMAIN r.rooms}

\* A number is "", "malformed" (not 14 to 19 digits), "mistyped" (fails Luhn)
\* or "ok".
CardFaults(card) ==
        Fault("Card.VendorCode", 0, card.vendor # "ok")
   \cup Fault("Card.Number", 0, card.number # "ok")
   \cup Fault("Card.Expiry", 0, card.expiry # "ok")
   \cup Fault("Card.SecurityCode", 0, card.securityCode = "bad")
   \cup Fault("Card.HolderName", 0, card.holder = "bad")
   \cup Fault("Card.ThreeDS", 0,
              \E threeDS \in card.threeDS : threeDS.version = "" \/ threeDS.cryptogram = "")

\* As if only one of the three card methods charged a card.
validatePayment_CardByMethodOnly(p) ==
    IF p.method \notin Methods THEN {<<"Payment.Method", 0>>}
    ELSE IF p.method = "CREDIT_CARD" THEN UNION {CardFaults(card) : card \in p.card} ELSE {}

validatePayment(p) ==
    IF p.method \notin Methods THEN {<<"Payment.Method", 0>>}
    ELSE IF RequiresCard(p.method) /\ p.card = {} THEN {<<"Payment.Card", 0>>}
    ELSE (IF RequiresCard(p.method) THEN UNION {CardFaults(card) : card \in p.card} ELSE {})
         \cup Fault("Payment.BillBack", 0,
                    /\ p.method = "VCC_BILLBACK"
                    /\ \/ p.billBack = {}
                       \/ \E b \in p.billBack : b.provider = "" \/ b.account = "")

validate(r) ==
        validateGuests(r.guests)
   \cup validateRooms(r)
   \cup validatePayment(r.payment)
   \cup Fault("Agent.Email", 0, r.agentEmail # "ok")
   \cup Fault("Arrival", 0,
              \E a \in r.arrival : a.carrier = "" \/ a.flight = "" \/ a.departure = "")
   \cup Fault("AddToPNR.Reference", 0, \E pnr \in r.addToPNR : pnr.reference = "")

Accepts(r) == validate(r) = {}

-----------------------------------------------------------------------------
(* The request body. *)

\* room.LoyaltyIDs[id]: the empty string when the map has no such key.
LoyaltyOf(loyaltyIDs, id) == IF id \in DOMAIN loyaltyIDs THEN loyaltyIDs[id] ELSE ""

GuestReferences(ids, loyaltyIDs) ==
    [k \in DOMAIN ids |-> [guest |-> ids[k], loyalty |-> LoyaltyOf(loyaltyIDs, ids[k])]]

\* encoding/json never omits a struct, so a time.Time tagged omitempty is sent
\* even when it is zero.
ZeroTime == "0001-01-01T00:00:00Z"

toFlight(a) ==
    [carrier   |-> a.carrier,
     flight    |-> a.flight,
     departure |-> a.departure,
     arrival   |-> IF a.airport = "" /\ a.terminal = "" /\ a.arrivingAt = {} THEN {}
                   ELSE {[airport  |-> a.airport,
                          terminal |-> a.terminal,
                          at       |-> IF a.arrivingAt = {} THEN ZeroTime
                                       ELSE CHOOSE t \in a.arrivingAt : TRUE]}]

toPayment(p) == [method |-> p.method, card |-> p.card, billBack |-> p.billBack]

\* As if ChildAge were an int: omitempty would drop an infant's 0.
toGuest_DropsInfants(g) ==
    [tid |-> g.id, childAge |-> g.childAge \ {0}, memberships |-> g.memberships]

\* ChildAge stays a pointer on the wire and tid has no omitempty, so an
\* infant's 0 and a guest numbered 0 both survive.
toGuest(g) == [tid |-> g.id, childAge |-> g.childAge, memberships |-> g.memberships]

toRoom(room) ==
    [offer      |-> room.offer,
     references |-> GuestReferences(room.guestIDs, room.loyaltyIDs),
     request    |-> room.request]

toRecord(pnr) ==
    [reference |-> pnr.reference, origin |-> IF pnr.origin = "" THEN "GDS" ELSE pnr.origin]

toRequest(r) ==
    [guests  |-> [i \in DOMAIN r.guests |-> toGuest(r.guests[i])],
     rooms   |-> [i \in DOMAIN r.rooms |-> toRoom(r.rooms[i])],
     payment |-> toPayment(r.payment),
     agent   |-> r.agentEmail,
     arrival |-> {toFlight(a) : a \in r.arrival},
     record  |-> {toRecord(pnr) : pnr \in r.addToPNR}]
=============================================================================
