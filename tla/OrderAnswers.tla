---------------------------- MODULE OrderAnswers ----------------------------
(* What the booking service makes of an order Amadeus answers with:           *)
(* bookingres/response.go translated by booking/mapper.go into booking/       *)
(* order.go. An absent block, a Go nil pointer, is the empty set, a present   *)
(* one a set of one. Absent strings are "". Prices and policies have modules  *)
(* of their own, Prices and Policies.                                         *)
EXTENDS Integers, FiniteSets, SequencesExt

CONSTANTS
    Names,          \* the texts and codes of an answer, other than ""
    Counts          \* the numbers of an answer, 0 when absent

ASSUME ZeroIsACount == Counts \subseteq Nat /\ 0 \in Counts

Text == Names \cup {""}
Optional(S) == { block \in SUBSET S : Cardinality(block) <= 1 }

---------------------------------------------------------------------------
(* The wire *)

Statuses == {"", "CONFIRMED", "PENDING", "ON_HOLD", "CANCELLED", "PAST",
             "UNCONFIRMED", "DENIED", "GHOST", "DELETED"}

HotelProviderInfo ==
    [code : Text, confirmation : Text \cup {"......"}, cancellation : Text \cup {"NONE"},
     onRequest : Text]
GuestReferenceResponse == [guest : Text, loyalty : Text]
RoomAssociation == [offer : Text, guests : Seq(GuestReferenceResponse), request : Text,
                    markup : Optional(Text)]
QualifiedFreeText == [text : Text, lang : Text]
EstimatedRoomType == [category : Text, beds : Counts, bedType : Text]
RoomResponse == [type : Text, description : Optional(QualifiedFreeText),
                 estimated : Optional(EstimatedRoomType)]
CapacityResponse == [adults : Counts, children : Counts, total : Counts]
RoomInformation ==
    [id : Text, type : Text, name : Optional(QualifiedFreeText),
     description : Optional(QualifiedFreeText), category : Text, bedType : Text,
     beds : Counts, capacity : Optional(CapacityResponse)]
OfferService == [code : Text, chargeable : BOOLEAN, quantity : Counts, price : Optional(Text)]
CommissionResponse == [amount : Text, percentage : Text, description : Optional(QualifiedFreeText)]
HotelOffer ==
    [id : Text, checkIn : Text, checkOut : Text, quantity : Counts,
     guests : Optional([adults : Counts, ages : Seq(Counts)]),
     rateFamily : Optional([code : Text, type : Text]),
     price : Optional([currency : Text, total : Text]), policies : Optional(Text),
     room : Optional(RoomResponse), information : Optional(RoomInformation),
     commission : Optional(CommissionResponse), services : Seq(OfferService)]
PaymentCardOutput == [vendor : Text, number : Text, expiry : Text, holder : Text]
PaymentOutput ==
    [method : Text, instructions : Text, iata : Optional(Text), supplier : Optional(Text),
     card : Optional(PaymentCardOutput), wallet : Optional([card : Text, provider : Text])]
ArrivalFlight ==
    [carrier : Text, number : Text, departure : Optional(Text),
     arrival : Optional([iata : Text, terminal : Text, at : Counts])]
HotelResponse == [id : Text, name : Text, chain : Text, terms : Text]
HotelBooking ==
    [id : Text, status : Statuses, providers : Seq(HotelProviderInfo),
     rooms : Seq(RoomAssociation), offer : HotelOffer, hotel : HotelResponse,
     agent : Text, payment : Optional(PaymentOutput), arrival : Optional(Optional(ArrivalFlight))]
ResponseGuest == [id : Counts, tid : Counts, first : Text, last : Text, childAge : Counts]
AssociatedRecord == [reference : Text, origin : Text]
HotelOrder ==
    [id : Text, bookings : Seq(HotelBooking), guests : Seq(ResponseGuest),
     records : Seq(AssociatedRecord)]

---------------------------------------------------------------------------
(* booking/mapper.go *)

map(f(_), s) == [i \in DOMAIN s |-> f(s[i])]
each(f(_), block) == { f(x) : x \in block }

mapQualifiedText(block) == { t \in block : t.text # "" }
textValue(block) == IF block = {} THEN "" ELSE (CHOOSE t \in block : TRUE).text

mapOccupancy(c) == [adults |-> c.adults, children |-> c.children, total |-> c.total]
mapRoomDetails(r) ==
    [id |-> r.id, type |-> r.type, name |-> mapQualifiedText(r.name),
     description |-> textValue(r.description), category |-> r.category,
     bedType |-> r.bedType, beds |-> r.beds, occupancy |-> each(mapOccupancy, r.capacity)]

NoRoom == [type |-> "", category |-> "", beds |-> 0, bedType |-> "", description |-> {},
           details |-> {}]
mapRoom(r) ==
    LET estimated == IF r.estimated = {} THEN [category |-> "", beds |-> 0, bedType |-> ""]
                     ELSE CHOOSE e \in r.estimated : TRUE
    IN [NoRoom EXCEPT !.type = r.type, !.description = mapQualifiedText(r.description),
                      !.category = estimated.category, !.beds = estimated.beds,
                      !.bedType = estimated.bedType]

(* The room block is deprecated: the information block makes a room of its    *)
(* own when it comes without one.                                             *)
bookedRoom(o) ==
    LET rooms == each(mapRoom, o.room)
    IN IF o.information = {} THEN rooms
       ELSE { [r EXCEPT !.details = each(mapRoomDetails, o.information)] :
              r \in IF rooms = {} THEN {NoRoom} ELSE rooms }

offerCurrency(o) == IF o.price = {} THEN "" ELSE (CHOOSE p \in o.price : TRUE).currency
mapExtra(s) == [code |-> s.code, chargeable |-> s.chargeable, quantity |-> s.quantity,
                price |-> s.price]
mapCommission(currency, c) ==
    [amount |-> <<c.amount, currency>>, percentage |-> c.percentage,
     description |-> mapQualifiedText(c.description)]
mapBookedOffer(o) ==
    [id |-> o.id, stay |-> <<o.checkIn, o.checkOut>>, quantity |-> o.quantity,
     guests |-> IF o.guests = {} THEN [adults |-> 0, ages |-> <<>>]
                ELSE CHOOSE g \in o.guests : TRUE,
     rateFamily |-> o.rateFamily, price |-> o.price, policies |-> o.policies,
     room |-> bookedRoom(o),
     commission |-> { mapCommission(offerCurrency(o), c) : c \in o.commission },
     extras |-> map(mapExtra, o.services)]

mapPaymentSummary(p) ==
    [method |-> p.method, instructions |-> p.instructions,
     iata |-> IF p.iata = {} THEN "" ELSE CHOOSE n \in p.iata : TRUE,
     supplier |-> p.supplier,
     card |-> { [vendor |-> c.vendor, masked |-> c.number, expiry |-> c.expiry,
                 holder |-> c.holder] : c \in p.card },
     virtualCard |-> { [reference |-> w.card, provider |-> w.provider] : w \in p.wallet }]

mapArrival(f) ==
    LET landing == IF f.arrival = {} THEN [iata |-> "", terminal |-> "", at |-> 0]
                   ELSE CHOOSE a \in f.arrival : TRUE
    IN [carrier |-> f.carrier, number |-> f.number,
        from |-> IF f.departure = {} THEN "" ELSE CHOOSE d \in f.departure : TRUE,
        to |-> landing.iata, terminal |-> landing.terminal,
        at |-> IF landing.at = 0 THEN {} ELSE {landing.at}]

mapAssociation(a) ==
    [offer |-> a.offer, request |-> a.request, markup |-> a.markup,
     guests |-> map(LAMBDA g : [guest |-> g.guest, loyalty |-> g.loyalty], a.guests)]
mapProvider(p) ==
    [code |-> p.code, confirmation |-> p.confirmation, cancellation |-> p.cancellation,
     onRequest |-> p.onRequest]
mapBooking(b) ==
    [id |-> b.id, status |-> b.status, providers |-> map(mapProvider, b.providers),
     rooms |-> map(mapAssociation, b.rooms), offer |-> mapBookedOffer(b.offer),
     hotel |-> b.hotel, agent |-> b.agent, payment |-> each(mapPaymentSummary, b.payment),
     arrival |-> UNION { each(mapArrival, f) : f \in b.arrival }]
mapGuest(g) == [id |-> g.id, tempID |-> g.tid, first |-> g.first, last |-> g.last,
                childAge |-> g.childAge]
mapRecord(r) == [reference |-> r.reference, origin |-> r.origin]
mapOrder(o) ==
    [id |-> o.id, bookings |-> map(mapBooking, o.bookings),
     guests |-> map(mapGuest, o.guests), records |-> map(mapRecord, o.records)]

(* What an answer without data decodes to.                                    *)
NoOrder == [id |-> "", bookings |-> <<>>, guests |-> <<>>, records |-> <<>>]

---------------------------------------------------------------------------
(* booking/order.go *)

IsActive(status) == status \in {"CONFIRMED", "ON_HOLD", "PAST"}

(* As if an order without bookings had nothing left to confirm.               *)
IsConfirmed_Vacuous(order) == \A i \in DOMAIN order.bookings : IsActive(order.bookings[i].status)
IsConfirmed(order) ==
    /\ order.bookings # <<>>
    /\ \A i \in DOMAIN order.bookings : IsActive(order.bookings[i].status)

(* The first record locator there is: none or one.                            *)
Reference(order) ==
    LET at == { i \in DOMAIN order.records : order.records[i].reference # "" }
    IN { order.records[i].reference : i \in { i \in at : \A j \in at : i <= j } }
=============================================================================
