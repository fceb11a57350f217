------------------------------- MODULE Offers --------------------------------
(***************************************************************************)
(* A priced hotel: offersdto/offers.go translated by offers/mapper.go into *)
(* offers/offer.go, and what is shown of it.  Prices are in Prices, rooms  *)
(* in Rooms; the terms of an offer are in Policies.                        *)
(***************************************************************************)
EXTENDS Prices, Rooms, Conversion

CONSTANTS
    OfferIDs,    \* "" among them
    Rates        \* what a conversion rate can be on the wire

ASSUME OfferIDsAssumption == "" \in OfferIDs

-----------------------------------------------------------------------------
(* The wire. *)

ConversionRate == [rate : Rates, target : Currencies, places : Nat]

OfferServiceResponse == [code : Text, copied : Text, price : Optional(PriceResponse)]

OfferCommissionResponse == [amount : AmountTexts, percentage : Text, description : Text]

OfferResponse ==
    [id : OfferIDs, copied : Text, stay : Seq(Nat), adults : Nat, childAges : Seq(Nat),
     loyalty : {"", "true", "false"}, rateFamily : [code : Text, type : Text],
     promotion : Optional(Text), reference : Optional(Text),
     commission : Optional(OfferCommissionResponse), services : Seq(OfferServiceResponse),
     price : PriceResponse, room : RoomResponse,
     roomInformation : Optional(RoomInformationResponse),
     standardizedRoom : Optional(StandardizedRoomResponse)]

\* What an answer says of a hotel at a place, and its offers.
HotelResponse(id, place) ==
    [hotelID |-> id, copied |-> "", latitude |-> 0, longitude |-> place,
     address |-> {}, contact |-> {}]

OffersResponse(hotel, available, offers) ==
    [hotel |-> hotel, available |-> available, offers |-> offers]

-----------------------------------------------------------------------------
(* Mapping. *)

\* A rate that cannot be read, or is zero, is dropped.
mapConversionRates(wire) ==
    LET legible(c) == {r.amount : r \in {a \in {ParseRate(wire[c].rate)} : a.ok /\ ~IsZero(a.amount)}}
        usable     == {c \in DOMAIN wire : legible(c) # {}}
    IN  [c \in usable |-> [rate |-> CHOOSE r \in legible(c) : TRUE, to |-> wire[c].target,
                          places |-> wire[c].places]]

\* offers.mapHotel: an exact 0,0 is taken for an absent position.
pricedHotel(h) ==
    [id |-> h.hotelID, copied |-> h.copied, address |-> h.address, contact |-> h.contact,
     position |-> IF h.latitude = 0 /\ h.longitude = 0 THEN {}
                  ELSE {[latitude |-> h.latitude, longitude |-> h.longitude]}]

mapExtraPrice(p) == mapPrice(p)

mapExtras(wire) ==
    [i \in DOMAIN wire |-> [code |-> wire[i].code, copied |-> wire[i].copied,
                            price |-> {mapExtraPrice(p) : p \in wire[i].price}]]

mapOffer(o) ==
    [id |-> o.id, copied |-> o.copied, stay |-> o.stay,
     guests |-> [adults |-> o.adults, childAges |-> o.childAges],
     isLoyaltyRate |-> o.loyalty = "true",
     rateFamily |-> IF o.rateFamily.code = "" /\ o.rateFamily.type = "" THEN {} ELSE {o.rateFamily},
     promotion |-> o.promotion, reference |-> o.reference,
     commission |-> {[amount |-> ParseMoney(c.amount, o.price.currency),
                      percentage |-> c.percentage,
                      description |-> c.description] : c \in o.commission},
     extras |-> mapExtras(o.services), price |-> mapPrice(o.price), room |-> mapRoom(o.room),
     roomDetails |-> {mapRoomDetails(r) : r \in o.roomInformation},
     standardizedRoom |-> {mapStandardizedRoom(r) : r \in o.standardizedRoom}]

mapOffers(wire) == [i \in DOMAIN wire |-> mapOffer(wire[i])]

\* Every hotel of an answer carries the rates of the answer.
mapHotelOffers(wire, rates) ==
    [i \in DOMAIN wire |->
        [hotel |-> pricedHotel(wire[i].hotel), available |-> wire[i].available,
         offers |-> mapOffers(wire[i].offers), rates |-> rates]]

-----------------------------------------------------------------------------
(* Answers. *)

\* HotelOffers.DisplayTotal, and OfferDetail's.
DisplayTotal(rates, offer) == Display(rates, Payable(offer.price))
=============================================================================
