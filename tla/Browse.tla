------------------------------- MODULE Browse --------------------------------
(***************************************************************************)
(* From a list of hotels to the offer a guest is about to book: the        *)
(* services of inventory, offers and content, one after the other, while   *)
(* Amadeus sells and reprices rooms.  The application passes the property  *)
(* codes of a list on to a search, and the ID of an offer on to Get, "how  *)
(* you re-verify a price immediately before booking".                      *)
(*                                                                         *)
(* A call that its query's validate refuses sends nothing and returns      *)
(* nothing; one that Amadeus or the network fails returns nothing.         *)
(***************************************************************************)
EXTENDS Inventory, Offers, Content, Queries

CONSTANTS
    CityQueries, GeocodeQueries, IDsQueries, KeywordQueries,
    SearchQueries,      \* without hotels: the application takes those it has
    ContentQueries,     \* without a hotel, likewise
    Lists,              \* the lists Hotel List answers with
    Suggestions,        \* the lists Hotel Name Autocomplete answers with
    Offered,            \* the offers hotels come with, their ID blank
    OfferIDOf,          \* the ID of a hotel's offer found in a currency: one of its own
    Dictionaries,       \* of a search's currency, the conversion rates an answer may carry
    Published           \* the contents a hotel can have

ASSUME QueriesAssumption ==
    /\ SearchQueries \subseteq SearchQuery /\ ContentQueries \subseteq ContentQuery
    /\ \A q \in SearchQueries : q.currency \in DOMAIN Dictionaries

ASSUME AnswersAssumption ==
    /\ \A list \in Lists : list \in Seq(InventoryHotel)
    /\ \A list \in Suggestions : list \in Seq(AutocompleteLocation)
    /\ Offered \subseteq OfferResponse
    /\ OfferIDOf \in [HotelIDs -> [DOMAIN Dictionaries -> OfferIDs]]
    /\ \A h, k \in HotelIDs : \A c, d \in DOMAIN Dictionaries :
          OfferIDOf[h][c] = OfferIDOf[k][d] => h = k /\ c = d
    /\ \A c \in DOMAIN Dictionaries : \A wire \in Dictionaries[c] : \A from \in DOMAIN wire :
          wire[from] \in ConversionRate
    /\ Published \subseteq HotelContentResponse

\* External: "the conversion context follows the offer ID".  Rates move and come
\* and go from one answer to the next, but a search and the re-verification of
\* its offers convert a currency to the same one.
ASSUME ConversionAssumption ==
    \A c \in DOMAIN Dictionaries : \A wire, other \in Dictionaries[c] :
        \A from \in DOMAIN wire \cap DOMAIN other : wire[from].target = other[from].target

VARIABLES
    ids,        \* the property codes of the last list
    results,    \* what the last search returned, the currency it asked for and
                \* the rates Amadeus answered with
    detail,     \* what Get last returned since then, and the rates of that answer
    page,       \* the content shown, when it is what was last asked for
    sent,       \* the last request
    stock       \* external: the offer each hotel has left, if any

vars == <<ids, results, detail, page, sent, stock>>

\* A path is the sequence of its segments.
Request(path, params) == {[path |-> path, params |-> params]}

\* The list a call returns replaces the last; failing, it is empty.
Listing(path, params, answers) ==
    /\ sent' = Request(path, params)
    /\ ids' \in answers \union {<<>>}
    /\ results' = {} /\ detail' = {} /\ page' = {}
    /\ UNCHANGED stock

Listed == {IDs(mapHotels(answer)) : answer \in Lists}

-----------------------------------------------------------------------------

Init ==
    /\ ids = <<>>
    /\ results = {} /\ detail = {} /\ page = {} /\ sent = {}
    /\ stock \in [HotelIDs -> {{o} : o \in Offered}]

ByCity ==
    \E q \in CityQueries : CityQueryValid(q) /\ Listing(<<"by-city">>, CityQueryParams(q), Listed)

ByGeocode ==
    \E q \in GeocodeQueries :
        GeocodeQueryValid(q) /\ Listing(<<"by-geocode">>, GeocodeQueryParams(q), Listed)

ByIDs ==
    \E q \in IDsQueries : IDsQueryValid(q) /\ Listing(<<"by-hotels">>, IDsQueryParams(q), Listed)

\* The application goes on with the first suggestion.
ByKeyword ==
    \E q \in KeywordQueries :
        /\ KeywordQueryValid(q)
        /\ Listing(<<"by-keyword">>, KeywordQueryParams(q),
                   {SuggestedIDs(mapSuggestions(answer)[1]) : answer \in Suggestions \ {<<>>}})

\* External: the answer about some hotels; the sold out ones are left out.
Priced(hotels, currency) ==
    LET open == Kept(hotels, {h \in ToSet(hotels) : stock[h] # {}})
    IN  [i \in DOMAIN open |->
            LET offer == CHOOSE o \in stock[open[i]] : TRUE
            IN  OffersResponse(HotelResponse(open[i], i), TRUE,
                               <<[offer EXCEPT !.id = OfferIDOf[open[i]][currency]]>>)]

Search ==
    \E template \in SearchQueries, n \in 0..Len(ids) :
        LET q == [template EXCEPT !.hotelIDs = SubSeq(ids, 1, n)]
            found(wire) == [currency |-> q.currency, dictionary |-> wire,
                            hotels |-> mapHotelOffers(Priced(q.hotelIDs, q.currency), mapConversionRates(wire))]
        IN  /\ SearchQueryValid(q)
            /\ sent' = Request(<<"hotel-offers">>, SearchQueryParams(q))
            /\ results' \in {{}} \union {{found(wire)} : wire \in Dictionaries[q.currency]}
            /\ detail' = {} /\ page' = {}
            /\ UNCHANGED <<ids, stock>>

\* As if the rates were left behind in the search.
Verified_NoRates(mapped) ==
    {[hotel |-> m.hotel, available |-> m.available, offer |-> m.offers[1], rates |-> [c \in {} |-> 0]] :
        m \in {m \in ToSet(mapped) : m.offers # <<>>}}

\* The first offer of the first hotel; an answer without one is ErrNotFound.
Verified(mapped) ==
    {[hotel |-> m.hotel, available |-> m.available, offer |-> m.offers[1], rates |-> m.rates] :
        m \in {m \in ToSet(mapped) : m.offers # <<>>}}

\* Of an ID that a search returned, the last or any other: the application may
\* have kept it.  The request has no currency; the rates are the answer's own.
Get ==
    \E hotel \in HotelIDs, currency \in DOMAIN Dictionaries :
        LET q      == [offerID |-> OfferIDOf[hotel][currency], lang |-> ""]
            priced == Priced(<<hotel>>, currency)
            closed == <<OffersResponse(HotelResponse(hotel, 0), FALSE, <<>>)>>
            answer == IF priced = <<>> THEN closed ELSE priced
            verified(wire) == {[offer |-> v, dictionary |-> wire] :
                                  v \in Verified(mapHotelOffers(answer, mapConversionRates(wire)))}
        IN  /\ GetQueryValid(q)
            /\ sent' = Request(<<"hotel-offers", q.offerID>>, GetQueryParams(q))
            /\ detail' \in {{}} \union {verified(wire) : wire \in Dictionaries[currency]}
            /\ page' = {}
            /\ UNCHANGED <<ids, results, stock>>

Pages == {{[answer |-> c, hotel |-> mapHotel(c)]} : c \in Published}

\* content.Service.Get, before a search or instead of one.
OpenContent ==
    \E template \in ContentQueries, hotel \in ToSet(ids) :
        LET q == [template EXCEPT !.hotelID = hotel] IN
        /\ QueryValid(q)
        /\ sent' = Request(<<"by-hotel">>, QueryParams(q))
        /\ page' \in {{}} \union Pages
        /\ results' = {} /\ detail' = {}
        /\ UNCHANGED <<ids, stock>>

\* External: a hotel reprices its room or sells it.
SellOrReprice ==
    /\ \E hotel \in HotelIDs, left \in {{}} \union {{o} : o \in Offered} :
          stock' = [stock EXCEPT ![hotel] = left]
    /\ UNCHANGED <<ids, results, detail, page, sent>>

Next ==
    \/ ByCity \/ ByGeocode \/ ByIDs \/ ByKeyword
    \/ Search \/ Get \/ OpenContent \/ SellOrReprice

Spec == Init /\ [][Next]_vars

-----------------------------------------------------------------------------
(* Properties. *)

CountParams == {"radius", "adults", "roomQuantity", "max", "checkInDate", "checkOutDate"}

TextParams == {"cityCode", "keyword", "countryCode", "lang", "radiusUnit", "hotelSource", "boardType",
               "paymentPolicy", "currency", "priceRange", "countryOfResidence", "page[offset]",
               "hotelID", "view"}

\* Not the fields of a page: one empty field is sent as an empty parameter (a
\* finding in the README).
ListParams == {"hotelIds", "childAges", "rateCodes", "chainCodes", "amenities", "ratings", "subType"}

\* search.go: "Amadeus rejects empty and zero-valued parameters such as
\* adults=0 or currency="; it rejects a price range with no currency, a stay
\* that ends before it begins, and more hotels than a search or a lookup takes.
\* No call of the four services sends such a request, whatever the application
\* asks, with the codes it has from a list; the fields of a page are the one
\* parameter that may be empty.
SentIsAcceptable ==
    \A r \in sent :
        LET given == DOMAIN r.params IN
        /\ \A p \in given \cap CountParams : r.params[p] > 0
        /\ \A p \in given \cap TextParams : r.params[p] # ""
        /\ \A p \in given \cap ListParams : r.params[p] # <<>>
        /\ "priceRange" \in given => "currency" \in given
        /\ "checkOutDate" \in given => /\ "checkInDate" \in given
                                       /\ r.params["checkOutDate"] > r.params["checkInDate"]
        /\ r.path = <<"hotel-offers">> => Len(r.params["hotelIds"]) <= MaxHotelIDs
        /\ r.path = <<"by-hotels">> => Len(r.params["hotelIds"]) <= MaxListedIDs
        /\ r.path = <<"by-keyword">> => "subType" \in given

\* The rate of an answer for a currency, where one is sent that is legible and
\* not zero.
Usable(dictionary, currency) ==
    {dictionary[c] : c \in {c \in DOMAIN dictionary \cap {currency} :
                               LET parsed == ParseRate(dictionary[c].rate)
                               IN  parsed.ok /\ ~IsZero(parsed.amount)}}

\* The price can be converted at the rates of an answer, if it has any for it.
Convertible(dictionary, m) ==
    \A r \in Usable(dictionary, m.currency) : MulAmount(m.amount, ParseRate(r.rate).amount) # {}

\* service.go: "Keeping it here is what lets the re-verify step show the same
\* currency the search showed".  The price a guest confirms is the figure he
\* chose by, unless the hotel has repriced or the rate has moved; then it is in
\* the currency he chose by, if the hotel quotes in the one it did, both
\* answers had a usable rate for it or neither had, and neither figure is too
\* large to be converted.
ReverifyShowsWhatSearchShowed ==
    \A d \in detail, found \in results : \A i \in DOMAIN found.hotels :
        \A o \in ToSet(found.hotels[i].offers) :
            o.id = d.offer.offer.id =>
                LET quoted   == Payable(o.price)
                    requoted == Payable(d.offer.offer.price)
                    before   == Usable(found.dictionary, quoted.currency)
                    now      == Usable(d.dictionary, requoted.currency)
                    shown    == DisplayTotal(found.hotels[i].rates, o)
                    again    == DisplayTotal(d.offer.rates, d.offer.offer)
                IN  /\ o.price = d.offer.offer.price /\ before = now => again = shown
                    /\ requoted.currency = quoted.currency /\ (before = {} <=> now = {})
                       /\ Convertible(found.dictionary, quoted) /\ Convertible(d.dictionary, requoted)
                          => again.amount.currency = shown.amount.currency

Shown == (UNION {UNION {ToSet(found.hotels[i].offers) : i \in DOMAIN found.hotels} : found \in results})
             \union {d.offer.offer : d \in detail}

\* How many people the fields of an offer let in: a total, or in the details of
\* the room a breakdown with adults and no total.
FieldCapacity(o) ==
    {c.total : c \in UNION {r.maxOccupancy : r \in o.roomDetails \union o.standardizedRoom}}
        \union {c.adults + c.children : c \in {c \in UNION {d.maxOccupancy : d \in o.roomDetails} :
                                                  c.total = 0 /\ c.adults > 0}}

Described(o) == {n \in UNION {UNION {text[p] : p \in Patterns} :
                                 text \in {o.room.description} \union {d.description : d \in o.roomDetails}} :
                    n \in 1..MaxPlausibleCapacity}

\* capacity.go: "Booking a party of four into a room the SDK merely guessed
\* holds four is how a family arrives to find one bed".  A party fits with
\* certainty only where a field lets that many in, and fits at all only where
\* a field or a plausible figure of a description does; where a field says
\* how many, no description has a say.
CapacityIsStated ==
    \A o \in Shown : \A people \in 1..(MaxPlausibleCapacity + 1) :
        LET answer == Accommodates(o, people) IN
        /\ answer.fits /\ answer.certain => \E n \in FieldCapacity(o) : n >= people
        /\ answer.fits /\ ~answer.certain =>
              (\E n \in Described(o) : n >= people) /\ \A n \in FieldCapacity(o) : n < people

HasImage(m) == m.href # "" \/ \E i \in DOMAIN m.scales : m.scales[i].href # ""

HasText(m) == \E t \in m.description : t.text # ""

\* Of the media of a property, each picture is among the photographs and each
\* text without one among the descriptions, a captioned picture included.
MediaAreKept(c, h) ==
    LET pictures == {m \in ToSet(c.basic.media) : HasImage(m)}
        texts    == {m \in ToSet(c.basic.media) : HasText(m) /\ ~HasImage(m)}
    IN  /\ Len(h.media) = Len(Kept(c.basic.media, pictures))
        /\ Len(h.descriptions) = Len(Kept(c.basic.media, texts))
        /\ (PrimaryPhoto(h) # {}) = (pictures # {})

\* A photograph to lead with never renders as an empty address, at any width,
\* unless its only images are renditions of unknown size (a finding in the
\* README).
PhotosHaveAnAddress(h) ==
    \A photo \in PrimaryPhoto(h), width \in Numbers :
        (photo.url # "" \/ \E i \in DOMAIN photo.scales :
                              photo.scales[i].url # ""
                              /\ \E d \in photo.scales[i].dimensions : d.width > 0)
            => Best(photo, width) # ""

\* A property that published any prose has a description, and a venue too;
\* prose filed under a type, or under a tag alone, is found by it.
ProseIsFound(c, h) ==
    /\ \A m \in ToSet(c.basic.media) : \A t \in m.description :
          t.text # "" /\ ~HasImage(m) /\ (t.type # "" \/ m.tags # <<>>) =>
              DescriptionOf(h, IF t.type # "" THEN t.type ELSE m.tags[1]) # {}
    /\ (h.description # {}) =
          (c.basic.description.text # ""
           \/ \E m \in ToSet(c.basic.media) : HasText(m) /\ ~HasImage(m))
    /\ \A f \in h.facilities : \A v \in f.restaurants : \A i \in DOMAIN v.venues :
          LET wire == c.facilities.restaurantInfo.restaurants[i] IN
          (\E m \in ToSet(wire.media) : HasText(m) /\ ~HasImage(m)) => v.venues[i].description # ""

\* A distance shown is one that was published, and none published is nearer.
NearestIsNearest(c, h) ==
    \A i \in DOMAIN h.pointsOfInterest : \A near \in h.pointsOfInterest[i].distance :
        LET published == {d \in ToSet(c.pointOfInterest[i].distance.distances) : d.value # 0} IN
        /\ \E d \in published : Meters(d) = Meters(near)
        /\ \A d \in published : Meters(near) <= Meters(d)

\* What a property publishes is found on its page.
WhatIsPublishedIsFound ==
    \A p \in page :
        /\ MediaAreKept(p.answer, p.hotel) /\ PhotosHaveAnAddress(p.hotel)
        /\ ProseIsFound(p.answer, p.hotel) /\ NearestIsNearest(p.answer, p.hotel)
=============================================================================
