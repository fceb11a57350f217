------------------------------- MODULE Queries -------------------------------
(***************************************************************************)
(* The queries of the three read-only contexts, what each refuses by       *)
(* itself, and the parameters it sends: inventory/query.go,                *)
(* offers/search.go and content/service.go.                                *)
(*                                                                         *)
(* A request is a path and a function from the parameters that are sent to *)
(* their values.  An optional boolean is a set of at most one.             *)
(***************************************************************************)
EXTENDS Geo, SequencesExt

CONSTANTS
    CharsIn,          \* how many characters each text has, "" among them
    Blank,            \* the texts that are only spaces, "" among them
    PropertyCodes,    \* the texts that are eight upper case letters and digits
    RateCodes,        \* the texts that are three of them
    Codes,            \* of each catalog that is checked, the texts it holds (package codes)
    MaxHotelIDs,      \* of one search
    MaxListedIDs      \* maxHotelIDsPerRequest, of one lookup

ASSUME TextAssumption ==
    /\ "" \in Blank /\ Blank \subseteq DOMAIN CharsIn /\ CharsIn[""] = 0
    /\ PropertyCodes \subseteq {t \in DOMAIN CharsIn \ Blank : CharsIn[t] = 8}
    /\ RateCodes \subseteq {t \in DOMAIN CharsIn \ Blank : CharsIn[t] = 3}
    /\ Codes \in [{"amenity", "source", "board", "payment", "view"} -> SUBSET (DOMAIN CharsIn \ Blank)]
    /\ {MaxHotelIDs, MaxListedIDs} \subseteq Nat \ {0}

MaxAdults == 9
MaxRooms == 9
MaxChildAge == 17
MaxRatings == 4
minKeywordLength == 4
maxKeywordLength == 40
maxSuggestionsCap == 20

\* The parameter, where it is set.
Set(name, value, isSet) == [n \in IF isSet THEN {name} ELSE {} |-> value]

\* The parameters that are set as one function; no name is set twice.
Params(sets) ==
    [n \in UNION {DOMAIN f : f \in sets} |-> (CHOOSE f \in sets : n \in DOMAIN f)[n]]

SetText(name, value) == Set(name, value, value # "")

\* A list of texts is joined, and stands here for the text it becomes: one
\* empty text becomes an empty one, as no text does.
Joined(values) == IF values = <<"">> THEN <<>> ELSE values

SetList(name, values) == Set(name, Joined(values), values # <<>>)

SetNumbers(name, values) == Set(name, values, values # <<>>)

SetFlag(name, flag) == Set(name, flag, flag # {})

-----------------------------------------------------------------------------
(* inventory *)

filtersValid(f) ==
    /\ f.radius >= 0
    /\ f.radiusUnit \in {"", "KM", "MILE"}
    /\ ToSet(f.amenities) \subseteq Codes.amenity
    /\ Len(f.ratings) <= MaxRatings /\ ToSet(f.ratings) \subseteq 1..5
    /\ f.source \in Codes.source \union {""}
    /\ \A chain \in ToSet(f.chainCodes) : CharsIn[chain] = 2

\* As if a radius of zero were sent.
apply_ZeroRadius(f) ==
    {Set("radius", f.radius, TRUE), SetText("radiusUnit", f.radiusUnit),
     SetList("chainCodes", f.chainCodes), SetList("amenities", f.amenities),
     SetNumbers("ratings", f.ratings), SetText("hotelSource", f.source)}

apply(f) ==
    {Set("radius", f.radius, f.radius > 0), SetText("radiusUnit", f.radiusUnit),
     SetList("chainCodes", f.chainCodes), SetList("amenities", f.amenities),
     SetNumbers("ratings", f.ratings), SetText("hotelSource", f.source)}

CityQueryValid(q) == CharsIn[q.cityCode] = 3 /\ filtersValid(q.filters)

CityQueryParams(q) == Params({Set("cityCode", q.cityCode, TRUE)} \union apply(q.filters))

GeocodeQueryValid(q) ==
    Validate(q.position) /\ filtersValid(q.filters)

GeocodeQueryParams(q) ==
    Params({Set("latitude", q.position.latitude, TRUE), Set("longitude", q.position.longitude, TRUE)}
           \union apply(q.filters))

IDsQueryValid(q) ==
    /\ Len(q.hotelIDs) \in 1..MaxListedIDs
    /\ ToSet(q.hotelIDs) \subseteq PropertyCodes

IDsQueryParams(q) == Params({Set("hotelIds", Joined(q.hotelIDs), TRUE)})

AllHotelSubTypes == <<"HOTEL_LEISURE", "HOTEL_GDS">>

KeywordQueryValid(q) ==
    /\ CharsIn[q.keyword] \in minKeywordLength..maxKeywordLength
    /\ ToSet(q.subTypes) \subseteq ToSet(AllHotelSubTypes)
    /\ CharsIn[q.countryCode] \in {0, 2} /\ CharsIn[q.language] \in {0, 2}
    /\ q.max \in 0..maxSuggestionsCap

\* Amadeus requires a sub type: all of them where none is asked for.
KeywordQueryParams(q) ==
    Params({Set("keyword", q.keyword, TRUE),
            Set("subType", IF q.subTypes = <<>> THEN AllHotelSubTypes ELSE q.subTypes, TRUE),
            SetText("countryCode", q.countryCode), SetText("lang", q.language),
            Set("max", q.max, q.max > 0)})

-----------------------------------------------------------------------------
(* offers *)

\* Dates are days, 0 is none.
SearchQuery ==
    [hotelIDs : Seq(DOMAIN CharsIn), stay : [checkIn : Nat, checkOut : Nat], adults : Int,
     childAges : Seq(Int), rooms : Int, boardType : DOMAIN CharsIn, rateCodes : Seq(DOMAIN CharsIn),
     paymentPolicy : DOMAIN CharsIn, currency : DOMAIN CharsIn, priceRange : DOMAIN CharsIn,
     country : DOMAIN CharsIn, bestRateOnly : SUBSET BOOLEAN, includeClosed : SUBSET BOOLEAN,
     lang : DOMAIN CharsIn, pageOffset : DOMAIN CharsIn]

StayValid(stay) ==
    /\ stay.checkOut # 0 => stay.checkIn # 0
    /\ stay.checkIn # 0 /\ stay.checkOut # 0 => stay.checkOut > stay.checkIn

SearchQueryValid(q) ==
    /\ Len(q.hotelIDs) \in 1..MaxHotelIDs /\ ToSet(q.hotelIDs) \cap Blank = {}
    /\ StayValid(q.stay)
    /\ q.adults \in 0..MaxAdults /\ ToSet(q.childAges) \subseteq 0..MaxChildAge
    /\ q.rooms \in 0..MaxRooms
    /\ q.boardType \in Codes.board \union {""} /\ q.paymentPolicy \in Codes.payment \union {""}
    /\ ToSet(q.rateCodes) \subseteq RateCodes
    /\ q.priceRange # "" => q.currency # ""

SearchQueryParams(q) ==
    Params({Set("hotelIds", Joined(q.hotelIDs), TRUE),
            Set("checkInDate", q.stay.checkIn, q.stay.checkIn # 0),
            Set("checkOutDate", q.stay.checkOut, q.stay.checkOut # 0),
            Set("adults", q.adults, q.adults > 0), SetNumbers("childAges", q.childAges),
            Set("roomQuantity", q.rooms, q.rooms > 0), SetText("boardType", q.boardType),
            SetList("rateCodes", q.rateCodes), SetText("paymentPolicy", q.paymentPolicy),
            SetText("currency", q.currency), SetText("priceRange", q.priceRange),
            SetText("countryOfResidence", q.country), SetFlag("bestRateOnly", q.bestRateOnly),
            SetFlag("includeClosed", q.includeClosed), SetText("lang", q.lang),
            SetText("page[offset]", q.pageOffset)})

\* The offer's ID is part of the path.
GetQueryValid(q) == q.offerID \notin Blank

GetQueryParams(q) == Params({SetText("lang", q.lang)})

-----------------------------------------------------------------------------
(* content *)

ContentQuery ==
    [hotelID : DOMAIN CharsIn, view : DOMAIN CharsIn, fields : Seq(DOMAIN CharsIn), lang : DOMAIN CharsIn]

QueryValid(q) ==
    /\ q.hotelID \notin Blank /\ CharsIn[q.hotelID] = 8
    /\ q.view \in Codes.view \union {""}

\* Amadeus's own default is a light view; the SDK's is the full one.  The
\* fields are sent as they are: nothing checks them.
QueryParams(q) ==
    Params({Set("hotelID", q.hotelID, TRUE),
            Set("view", IF q.view = "" THEN "FULL" ELSE q.view, TRUE),
            SetList("fields", q.fields), SetText("lang", q.lang)})
=============================================================================
