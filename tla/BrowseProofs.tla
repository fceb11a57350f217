---------------------------- MODULE BrowseProofs -----------------------------
(***************************************************************************)
(* What is proved of the read-only contexts, whatever the application asks *)
(* and whatever Amadeus publishes, sells and reprices in between.          *)
(***************************************************************************)
EXTENDS Browse, ListLemmas

-----------------------------------------------------------------------------
(* Requests. *)

\* The parameter has a value Amadeus accepts.
AcceptableAs(name, value) ==
    /\ name \in CountParams => value > 0
    /\ name \in TextParams => value # ""
    /\ name \in ListParams => value # <<>>

Acceptable(f) == \A n \in DOMAIN f : AcceptableAs(n, f[n])

\* A parameter that is set under a condition has its value where it is set.
LEMMA SetIsConditional ==
    ASSUME NEW name, NEW value, NEW isSet
    PROVE  /\ DOMAIN Set(name, value, isSet) = IF isSet THEN {name} ELSE {}
           /\ isSet => Set(name, value, isSet)[name] = value
           /\ (isSet => AcceptableAs(name, value)) => Acceptable(Set(name, value, isSet))
<1> DEFINE D == IF isSet THEN {name} ELSE {}
           f == [n \in D |-> value]
<1>1. Set(name, value, isSet) = f
  BY DEF Set
<1>2. DOMAIN f = D /\ \A n \in D : f[n] = value /\ n = name /\ isSet
  OBVIOUS
<1>3. isSet => name \in D
  OBVIOUS
<1>4. (isSet => AcceptableAs(name, value)) => Acceptable(f)
  <2> HIDE DEF f, D
  <2> QED
    BY <1>2 DEF Acceptable
<1> HIDE DEF f
<1> QED
  BY <1>1, <1>2, <1>3, <1>4

LEMMA OnlyElement ==
    ASSUME NEW e PROVE e \in ToSet(<<e>>)
<1>1. 1 \in DOMAIN <<e>> /\ <<e>>[1] = e
  OBVIOUS
<1> QED
  BY <1>1 DEF ToSet

\* A list without an empty text is not joined to one.
LEMMA JoinedKeeps ==
    ASSUME NEW values, "" \notin ToSet(values) PROVE Joined(values) = values
<1>1. values # <<"">>
  BY OnlyElement
<1> QED
  BY <1>1 DEF Joined

\* An optional text or list is sent only if it is not empty.
LEMMA EmptyIsNotSent ==
    ASSUME NEW name, name \notin CountParams
    PROVE  /\ name \notin ListParams => \A value : Acceptable(SetText(name, value))
           /\ name \notin TextParams => \A value : Acceptable(SetNumbers(name, value))
           /\ name \notin TextParams =>
                 \A value : name \notin ListParams \/ "" \notin ToSet(value) => Acceptable(SetList(name, value))
<1>1. ASSUME NEW value, name \notin ListParams PROVE Acceptable(SetText(name, value))
  <2>1. value # "" => AcceptableAs(name, value)
    BY <1>1 DEF AcceptableAs
  <2> QED
    BY <2>1, SetIsConditional DEF SetText
<1>2. ASSUME NEW value, name \notin TextParams PROVE Acceptable(SetNumbers(name, value))
  <2>1. value # <<>> => AcceptableAs(name, value)
    BY <1>2 DEF AcceptableAs
  <2> QED
    BY <2>1, SetIsConditional DEF SetNumbers
<1>3. ASSUME NEW value, name \notin TextParams, name \notin ListParams \/ "" \notin ToSet(value)
      PROVE  Acceptable(SetList(name, value))
  <2>1. name \in ListParams => Joined(value) = value
    BY <1>3, JoinedKeeps
  <2>2. value # <<>> => AcceptableAs(name, Joined(value))
    BY <1>3, <2>1 DEF AcceptableAs
  <2> QED
    BY <2>2, SetIsConditional DEF SetList
<1> QED
  BY <1>1, <1>2, <1>3

\* The parameters of a request are those that are set, with a value they are
\* set to.
LEMMA ParamsAreThoseSet ==
    ASSUME NEW sets
    PROVE  /\ \A n : n \in DOMAIN Params(sets) <=> \E f \in sets : n \in DOMAIN f
           /\ \A n \in DOMAIN Params(sets) : \E f \in sets : n \in DOMAIN f /\ Params(sets)[n] = f[n]
<1> DEFINE D == UNION {DOMAIN f : f \in sets}
           Setter(n) == CHOOSE f \in sets : n \in DOMAIN f
<1>1. Params(sets) = [n \in D |-> Setter(n)[n]]
  BY DEF Params
<1>2. DOMAIN Params(sets) = D
  BY <1>1
<1>3. \A n : n \in D <=> \E f \in sets : n \in DOMAIN f
  OBVIOUS
<1>4. ASSUME NEW n \in D PROVE Setter(n) \in sets /\ n \in DOMAIN Setter(n)
  BY <1>3
<1>5. ASSUME NEW n \in D PROVE Params(sets)[n] = Setter(n)[n]
  <2> HIDE DEF D, Setter
  <2> QED
    BY <1>1
<1> HIDE DEF D, Setter
<1> QED
  BY <1>2, <1>3, <1>4, <1>5

LEMMA ParamsAcceptable ==
    ASSUME NEW sets, \A f \in sets : Acceptable(f)
    PROVE  Acceptable(Params(sets))
BY ParamsAreThoseSet DEF Acceptable

\* A text with characters is not empty.
LEMMA CharactersTell ==
    ASSUME NEW t, CharsIn[t] # 0 PROVE t # ""
<1>1. CharsIn[""] = 0
  BY TextAssumption
<1>2. ASSUME t = "" PROVE CharsIn[t] = 0
  BY <1>1, <1>2
<1> QED
  BY <1>2

\* No code is empty.
LEMMA CodesAreNotEmpty ==
    /\ "" \notin PropertyCodes /\ "" \notin RateCodes /\ "" \notin Codes.amenity
    /\ MaxHotelIDs \in Nat /\ MaxListedIDs \in Nat
<1>1. "" \in Blank /\ PropertyCodes \cap Blank = {} /\ RateCodes \cap Blank = {}
  BY TextAssumption
<1>2. Codes.amenity \cap Blank = {}
  BY TextAssumption
<1>3. MaxHotelIDs \in Nat /\ MaxListedIDs \in Nat
  BY TextAssumption
<1> QED
  BY <1>1, <1>2, <1>3

\* The filters of a list of hotels.
LEMMA FiltersAcceptable ==
    ASSUME NEW f, filtersValid(f) PROVE \A g \in apply(f) : Acceptable(g)
<1>1. Acceptable(Set("radius", f.radius, f.radius > 0))
  <2>1. f.radius > 0 => AcceptableAs("radius", f.radius)
    BY DEF AcceptableAs, CountParams, TextParams, ListParams
  <2> QED
    BY <2>1, SetIsConditional
<1>2. Acceptable(SetText("radiusUnit", f.radiusUnit)) /\ Acceptable(SetText("hotelSource", f.source))
  BY EmptyIsNotSent DEF CountParams, TextParams, ListParams
<1>3. /\ Acceptable(SetList("chainCodes", f.chainCodes)) /\ Acceptable(SetList("amenities", f.amenities))
      /\ Acceptable(SetNumbers("ratings", f.ratings))
  <2>1. "" \notin ToSet(f.chainCodes)
    <3>1. \A chain \in ToSet(f.chainCodes) : CharsIn[chain] = 2
      BY DEF filtersValid
    <3>2. 2 # 0
      OBVIOUS
    <3>3. \A chain \in ToSet(f.chainCodes) : CharsIn[chain] # 0
      BY <3>1, <3>2
    <3> QED
      BY <3>3, CharactersTell
  <2>2. "" \notin ToSet(f.amenities)
    BY CodesAreNotEmpty DEF filtersValid
  <2> QED
    BY <2>1, <2>2, EmptyIsNotSent DEF CountParams, TextParams, ListParams
<1> QED
  BY <1>1, <1>2, <1>3 DEF apply

\* The lookups of hotels.
LEMMA ListingsAcceptable ==
    /\ \A q : CityQueryValid(q) => Acceptable(CityQueryParams(q))
    /\ \A q : GeocodeQueryValid(q) => Acceptable(GeocodeQueryParams(q))
    /\ \A q : IDsQueryValid(q) => /\ Acceptable(IDsQueryParams(q))
                                  /\ Len(IDsQueryParams(q)["hotelIds"]) <= MaxListedIDs
    /\ \A q : KeywordQueryValid(q) =>
          Acceptable(KeywordQueryParams(q)) /\ "subType" \in DOMAIN KeywordQueryParams(q)
<1>1. ASSUME NEW q, CityQueryValid(q) PROVE Acceptable(CityQueryParams(q))
  <2>1. q.cityCode # ""
    <3>1. CharsIn[q.cityCode] # 0
      BY <1>1 DEF CityQueryValid
    <3> QED
      BY <3>1, CharactersTell
  <2>2. AcceptableAs("cityCode", q.cityCode)
    BY <2>1 DEF AcceptableAs, CountParams, TextParams, ListParams
  <2>3. Acceptable(Set("cityCode", q.cityCode, TRUE))
    BY <2>2, SetIsConditional
  <2>4. \A f \in {Set("cityCode", q.cityCode, TRUE)} \union apply(q.filters) : Acceptable(f)
    BY <1>1, <2>3, FiltersAcceptable DEF CityQueryValid
  <2> QED
    BY <2>4, ParamsAcceptable DEF CityQueryParams
<1>2. ASSUME NEW q, GeocodeQueryValid(q) PROVE Acceptable(GeocodeQueryParams(q))
  <2> DEFINE latitude == Set("latitude", q.position.latitude, TRUE)
             longitude == Set("longitude", q.position.longitude, TRUE)
  <2>1. \A value : AcceptableAs("latitude", value) /\ AcceptableAs("longitude", value)
    BY DEF AcceptableAs, CountParams, TextParams, ListParams
  <2>2. Acceptable(latitude) /\ Acceptable(longitude)
    BY <2>1, SetIsConditional
  <2> HIDE DEF latitude, longitude
  <2>3. \A f \in {latitude, longitude} \union apply(q.filters) : Acceptable(f)
    BY <1>2, <2>2, FiltersAcceptable DEF GeocodeQueryValid
  <2>4. Acceptable(Params({latitude, longitude} \union apply(q.filters)))
    BY <2>3, ParamsAcceptable
  <2> QED
    BY <2>4 DEF GeocodeQueryParams, latitude, longitude
<1>3. ASSUME NEW q, IDsQueryValid(q)
      PROVE  Acceptable(IDsQueryParams(q)) /\ Len(IDsQueryParams(q)["hotelIds"]) <= MaxListedIDs
  <2> DEFINE hotels == Set("hotelIds", q.hotelIDs, TRUE)
  <2>1. Len(q.hotelIDs) \in 1..MaxListedIDs /\ MaxListedIDs \in Nat
    BY <1>3, CodesAreNotEmpty DEF IDsQueryValid
  <2>2. q.hotelIDs # <<>>
    <3>1. Len(q.hotelIDs) # 0
      BY <2>1
    <3> QED
      BY <3>1
  <2>3. "" \notin ToSet(q.hotelIDs)
    BY <1>3, CodesAreNotEmpty DEF IDsQueryValid
  <2>4. IDsQueryParams(q) = Params({hotels})
    BY <2>3, JoinedKeeps DEF IDsQueryParams
  <2>5. AcceptableAs("hotelIds", q.hotelIDs)
    BY <2>2 DEF AcceptableAs, CountParams, TextParams, ListParams
  <2>6. Acceptable(hotels) /\ DOMAIN hotels = {"hotelIds"} /\ hotels["hotelIds"] = q.hotelIDs
    BY <2>5, SetIsConditional
  <2> HIDE DEF hotels
  <2>7. Acceptable(Params({hotels}))
    BY <2>6, ParamsAcceptable
  <2>8. Params({hotels})["hotelIds"] = q.hotelIDs
    <3>1. "hotelIds" \in DOMAIN Params({hotels})
      BY <2>6, ParamsAreThoseSet
    <3>2. \E f \in {hotels} : Params({hotels})["hotelIds"] = f["hotelIds"]
      BY <3>1, ParamsAreThoseSet
    <3> QED
      BY <2>6, <3>2
  <2>9. Len(q.hotelIDs) <= MaxListedIDs
    BY <2>1
  <2> QED
    BY <2>4, <2>7, <2>8, <2>9
<1>4. ASSUME NEW q, KeywordQueryValid(q)
      PROVE  Acceptable(KeywordQueryParams(q)) /\ "subType" \in DOMAIN KeywordQueryParams(q)
  <2> DEFINE types == IF q.subTypes = <<>> THEN AllHotelSubTypes ELSE q.subTypes
             keyword == Set("keyword", q.keyword, TRUE)
             subType == Set("subType", types, TRUE)
             country == SetText("countryCode", q.countryCode)
             lang == SetText("lang", q.language)
             max == Set("max", q.max, q.max > 0)
  <2>1. q.keyword # ""
    <3>1. CharsIn[q.keyword] # 0
      BY <1>4 DEF KeywordQueryValid, minKeywordLength, maxKeywordLength
    <3> QED
      BY <3>1, CharactersTell
  <2>2. AcceptableAs("keyword", q.keyword)
    BY <2>1 DEF AcceptableAs, CountParams, TextParams, ListParams
  <2>3. types # <<>>
    BY DEF AllHotelSubTypes
  <2> HIDE DEF types
  <2>4. AcceptableAs("subType", types)
    BY <2>3 DEF AcceptableAs, CountParams, TextParams, ListParams
  <2>5. q.max > 0 => AcceptableAs("max", q.max)
    BY DEF AcceptableAs, CountParams, TextParams, ListParams
  <2>6. Acceptable(keyword) /\ Acceptable(subType) /\ Acceptable(max) /\ DOMAIN subType = {"subType"}
    BY <2>2, <2>4, <2>5, SetIsConditional
  <2>7. Acceptable(country) /\ Acceptable(lang)
    BY EmptyIsNotSent DEF CountParams, TextParams, ListParams
  <2> HIDE DEF keyword, subType, country, lang, max
  <2> DEFINE sets == {keyword, subType, country, lang, max}
  <2>8. (\A f \in sets : Acceptable(f)) /\ subType \in sets /\ "subType" \in DOMAIN subType
    BY <2>6, <2>7
  <2>9. KeywordQueryParams(q) = Params(sets)
    BY DEF KeywordQueryParams, keyword, subType, country, lang, max, types
  <2> HIDE DEF sets
  <2> QED
    BY <2>8, <2>9, ParamsAcceptable, ParamsAreThoseSet
<1> QED
  BY <1>1, <1>2, <1>3, <1>4

\* A search whose query is valid: what it sends, and that its range of prices
\* has a currency and its stay ends after it begins.
LEMMA SearchAcceptable ==
    ASSUME NEW q, SearchQueryValid(q), q.stay.checkIn \in Nat, q.stay.checkOut \in Nat
    PROVE  LET params == SearchQueryParams(q)
               given  == DOMAIN params
           IN  /\ Acceptable(params)
               /\ "priceRange" \in given => "currency" \in given
               /\ "checkOutDate" \in given => /\ "checkInDate" \in given
                                              /\ params["checkOutDate"] > params["checkInDate"]
               /\ params["hotelIds"] = q.hotelIDs
<1> DEFINE hotels == Set("hotelIds", q.hotelIDs, TRUE)
           checkIn == Set("checkInDate", q.stay.checkIn, q.stay.checkIn # 0)
           checkOut == Set("checkOutDate", q.stay.checkOut, q.stay.checkOut # 0)
           adults == Set("adults", q.adults, q.adults > 0)
           ages == SetNumbers("childAges", q.childAges)
           rooms == Set("roomQuantity", q.rooms, q.rooms > 0)
           board == SetText("boardType", q.boardType)
           codes == SetList("rateCodes", q.rateCodes)
           payment == SetText("paymentPolicy", q.paymentPolicy)
           currency == SetText("currency", q.currency)
           range == SetText("priceRange", q.priceRange)
           country == SetText("countryOfResidence", q.country)
           best == SetFlag("bestRateOnly", q.bestRateOnly)
           closed == SetFlag("includeClosed", q.includeClosed)
           lang == SetText("lang", q.lang)
           place == SetText("page[offset]", q.pageOffset)
           sets == {hotels, checkIn, checkOut, adults, ages, rooms, board, codes, payment, currency,
                    range, country, best, closed, lang, place}
<1>1. SearchQueryParams(q) = Params(sets)
  <2>1. "" \notin ToSet(q.hotelIDs)
    BY TextAssumption DEF SearchQueryValid
  <2>2. Joined(q.hotelIDs) = q.hotelIDs
    BY <2>1, JoinedKeeps
  <2> QED
    BY <2>2 DEF SearchQueryParams
<1>2. Len(q.hotelIDs) \in 1..MaxHotelIDs /\ MaxHotelIDs \in Nat
  <2>1. MaxHotelIDs \in Nat
    BY TextAssumption
  <2> QED
    BY <2>1 DEF SearchQueryValid
<1>3. Acceptable(hotels) /\ DOMAIN hotels = {"hotelIds"} /\ hotels["hotelIds"] = q.hotelIDs
  <2>1. \A n \in 1..MaxHotelIDs : n # 0
    BY <1>2
  <2>2. Len(q.hotelIDs) # 0
    BY <1>2, <2>1
  <2>3. q.hotelIDs # <<>>
    BY <2>2
  <2>4. AcceptableAs("hotelIds", q.hotelIDs)
    BY <2>3 DEF AcceptableAs, CountParams, TextParams, ListParams
  <2> QED
    BY <2>4, SetIsConditional
<1>4. /\ Acceptable(checkIn)
      /\ DOMAIN checkIn = IF q.stay.checkIn # 0 THEN {"checkInDate"} ELSE {}
      /\ q.stay.checkIn # 0 => checkIn["checkInDate"] = q.stay.checkIn
  <2>1. q.stay.checkIn # 0 => AcceptableAs("checkInDate", q.stay.checkIn)
    BY DEF AcceptableAs, CountParams, TextParams, ListParams
  <2> QED
    BY <2>1, SetIsConditional
<1>5. /\ Acceptable(checkOut)
      /\ DOMAIN checkOut = IF q.stay.checkOut # 0 THEN {"checkOutDate"} ELSE {}
      /\ q.stay.checkOut # 0 => checkOut["checkOutDate"] = q.stay.checkOut
  <2>1. q.stay.checkOut # 0 => AcceptableAs("checkOutDate", q.stay.checkOut)
    BY DEF AcceptableAs, CountParams, TextParams, ListParams
  <2> QED
    BY <2>1, SetIsConditional
<1>6. /\ Acceptable(adults) /\ Acceptable(rooms)
      /\ DOMAIN adults \subseteq {"adults"} /\ DOMAIN rooms \subseteq {"roomQuantity"}
  <2>1. /\ q.adults > 0 => AcceptableAs("adults", q.adults)
        /\ q.rooms > 0 => AcceptableAs("roomQuantity", q.rooms)
    BY DEF AcceptableAs, CountParams, TextParams, ListParams
  <2> QED
    BY <2>1, SetIsConditional
<1>7. /\ Acceptable(ages) /\ Acceptable(codes)
      /\ DOMAIN ages \subseteq {"childAges"} /\ DOMAIN codes \subseteq {"rateCodes"}
  <2>1. Acceptable(ages) /\ Acceptable(codes)
    <3>1. "" \notin ToSet(q.rateCodes)
      BY CodesAreNotEmpty DEF SearchQueryValid
    <3> QED
      BY <3>1, EmptyIsNotSent DEF CountParams, TextParams, ListParams
  <2>2. DOMAIN ages \subseteq {"childAges"} /\ DOMAIN codes \subseteq {"rateCodes"}
    BY SetIsConditional DEF SetList, SetNumbers
  <2> QED
    BY <2>1, <2>2
<1>8. /\ \A f \in {board, payment, currency, range, country, lang, place} : Acceptable(f)
      /\ DOMAIN board \subseteq {"boardType"} /\ DOMAIN payment \subseteq {"paymentPolicy"}
      /\ DOMAIN currency = IF q.currency # "" THEN {"currency"} ELSE {}
      /\ DOMAIN range = IF q.priceRange # "" THEN {"priceRange"} ELSE {}
      /\ DOMAIN country \subseteq {"countryOfResidence"} /\ DOMAIN lang \subseteq {"lang"}
      /\ DOMAIN place \subseteq {"page[offset]"}
  <2>1. \A f \in {board, payment, currency, range, country, lang, place} : Acceptable(f)
    BY EmptyIsNotSent DEF CountParams, TextParams, ListParams
  <2>2. /\ DOMAIN currency = IF q.currency # "" THEN {"currency"} ELSE {}
        /\ DOMAIN range = IF q.priceRange # "" THEN {"priceRange"} ELSE {}
    BY SetIsConditional DEF SetText
  <2>3. /\ DOMAIN board \subseteq {"boardType"} /\ DOMAIN payment \subseteq {"paymentPolicy"}
        /\ DOMAIN country \subseteq {"countryOfResidence"} /\ DOMAIN lang \subseteq {"lang"}
        /\ DOMAIN place \subseteq {"page[offset]"}
    BY SetIsConditional DEF SetText
  <2> QED
    BY <2>1, <2>2, <2>3
<1>9. /\ Acceptable(best) /\ Acceptable(closed)
      /\ DOMAIN best \subseteq {"bestRateOnly"} /\ DOMAIN closed \subseteq {"includeClosed"}
  <2>1. \A value : AcceptableAs("bestRateOnly", value) /\ AcceptableAs("includeClosed", value)
    BY DEF AcceptableAs, CountParams, TextParams, ListParams
  <2> QED
    BY <2>1, SetIsConditional DEF SetFlag
<1>10. \A f \in sets : Acceptable(f)
  <2> HIDE DEF hotels, checkIn, checkOut, adults, ages, rooms, board, codes, payment, currency,
               range, country, best, closed, lang, place
  <2> QED
    BY <1>3, <1>4, <1>5, <1>6, <1>7, <1>8, <1>9
\* One name is set by one of them.
<1>11. \A f \in sets : /\ "hotelIds" \in DOMAIN f => f = hotels
                       /\ "checkInDate" \in DOMAIN f => f = checkIn
                       /\ "checkOutDate" \in DOMAIN f => f = checkOut
                       /\ "currency" \in DOMAIN f => f = currency
                       /\ "priceRange" \in DOMAIN f => f = range
  <2> HIDE DEF hotels, checkIn, checkOut, adults, ages, rooms, board, codes, payment, currency,
               range, country, best, closed, lang, place
  <2>1. /\ DOMAIN hotels \subseteq {"hotelIds"} /\ DOMAIN checkIn \subseteq {"checkInDate"}
        /\ DOMAIN checkOut \subseteq {"checkOutDate"} /\ DOMAIN currency \subseteq {"currency"}
        /\ DOMAIN range \subseteq {"priceRange"}
    BY <1>3, <1>4, <1>5, <1>8
  <2> DEFINE others == {adults, ages, rooms, board, codes, payment, country, best, closed, lang, place}
  <2>2. \A f \in others : DOMAIN f \cap {"hotelIds", "checkInDate", "checkOutDate", "currency",
                                        "priceRange"} = {}
    BY <1>6, <1>7, <1>8, <1>9
  <2>3. \A f \in sets : f \in {hotels, checkIn, checkOut, currency, range} \/ f \in others
    OBVIOUS
  <2> HIDE DEF others
  <2>4. \A f \in sets : "hotelIds" \in DOMAIN f => f = hotels
    BY <2>1, <2>2, <2>3
  <2>5. \A f \in sets : "checkInDate" \in DOMAIN f => f = checkIn
    BY <2>1, <2>2, <2>3
  <2>6. \A f \in sets : "checkOutDate" \in DOMAIN f => f = checkOut
    BY <2>1, <2>2, <2>3
  <2>7. \A f \in sets : "currency" \in DOMAIN f => f = currency
    BY <2>1, <2>2, <2>3
  <2>8. \A f \in sets : "priceRange" \in DOMAIN f => f = range
    BY <2>1, <2>2, <2>3
  <2> QED
    BY <2>4, <2>5, <2>6, <2>7, <2>8
<1>12. hotels \in sets /\ checkIn \in sets /\ checkOut \in sets /\ currency \in sets /\ range \in sets
  <2> HIDE DEF hotels, checkIn, checkOut, adults, ages, rooms, board, codes, payment, currency,
               range, country, best, closed, lang, place
  <2> QED
    OBVIOUS
<1> HIDE DEF hotels, checkIn, checkOut, adults, ages, rooms, board, codes, payment, currency,
             range, country, best, closed, lang, place, sets
<1> DEFINE params == Params(sets)
<1>13. /\ \A n : n \in DOMAIN params <=> \E f \in sets : n \in DOMAIN f
       /\ \A n \in DOMAIN params : \E f \in sets : n \in DOMAIN f /\ params[n] = f[n]
  BY ParamsAreThoseSet
<1> HIDE DEF params
<1>14. Acceptable(params)
  BY <1>10, ParamsAcceptable DEF params
<1>15. "priceRange" \in DOMAIN params => "currency" \in DOMAIN params
  <2>1. "priceRange" \in DOMAIN params => q.priceRange # ""
    BY <1>8, <1>11, <1>13
  <2>2. q.currency # "" => "currency" \in DOMAIN params
    BY <1>8, <1>12, <1>13
  <2> QED
    BY <2>1, <2>2 DEF SearchQueryValid
<1>16. ASSUME "checkOutDate" \in DOMAIN params
       PROVE  "checkInDate" \in DOMAIN params /\ params["checkOutDate"] > params["checkInDate"]
  <2>1. q.stay.checkOut # 0 /\ params["checkOutDate"] = q.stay.checkOut
    BY <1>5, <1>11, <1>13, <1>16
  <2>2. q.stay.checkIn # 0 /\ q.stay.checkOut > q.stay.checkIn
    BY <2>1 DEF SearchQueryValid, StayValid
  <2>3. "checkInDate" \in DOMAIN params
    BY <1>4, <1>12, <1>13, <2>2
  <2>4. params["checkInDate"] = q.stay.checkIn
    BY <1>4, <1>11, <1>13, <2>2, <2>3
  <2> QED
    BY <2>1, <2>2, <2>3, <2>4
<1>17. params["hotelIds"] = q.hotelIDs
  <2>1. "hotelIds" \in DOMAIN params
    BY <1>3, <1>12, <1>13
  <2> QED
    BY <1>3, <1>11, <1>13, <2>1
<1> QED
  BY <1>1, <1>14, <1>15, <1>16, <1>17 DEF params

\* The requests for one offer and for one hotel's page.
LEMMA PagesAcceptable ==
    /\ \A q : Acceptable(GetQueryParams(q))
    /\ \A q : QueryValid(q) => Acceptable(QueryParams(q))
<1>1. ASSUME NEW q PROVE Acceptable(GetQueryParams(q))
  <2>1. Acceptable(SetText("lang", q.lang))
    BY EmptyIsNotSent DEF CountParams, TextParams, ListParams
  <2> QED
    BY <2>1, ParamsAcceptable DEF GetQueryParams
<1>2. ASSUME NEW q, QueryValid(q) PROVE Acceptable(QueryParams(q))
  <2> DEFINE hotel == Set("hotelID", q.hotelID, TRUE)
             view == IF q.view = "" THEN "FULL" ELSE q.view
             viewed == Set("view", view, TRUE)
             fields == SetList("fields", q.fields)
             lang == SetText("lang", q.lang)
  <2>1. q.hotelID # ""
    BY <1>2, TextAssumption DEF QueryValid
  <2>2. view # ""
    OBVIOUS
  <2> HIDE DEF view
  <2>3. AcceptableAs("hotelID", q.hotelID) /\ AcceptableAs("view", view)
    BY <2>1, <2>2 DEF AcceptableAs, CountParams, TextParams, ListParams
  <2>4. Acceptable(hotel) /\ Acceptable(viewed)
    BY <2>3, SetIsConditional
  <2>5. Acceptable(fields) /\ Acceptable(lang)
    BY EmptyIsNotSent DEF CountParams, TextParams, ListParams
  <2> HIDE DEF hotel, viewed, fields, lang
  <2>6. \A f \in {hotel, viewed, fields, lang} : Acceptable(f)
    BY <2>4, <2>5
  <2>7. QueryParams(q) = Params({hotel, viewed, fields, lang})
    BY DEF QueryParams, hotel, viewed, fields, lang, view
  <2> QED
    BY <2>6, <2>7, ParamsAcceptable
<1> QED
  BY <1>1, <1>2

\* Only a search sends a range of prices or a day of departure.
OfAnySearch == {"priceRange", "checkOutDate"}

LEMMA OnlySearchesNameThem ==
    ASSUME NEW q
    PROVE  /\ OfAnySearch \cap DOMAIN CityQueryParams(q) = {}
           /\ OfAnySearch \cap DOMAIN GeocodeQueryParams(q) = {}
           /\ OfAnySearch \cap DOMAIN IDsQueryParams(q) = {}
           /\ OfAnySearch \cap DOMAIN KeywordQueryParams(q) = {}
           /\ OfAnySearch \cap DOMAIN GetQueryParams(q) = {}
           /\ OfAnySearch \cap DOMAIN QueryParams(q) = {}
<1> DEFINE Apart(sets) == \A f \in sets : OfAnySearch \cap DOMAIN f = {}
<1>1. ASSUME NEW name, name \notin OfAnySearch
      PROVE  /\ \A value, isSet : OfAnySearch \cap DOMAIN Set(name, value, isSet) = {}
             /\ \A value : OfAnySearch \cap DOMAIN SetText(name, value) = {}
             /\ \A value : OfAnySearch \cap DOMAIN SetList(name, value) = {}
             /\ \A value : OfAnySearch \cap DOMAIN SetNumbers(name, value) = {}
  <2>1. \A value, isSet : DOMAIN Set(name, value, isSet) = IF isSet THEN {name} ELSE {}
    BY SetIsConditional
  <2>2. \A value, isSet : OfAnySearch \cap DOMAIN Set(name, value, isSet) = {}
    BY <1>1, <2>1
  <2> QED
    BY <2>2 DEF SetText, SetList, SetNumbers
<1>2. ASSUME NEW sets, Apart(sets) PROVE OfAnySearch \cap DOMAIN Params(sets) = {}
  BY <1>2, ParamsAreThoseSet
<1>3. ASSUME NEW f PROVE Apart(apply(f))
  BY <1>1 DEF apply, OfAnySearch
<1>4. /\ Apart({Set("cityCode", q.cityCode, TRUE)} \union apply(q.filters))
      /\ Apart({Set("latitude", q.position.latitude, TRUE), Set("longitude", q.position.longitude, TRUE)}
               \union apply(q.filters))
      /\ Apart({Set("hotelIds", Joined(q.hotelIDs), TRUE)}) /\ Apart({SetText("lang", q.lang)})
  BY <1>1, <1>3 DEF OfAnySearch
<1>5. Apart({Set("keyword", q.keyword, TRUE),
             Set("subType", IF q.subTypes = <<>> THEN AllHotelSubTypes ELSE q.subTypes, TRUE),
             SetText("countryCode", q.countryCode), SetText("lang", q.language),
             Set("max", q.max, q.max > 0)})
  BY <1>1 DEF OfAnySearch
<1>6. Apart({Set("hotelID", q.hotelID, TRUE), Set("view", IF q.view = "" THEN "FULL" ELSE q.view, TRUE),
             SetList("fields", q.fields), SetText("lang", q.lang)})
  BY <1>1 DEF OfAnySearch
<1> HIDE DEF Apart
<1> QED
  BY <1>2, <1>4, <1>5, <1>6 DEF CityQueryParams, GeocodeQueryParams, IDsQueryParams,
     KeywordQueryParams, GetQueryParams, QueryParams

\* What Amadeus accepts of one request.
RequestAcceptable(path, params) ==
    LET given == DOMAIN params IN
    /\ \A p \in given \cap CountParams : params[p] > 0
    /\ \A p \in given \cap TextParams : params[p] # ""
    /\ \A p \in given \cap ListParams : params[p] # <<>>
    /\ "priceRange" \in given => "currency" \in given
    /\ "checkOutDate" \in given => /\ "checkInDate" \in given
                                   /\ params["checkOutDate"] > params["checkInDate"]
    /\ path = <<"hotel-offers">> => Len(params["hotelIds"]) <= MaxHotelIDs
    /\ path = <<"by-hotels">> => Len(params["hotelIds"]) <= MaxListedIDs
    /\ path = <<"by-keyword">> => "subType" \in given

LEMMA OneRequest ==
    ASSUME NEW path, NEW params, sent' = Request(path, params), RequestAcceptable(path, params)
    PROVE  SentIsAcceptable'
<1>1. sent' = {[path |-> path, params |-> params]}
  BY DEF Request
<1>2. ASSUME NEW r \in sent' PROVE r.path = path /\ r.params = params
  BY <1>1
<1>3. ASSUME NEW r \in sent' PROVE RequestAcceptable(r.path, r.params)
  BY <1>2
<1> QED
  BY <1>3 DEF SentIsAcceptable, RequestAcceptable

LEMMA AcceptableRequest ==
    ASSUME NEW path, NEW params, Acceptable(params), OfAnySearch \cap DOMAIN params = {},
           path # <<"hotel-offers">>, path = <<"by-keyword">> => "subType" \in DOMAIN params,
           path = <<"by-hotels">> => Len(params["hotelIds"]) <= MaxListedIDs
    PROVE  RequestAcceptable(path, params)
BY DEF Acceptable, AcceptableAs, RequestAcceptable, OfAnySearch

LEMMA ListingsSendAcceptable ==
    ASSUME ByCity \/ ByGeocode \/ ByIDs \/ ByKeyword
    PROVE  SentIsAcceptable'
<1>1. CASE ByCity
  <2>1. PICK q \in CityQueries : CityQueryValid(q) /\ sent' = Request(<<"by-city">>, CityQueryParams(q))
    BY <1>1 DEF ByCity, Listing
  <2>2. RequestAcceptable(<<"by-city">>, CityQueryParams(q))
    BY <2>1, ListingsAcceptable, OnlySearchesNameThem, AcceptableRequest
  <2> QED
    BY <2>1, <2>2, OneRequest
<1>2. CASE ByGeocode
  <2>1. PICK q \in GeocodeQueries :
           GeocodeQueryValid(q) /\ sent' = Request(<<"by-geocode">>, GeocodeQueryParams(q))
    BY <1>2 DEF ByGeocode, Listing
  <2>2. RequestAcceptable(<<"by-geocode">>, GeocodeQueryParams(q))
    BY <2>1, ListingsAcceptable, OnlySearchesNameThem, AcceptableRequest
  <2> QED
    BY <2>1, <2>2, OneRequest
<1>3. CASE ByIDs
  <2>1. PICK q \in IDsQueries : IDsQueryValid(q) /\ sent' = Request(<<"by-hotels">>, IDsQueryParams(q))
    BY <1>3 DEF ByIDs, Listing
  <2>2. RequestAcceptable(<<"by-hotels">>, IDsQueryParams(q))
    BY <2>1, ListingsAcceptable, OnlySearchesNameThem, AcceptableRequest
  <2> QED
    BY <2>1, <2>2, OneRequest
<1>4. CASE ByKeyword
  <2>1. PICK q \in KeywordQueries :
           KeywordQueryValid(q) /\ sent' = Request(<<"by-keyword">>, KeywordQueryParams(q))
    BY <1>4 DEF ByKeyword, Listing
  <2>2. RequestAcceptable(<<"by-keyword">>, KeywordQueryParams(q))
    BY <2>1, ListingsAcceptable, OnlySearchesNameThem, AcceptableRequest
  <2> QED
    BY <2>1, <2>2, OneRequest
<1> QED
  BY <1>1, <1>2, <1>3, <1>4

LEMMA SearchesSendAcceptable ==
    ASSUME Search PROVE SentIsAcceptable'
<1>1. PICK template \in SearchQueries, n \in 0..Len(ids) :
         LET q == [template EXCEPT !.hotelIDs = SubSeq(ids, 1, n)]
         IN  SearchQueryValid(q) /\ sent' = Request(<<"hotel-offers">>, SearchQueryParams(q))
  BY DEF Search
<1> DEFINE q == [template EXCEPT !.hotelIDs = SubSeq(ids, 1, n)]
<1>2. SearchQueryValid(q) /\ sent' = Request(<<"hotel-offers">>, SearchQueryParams(q))
  BY <1>1
<1>3. q.stay = template.stay /\ template.stay \in [checkIn : Nat, checkOut : Nat]
  BY QueriesAssumption DEF SearchQuery
<1> HIDE DEF q
<1>4. q.stay.checkIn \in Nat /\ q.stay.checkOut \in Nat
  BY <1>3
<1> DEFINE params == SearchQueryParams(q)
<1>5. /\ Acceptable(params)
      /\ "priceRange" \in DOMAIN params => "currency" \in DOMAIN params
      /\ "checkOutDate" \in DOMAIN params => /\ "checkInDate" \in DOMAIN params
                                             /\ params["checkOutDate"] > params["checkInDate"]
      /\ params["hotelIds"] = q.hotelIDs
  BY <1>2, <1>4, SearchAcceptable
<1> HIDE DEF params
<1>6. Len(params["hotelIds"]) <= MaxHotelIDs
  <2>1. MaxHotelIDs \in Nat
    BY TextAssumption
  <2>2. Len(q.hotelIDs) \in 1..MaxHotelIDs
    BY <1>2 DEF SearchQueryValid
  <2> QED
    BY <1>5, <2>1, <2>2
<1>7. RequestAcceptable(<<"hotel-offers">>, params)
  BY <1>5, <1>6 DEF RequestAcceptable, Acceptable, AcceptableAs
<1> QED
  BY <1>2, <1>7, OneRequest DEF params

LEMMA PagesSendAcceptable ==
    ASSUME Get \/ OpenContent PROVE SentIsAcceptable'
<1>1. CASE Get
  <2>1. PICK q, id : sent' = Request(<<"hotel-offers", id>>, GetQueryParams(q))
    BY <1>1 DEF Get
  <2>2. /\ <<"hotel-offers", id>> # <<"hotel-offers">> /\ <<"hotel-offers", id>> # <<"by-keyword">>
        /\ <<"hotel-offers", id>> # <<"by-hotels">>
    OBVIOUS
  <2>3. RequestAcceptable(<<"hotel-offers", id>>, GetQueryParams(q))
    BY <2>2, PagesAcceptable, OnlySearchesNameThem, AcceptableRequest
  <2> QED
    BY <2>1, <2>3, OneRequest
<1>2. CASE OpenContent
  <2>1. PICK q : QueryValid(q) /\ sent' = Request(<<"by-hotel">>, QueryParams(q))
    BY <1>2 DEF OpenContent
  <2>2. RequestAcceptable(<<"by-hotel">>, QueryParams(q))
    BY <2>1, PagesAcceptable, OnlySearchesNameThem, AcceptableRequest
  <2> QED
    BY <2>1, <2>2, OneRequest
<1> QED
  BY <1>1, <1>2

\* What a query's validate lets through and its params leaves out make every
\* request of the three contexts acceptable: no count of zero, no empty text, no
\* empty list but of the fields of a page, no more hotels than a request takes,
\* whatever the application asks and whatever a list returned.
THEOREM NothingRejectedIsSent == Spec => []SentIsAcceptable
<1>1. Init => SentIsAcceptable
  BY DEF Init, SentIsAcceptable
<1>2. SentIsAcceptable /\ [Next]_vars => SentIsAcceptable'
  <2> SUFFICES ASSUME SentIsAcceptable, [Next]_vars PROVE SentIsAcceptable'
    OBVIOUS
  <2>1. CASE ByCity \/ ByGeocode \/ ByIDs \/ ByKeyword
    BY <2>1, ListingsSendAcceptable
  <2>2. CASE Search
    BY <2>2, SearchesSendAcceptable
  <2>3. CASE Get \/ OpenContent
    BY <2>3, PagesSendAcceptable
  <2>4. CASE SellOrReprice \/ UNCHANGED vars
    <3>1. sent' = sent
      BY <2>4 DEF SellOrReprice, vars
    <3> QED
      BY <3>1 DEF SentIsAcceptable
  <2> QED
    BY <2>1, <2>2, <2>3, <2>4 DEF Next
<1> QED
  BY <1>1, <1>2, PTL DEF Spec

-----------------------------------------------------------------------------
(* Capacities. *)

\* What an offer that came from Amadeus says of how many people it holds.
SaysHowMany(o) ==
    /\ \A d \in o.roomDetails :
          d.maxOccupancy \subseteq MaxPersonCapacityResponse /\ d.description \in Prose
    /\ \A s \in o.standardizedRoom : s.maxOccupancy \subseteq MaxPersonCapacityResponse
    /\ o.room.description \in Prose

LEMMA MappedOffer ==
    ASSUME NEW wire \in OfferResponse
    PROVE  mapOffer(wire).id = wire.id /\ SaysHowMany(mapOffer(wire))
<1> DEFINE o == mapOffer(wire)
<1>1. /\ o.id = wire.id /\ o.room = mapRoom(wire.room)
      /\ o.roomDetails = {mapRoomDetails(r) : r \in wire.roomInformation}
      /\ o.standardizedRoom = {mapStandardizedRoom(r) : r \in wire.standardizedRoom}
  BY DEF mapOffer
<1>2. /\ wire.room \in RoomResponse
      /\ wire.roomInformation \subseteq RoomInformationResponse
      /\ wire.standardizedRoom \subseteq StandardizedRoomResponse
  BY DEF OfferResponse, Optional
<1> HIDE DEF o
<1>3. o.room.description \in Prose
  BY <1>1, <1>2 DEF mapRoom, RoomResponse
<1>4. ASSUME NEW d \in o.roomDetails
      PROVE  d.maxOccupancy \subseteq MaxPersonCapacityResponse /\ d.description \in Prose
  <2>1. PICK r \in wire.roomInformation : d = mapRoomDetails(r)
    BY <1>1
  <2>2. d.maxOccupancy = r.maxPersonCapacity /\ d.description = r.description
    BY <2>1 DEF mapRoomDetails
  <2>3. r.maxPersonCapacity \subseteq MaxPersonCapacityResponse /\ r.description \in Prose
    BY <1>2 DEF RoomInformationResponse, Optional
  <2> QED
    BY <2>2, <2>3
<1>5. ASSUME NEW s \in o.standardizedRoom PROVE s.maxOccupancy \subseteq MaxPersonCapacityResponse
  <2>1. PICK r \in wire.standardizedRoom : s = mapStandardizedRoom(r)
    BY <1>1
  <2>2. s.maxOccupancy = r.maxPersonCapacity
    BY <2>1 DEF mapStandardizedRoom
  <2>3. r.maxPersonCapacity \subseteq MaxPersonCapacityResponse
    BY <1>2 DEF StandardizedRoomResponse, Optional
  <2> QED
    BY <2>2, <2>3
<1> QED
  BY <1>1, <1>3, <1>4, <1>5 DEF o, SaysHowMany

\* A set of naturals with a bound that is not empty has a greatest.
LEMMA GreatestNatural ==
    ASSUME NEW T \in SUBSET Nat, NEW n \in T, NEW bound \in Nat, \A m \in T : m <= bound
    PROVE  \E x \in T : \A y \in T : y <= x
<1> DEFINE S == {bound - m : m \in T}
<1>1. S \in SUBSET Nat /\ bound - n \in S
  OBVIOUS
<1>2. PICK x \in S : \A y \in S : x <= y
  <2> HIDE DEF S
  <2> QED
    BY <1>1, LeastNatural
<1>3. PICK m \in T : x = bound - m
  OBVIOUS
<1>4. ASSUME NEW y \in T PROVE y <= m
  <2>1. bound - y \in S /\ y \in Nat /\ m \in Nat
    OBVIOUS
  <2>2. bound - m <= bound - y
    BY <1>2, <1>3, <2>1
  <2> QED
    BY <2>1, <2>2
<1> QED
  BY <1>4

\* A number read in a description is one of its plausible figures.
LEMMA ReadInText ==
    ASSUME NEW text \in Prose, NEW n \in capacityFromText(text)
    PROVE  n \in UNION {text[p] : p \in Patterns} /\ n \in 1..MaxPlausibleCapacity
<1>1. PICK p \in Patterns : Plausible(text[p]) # {} /\ n = Largest(Plausible(text[p]))
  BY DEF capacityFromText
<1> DEFINE S == Plausible(text[p])
<1>2. S \subseteq 1..MaxPlausibleCapacity /\ S \subseteq text[p]
  BY DEF Plausible
<1> HIDE DEF S
<1>3. MaxPlausibleCapacity \in Nat
  BY FiguresAssumption
<1>4. \E x \in S : \A y \in S : y <= x
  <2>1. PICK m : m \in S
    BY <1>1 DEF S
  <2>2. S \in SUBSET Nat /\ \A k \in S : k <= MaxPlausibleCapacity
    BY <1>2, <1>3
  <2> QED
    BY <1>3, <2>1, <2>2, GreatestNatural
<1>5. n \in S
  BY <1>1, <1>4 DEF Largest, S
<1> QED
  BY <1>2, <1>5

\* With a field that says how many, no description has a say; without one, it
\* is a plausible figure of a description.
LEMMA CapacitySource ==
    ASSUME NEW o, SaysHowMany(o), NEW c \in MaxPersonCapacity(o)
    PROVE  /\ c.people \in Nat
           /\ c.source = "STRUCTURED" => c.people \in FieldCapacity(o)
           /\ c.source # "STRUCTURED" =>
                 /\ c.people \in Described(o)
                 /\ \A k \in MaxPersonCapacity(o) : k.source # "STRUCTURED"
                 /\ \A n \in FieldCapacity(o) : n = 0
<1> DEFINE details  == UNION {StatedByDetails(d.maxOccupancy) : d \in o.roomDetails}
           standard == UNION {StatedByStandard(s.maxOccupancy) : s \in o.standardizedRoom}
           prose    == UNION {capacityFromText(d.description) : d \in o.roomDetails}
           room     == capacityFromText(o.room.description)
           telling  == IF prose # {} THEN prose ELSE room
<1>1. MaxPersonCapacity(o) =
        IF details # {} THEN {Stated("STRUCTURED", n) : n \in details}
        ELSE IF standard # {} THEN {Stated("STRUCTURED", n) : n \in standard}
        ELSE {Stated("DESCRIPTION", n) : n \in telling}
  BY DEF MaxPersonCapacity
<1>2. ASSUME NEW k \in MaxPersonCapacityResponse
      PROVE  k.adults \in Nat /\ k.children \in Nat /\ k.total \in Nat
  BY NumbersAssumption DEF MaxPersonCapacityResponse
<1>3. ASSUME NEW n \in details PROVE n \in Nat /\ n \in FieldCapacity(o)
  <2>1. PICK d \in o.roomDetails : \E k \in d.maxOccupancy :
           (k.total > 0 \/ k.adults > 0) /\ n = IF k.total > 0 THEN k.total ELSE k.adults + k.children
    BY DEF StatedByDetails
  <2> PICK k \in d.maxOccupancy :
         (k.total > 0 \/ k.adults > 0) /\ n = IF k.total > 0 THEN k.total ELSE k.adults + k.children
    BY <2>1
  <2>2. k.adults \in Nat /\ k.children \in Nat /\ k.total \in Nat
    BY <1>2 DEF SaysHowMany
  <2>3. k \in UNION {r.maxOccupancy : r \in o.roomDetails \union o.standardizedRoom}
        /\ k \in UNION {r.maxOccupancy : r \in o.roomDetails}
    BY <2>1
  <2>4. CASE k.total > 0
    BY <2>1, <2>2, <2>3, <2>4 DEF FieldCapacity
  <2>5. CASE ~(k.total > 0)
    <3>1. n = k.adults + k.children /\ k.total = 0 /\ k.adults > 0
      BY <2>1, <2>2, <2>5
    <3> QED
      BY <2>2, <2>3, <3>1 DEF FieldCapacity
  <2> QED
    BY <2>4, <2>5
<1>4. ASSUME NEW n \in standard PROVE n \in Nat /\ n \in FieldCapacity(o)
  <2>1. PICK s \in o.standardizedRoom : \E k \in s.maxOccupancy : n = k.total
    BY DEF StatedByStandard
  <2> PICK k \in s.maxOccupancy : n = k.total
    BY <2>1
  <2>2. k.total \in Nat
    BY <1>2 DEF SaysHowMany
  <2>3. k \in UNION {r.maxOccupancy : r \in o.roomDetails \union o.standardizedRoom}
    BY <2>1
  <2> QED
    BY <2>1, <2>2, <2>3 DEF FieldCapacity
<1>5. ASSUME NEW n \in telling PROVE n \in Nat /\ n \in Described(o)
  <2>1. PICK text \in {o.room.description} \union {d.description : d \in o.roomDetails} :
           n \in capacityFromText(text)
    OBVIOUS
  <2>2. text \in Prose
    BY <2>1 DEF SaysHowMany
  <2>3. n \in UNION {text[p] : p \in Patterns} /\ n \in 1..MaxPlausibleCapacity
    BY <2>1, <2>2, ReadInText
  <2>4. n \in Nat
    BY <2>3, FiguresAssumption
  <2> QED
    BY <2>1, <2>3, <2>4 DEF Described
<1>6. ASSUME details = {}, standard = {}, NEW n \in FieldCapacity(o) PROVE n = 0
  <2>1. ASSUME NEW d \in o.roomDetails, NEW k \in d.maxOccupancy PROVE k.total = 0 /\ k.adults = 0
    <3>1. StatedByDetails(d.maxOccupancy) = {}
      BY <1>6
    <3>2. ~(k.total > 0 \/ k.adults > 0)
      BY <3>1 DEF StatedByDetails
    <3>3. k.adults \in Nat /\ k.total \in Nat
      BY <1>2 DEF SaysHowMany
    <3> QED
      BY <3>2, <3>3
  <2>2. ASSUME NEW s \in o.standardizedRoom, NEW k \in s.maxOccupancy PROVE k.total = 0
    <3>1. StatedByStandard(s.maxOccupancy) = {}
      BY <1>6
    <3>2. ~(k.total > 0)
      BY <3>1 DEF StatedByStandard
    <3>3. k.total \in Nat
      BY <1>2 DEF SaysHowMany
    <3> QED
      BY <3>2, <3>3
  <2>3. \A k \in UNION {d.maxOccupancy : d \in o.roomDetails} : k.total = 0 /\ k.adults = 0
    BY <2>1
  <2>4. \A k \in UNION {r.maxOccupancy : r \in o.roomDetails \union o.standardizedRoom} : k.total = 0
    BY <2>1, <2>2
  <2> QED
    BY <2>3, <2>4 DEF FieldCapacity
<1> HIDE DEF details, standard, telling
<1>7. \A n, source : Stated(source, n).people = n /\ Stated(source, n).source = source
  BY DEF Stated
<1>8. CASE details # {}
  BY <1>1, <1>3, <1>7, <1>8
<1>9. CASE details = {} /\ standard # {}
  BY <1>1, <1>4, <1>7, <1>9
<1>10. CASE details = {} /\ standard = {}
  <2>1. MaxPersonCapacity(o) = {Stated("DESCRIPTION", n) : n \in telling}
    BY <1>1, <1>10
  <2>2. \A k \in MaxPersonCapacity(o) : k.source = "DESCRIPTION" /\ k.people \in telling
    BY <1>7, <2>1
  <2> QED
    BY <1>5, <1>6, <1>10, <2>2
<1> QED
  BY <1>8, <1>9, <1>10

LEMMA FitsAsStated ==
    ASSUME NEW o, SaysHowMany(o), NEW people \in 1..(MaxPlausibleCapacity + 1)
    PROVE  LET answer == Accommodates(o, people) IN
           /\ answer.fits /\ answer.certain => \E n \in FieldCapacity(o) : n >= people
           /\ answer.fits /\ ~answer.certain =>
                 (\E n \in Described(o) : n >= people) /\ \A n \in FieldCapacity(o) : n < people
<1> DEFINE answer == Accommodates(o, people)
<1>1. /\ answer.fits = \E c \in MaxPersonCapacity(o) : c.people >= people
      /\ answer.certain = \E c \in MaxPersonCapacity(o) : c.source = "STRUCTURED"
  BY DEF Accommodates
<1> HIDE DEF answer
<1>2. people > 0 /\ people \in Nat
  BY FiguresAssumption
<1>3. ASSUME answer.fits, answer.certain PROVE \E n \in FieldCapacity(o) : n >= people
  <2>1. PICK c \in MaxPersonCapacity(o) : c.people >= people
    BY <1>1, <1>3
  <2>2. c.source = "STRUCTURED"
    BY <1>1, <1>3, CapacitySource
  <2> QED
    BY <2>1, <2>2, CapacitySource
<1>4. ASSUME answer.fits, ~answer.certain
      PROVE  (\E n \in Described(o) : n >= people) /\ \A n \in FieldCapacity(o) : n < people
  <2>1. PICK c \in MaxPersonCapacity(o) : c.people >= people
    BY <1>1, <1>4
  <2>2. c.source # "STRUCTURED"
    BY <1>1, <1>4
  <2>3. c.people \in Described(o) /\ \A n \in FieldCapacity(o) : n = 0
    BY <2>2, CapacitySource
  <2> QED
    BY <1>2, <2>1, <2>3
<1> QED
  BY <1>3, <1>4 DEF answer

-----------------------------------------------------------------------------
(* Offers found and verified. *)

\* What hotels can have left.
Stocks == [HotelIDs -> {{}} \union {{o} : o \in Offered}]

\* An offer that was found in a currency.
FoundIn(o, currency) == SaysHowMany(o) /\ \E h \in HotelIDs : o.id = OfferIDOf[h][currency]

\* What the package makes of an answer about offers, asked for in a currency and
\* carrying some rates.
FoundHotels(hotels, currency, wire) ==
    \A i \in DOMAIN hotels :
       /\ hotels[i].rates = mapConversionRates(wire)
       /\ \A o \in ToSet(hotels[i].offers) : FoundIn(o, currency)

\* What a list, a search and a verification leave behind: each offer came from
\* Amadeus, and has the rates of the answer it came with, which are some of those
\* to the currency that its ID was found in.
OffersFound ==
    /\ ids \in Seq(HotelIDs)
    /\ stock \in Stocks
    /\ \A found \in results :
          /\ found.currency \in DOMAIN Dictionaries
          /\ found.dictionary \in Dictionaries[found.currency]
          /\ FoundHotels(found.hotels, found.currency, found.dictionary)
    /\ \A d \in detail : \E c \in DOMAIN Dictionaries :
          /\ d.dictionary \in Dictionaries[c]
          /\ d.offer.rates = mapConversionRates(d.dictionary) /\ FoundIn(d.offer.offer, c)

LEMMA PricedOffers ==
    ASSUME stock \in Stocks, NEW hotels \in Seq(HotelIDs), NEW c \in DOMAIN Dictionaries, NEW wire
    PROVE  FoundHotels(mapHotelOffers(Priced(hotels, c), mapConversionRates(wire)), c, wire)
<1> DEFINE rates == mapConversionRates(wire)
           wanted == {h \in ToSet(hotels) : stock[h] # {}}
           open == Kept(hotels, wanted)
           Left(i) == CHOOSE o \in stock[open[i]] : TRUE
           Offer(i) == [Left(i) EXCEPT !.id = OfferIDOf[open[i]][c]]
           priced == Priced(hotels, c)
           mapped == mapHotelOffers(priced, rates)
<1>1. open \in Seq(HotelIDs) /\ ToSet(open) = ToSet(hotels) \cap wanted
  <2> HIDE DEF wanted
  <2> QED
    BY KeptElements
<1>2. priced = [i \in DOMAIN open |-> OffersResponse(HotelResponse(open[i], i), TRUE, <<Offer(i)>>)]
  BY DEF Priced
<1>3. ASSUME NEW i \in DOMAIN open
      PROVE  /\ Offer(i) \in OfferResponse
             /\ \E h \in HotelIDs : Offer(i).id = OfferIDOf[h][c]
  <2>1. open[i] \in HotelIDs /\ open[i] \in wanted
    <3>1. open[i] \in ToSet(open)
      BY DEF ToSet
    <3>2. open[i] \in HotelIDs
      <4> HIDE DEF open
      <4> QED
        BY <1>1
    <3> QED
      BY <1>1, <3>1, <3>2
  <2> HIDE DEF open
  <2>2. Left(i) \in stock[open[i]]
    BY <2>1
  <2>3. Left(i) \in Offered
    BY <2>1, <2>2 DEF Stocks
  <2>4. Left(i) \in OfferResponse
    BY <2>3, AnswersAssumption
  <2>5. OfferIDOf[open[i]][c] \in OfferIDs
    BY <2>1, AnswersAssumption
  <2> HIDE DEF Left
  <2>6. Offer(i) \in OfferResponse /\ Offer(i).id = OfferIDOf[open[i]][c]
    BY <2>4, <2>5 DEF OfferResponse
  <2> QED
    BY <2>1, <2>6
<1> HIDE DEF Offer, open
<1>4. DOMAIN mapped = DOMAIN open
  BY <1>2 DEF mapHotelOffers
<1>5. ASSUME NEW i \in DOMAIN open
      PROVE  mapped[i].rates = rates /\ mapped[i].offers = mapOffers(<<Offer(i)>>)
  <2>1. priced[i] = OffersResponse(HotelResponse(open[i], i), TRUE, <<Offer(i)>>)
    BY <1>2
  <2>2. priced[i].offers = <<Offer(i)>> /\ DOMAIN priced = DOMAIN open
    BY <1>2, <2>1 DEF OffersResponse
  <2> HIDE DEF priced
  <2>3. mapped[i] = [hotel |-> pricedHotel(priced[i].hotel), available |-> priced[i].available,
                     offers |-> mapOffers(priced[i].offers), rates |-> rates]
    BY <2>2 DEF mapHotelOffers
  <2> QED
    BY <2>2, <2>3
<1> HIDE DEF mapped
<1>6. ASSUME NEW i \in DOMAIN open
      PROVE  ToSet(mapped[i].offers) = {mapOffer(Offer(i))}
  <2>1. mapOffers(<<Offer(i)>>) = [k \in {1} |-> mapOffer(Offer(i))]
    BY DEF mapOffers
  <2> QED
    BY <1>5, <2>1 DEF ToSet
<1>7. ASSUME NEW i \in DOMAIN open PROVE FoundIn(mapOffer(Offer(i)), c)
  BY <1>3, MappedOffer DEF FoundIn
<1>8. ASSUME NEW i \in DOMAIN mapped, NEW o \in ToSet(mapped[i].offers)
      PROVE  FoundIn(o, c)
  <2>1. i \in DOMAIN open
    BY <1>4
  <2>2. o = mapOffer(Offer(i))
    BY <1>6, <2>1
  <2> QED
    BY <1>7, <2>1, <2>2
<1>9. \A i \in DOMAIN mapped : mapped[i].rates = rates
  BY <1>4, <1>5
<1> QED
  BY <1>8, <1>9 DEF mapped, priced, FoundHotels

\* A verification that was answered, with the offer or without.
LEMMA VerifiedOffer ==
    ASSUME stock \in Stocks,
           NEW hotel \in HotelIDs, NEW c \in DOMAIN Dictionaries, NEW wire,
           NEW answer, \/ answer = Priced(<<hotel>>, c)
                       \/ answer = <<OffersResponse(HotelResponse(hotel, 0), FALSE, <<>>)>>,
           NEW d \in Verified(mapHotelOffers(answer, mapConversionRates(wire)))
    PROVE  d.rates = mapConversionRates(wire) /\ FoundIn(d.offer, c)
<1> DEFINE mapped == mapHotelOffers(answer, mapConversionRates(wire))
<1>1. PICK m \in ToSet(mapped) : m.offers # <<>> /\ d.rates = m.rates /\ d.offer = m.offers[1]
  BY DEF Verified
<1>2. PICK i \in DOMAIN mapped : m = mapped[i]
  BY DEF ToSet
<1>3. CASE answer = Priced(<<hotel>>, c)
  <2>1. <<hotel>> \in Seq(HotelIDs)
    OBVIOUS
  <2>2. FoundHotels(mapped, c, wire)
    BY <1>3, <2>1, PricedOffers
  <2>3. m.offers[1] \in ToSet(m.offers)
    <3>1. m.offers = mapOffers(answer[i].offers)
      BY <1>2 DEF mapHotelOffers
    <3>2. \A s : mapOffers(s) # <<>> => 1 \in DOMAIN mapOffers(s)
      BY DEF mapOffers
    <3> QED
      BY <1>1, <3>1, <3>2 DEF ToSet
  <2> HIDE DEF mapped
  <2> QED
    BY <1>1, <1>2, <2>2, <2>3 DEF FoundHotels
<1>4. CASE answer = <<OffersResponse(HotelResponse(hotel, 0), FALSE, <<>>)>>
  <2>1. DOMAIN answer = {1} /\ answer[1].offers = <<>>
    BY <1>4 DEF OffersResponse
  <2>2. mapped[1].offers = mapOffers(<<>>) /\ DOMAIN mapped = {1}
    BY <2>1 DEF mapHotelOffers
  <2>3. mapOffers(<<>>) = <<>>
    BY DEF mapOffers
  <2>4. FALSE
    BY <1>1, <1>2, <2>2, <2>3
  <2> QED
    BY <2>4
<1> QED
  BY <1>3, <1>4

\* The codes a list returns, and those of the first suggestion.
LEMMA ListedCodes ==
    /\ \A codes \in Listed : codes \in Seq(HotelIDs)
    /\ \A answer \in Suggestions \ {<<>>} : SuggestedIDs(mapSuggestions(answer)[1]) \in Seq(HotelIDs)
<1>1. ASSUME NEW answer \in Lists PROVE IDs(mapHotels(answer)) \in Seq(HotelIDs)
  <2>1. answer \in Seq(InventoryHotel)
    BY AnswersAssumption
  <2>2. \A i \in DOMAIN answer : answer[i].hotelID \in HotelIDs
    <3>1. \A i \in DOMAIN answer : answer[i] \in InventoryHotel
      BY <2>1
    <3>2. \A h \in InventoryHotel : h.hotelID \in HotelIDs
      BY DEF InventoryHotel
    <3> QED
      BY <3>1, <3>2
  <2> DEFINE hotels == mapHotels(answer)
  <2>3. DOMAIN hotels = DOMAIN answer /\ \A i \in DOMAIN answer : hotels[i].id = answer[i].hotelID
    BY DEF mapHotels, listedHotel
  <2> HIDE DEF hotels
  <2>4. IDs(hotels) = [i \in DOMAIN answer |-> hotels[i].id]
    BY <2>3 DEF IDs
  <2>5. DOMAIN answer = 1..Len(answer) /\ Len(answer) \in Nat
    BY <2>1
  <2>6. IDs(hotels) \in [1..Len(answer) -> HotelIDs]
    BY <2>2, <2>3, <2>4, <2>5
  <2> QED
    BY <2>5, <2>6 DEF hotels
<1>2. ASSUME NEW answer \in Suggestions \ {<<>>}
      PROVE  SuggestedIDs(mapSuggestions(answer)[1]) \in Seq(HotelIDs)
  <2>1. answer \in Seq(AutocompleteLocation) /\ answer # <<>>
    BY AnswersAssumption
  <2>2. 1 \in DOMAIN answer /\ answer[1] \in AutocompleteLocation
    BY <2>1
  <2>3. answer[1].hotelIDs \in Seq(HotelIDs)
    BY <2>2 DEF AutocompleteLocation
  <2>4. mapSuggestions(answer)[1] = mapSuggestion(answer[1])
    BY <2>2 DEF mapSuggestions
  <2>5. SuggestedIDs(mapSuggestions(answer)[1]) = answer[1].hotelIDs
    BY <2>4 DEF mapSuggestion, SuggestedIDs
  <2> QED
    BY <2>3, <2>5
<1> QED
  BY <1>1, <1>2 DEF Listed

LEMMA ListingKeepsOffersFound ==
    ASSUME OffersFound, ByCity \/ ByGeocode \/ ByIDs \/ ByKeyword
    PROVE  OffersFound'
<1>1. /\ results' = {} /\ detail' = {} /\ stock' = stock
      /\ ids' \in Listed \/ ids' = <<>>
         \/ \E answer \in Suggestions \ {<<>>} : ids' = SuggestedIDs(mapSuggestions(answer)[1])
  BY DEF ByCity, ByGeocode, ByIDs, ByKeyword, Listing
<1>2. ids' \in Seq(HotelIDs)
  <2>1. CASE ids' = <<>>
    BY <2>1
  <2>2. CASE ids' \in Listed
    BY <2>2, ListedCodes
  <2>3. CASE \E answer \in Suggestions \ {<<>>} : ids' = SuggestedIDs(mapSuggestions(answer)[1])
    BY <2>3, ListedCodes
  <2> QED
    BY <1>1, <2>1, <2>2, <2>3
<1> QED
  BY <1>1, <1>2 DEF OffersFound

LEMMA SearchKeepsOffersFound ==
    ASSUME OffersFound, Search PROVE OffersFound'
<1>1. PICK template \in SearchQueries, n \in 0..Len(ids) :
         LET q == [template EXCEPT !.hotelIDs = SubSeq(ids, 1, n)]
             found(wire) == [currency |-> q.currency, dictionary |-> wire,
                             hotels |-> mapHotelOffers(Priced(q.hotelIDs, q.currency), mapConversionRates(wire))]
         IN  /\ results' \in {{}} \union {{found(wire)} : wire \in Dictionaries[q.currency]}
             /\ detail' = {} /\ ids' = ids /\ stock' = stock
  BY DEF Search
<1> DEFINE q == [template EXCEPT !.hotelIDs = SubSeq(ids, 1, n)]
           c == q.currency
           hotels(wire) == mapHotelOffers(Priced(q.hotelIDs, c), mapConversionRates(wire))
           found(wire) == [currency |-> c, dictionary |-> wire, hotels |-> hotels(wire)]
<1>2. /\ results' \in {{}} \union {{found(wire)} : wire \in Dictionaries[c]}
      /\ detail' = {} /\ ids' = ids /\ stock' = stock
  BY <1>1
<1>3. c \in DOMAIN Dictionaries /\ q.hotelIDs = SubSeq(ids, 1, n)
  BY QueriesAssumption DEF SearchQuery
<1>4. q.hotelIDs \in Seq(HotelIDs)
  <2>1. ids \in Seq(HotelIDs) /\ n \in 0..Len(ids)
    BY DEF OffersFound
  <2>2. SubSeq(ids, 1, n) \in Seq(HotelIDs)
    BY <2>1
  <2> QED
    BY <1>3, <2>2
<1> HIDE DEF q
<1>5. ASSUME NEW wire \in Dictionaries[c] PROVE FoundHotels(hotels(wire), c, wire)
  <2>1. stock \in Stocks
    BY DEF OffersFound
  <2> HIDE DEF c
  <2> QED
    BY <1>3, <1>4, <2>1, PricedOffers
<1> HIDE DEF hotels
<1>6. ASSUME NEW other \in results'
      PROVE  /\ other.currency \in DOMAIN Dictionaries
             /\ other.dictionary \in Dictionaries[other.currency]
             /\ FoundHotels(other.hotels, other.currency, other.dictionary)
  <2>1. PICK wire \in Dictionaries[c] : other = found(wire)
    <3> HIDE DEF found, c
    <3> QED
      BY <1>2
  <2>2. other.currency = c /\ other.hotels = hotels(wire) /\ other.dictionary = wire
    BY <2>1
  <2> QED
    BY <1>3, <1>5, <2>2
<1> QED
  BY <1>2, <1>6 DEF OffersFound

LEMMA GetKeepsOffersFound ==
    ASSUME OffersFound, Get PROVE OffersFound'
<1>1. PICK hotel \in HotelIDs, c \in DOMAIN Dictionaries :
         LET priced == Priced(<<hotel>>, c)
             closed == <<OffersResponse(HotelResponse(hotel, 0), FALSE, <<>>)>>
             answer == IF priced = <<>> THEN closed ELSE priced
             verified(wire) == {[offer |-> v, dictionary |-> wire] :
                                   v \in Verified(mapHotelOffers(answer, mapConversionRates(wire)))}
         IN  /\ detail' \in {{}} \union {verified(wire) : wire \in Dictionaries[c]}
             /\ ids' = ids /\ results' = results /\ stock' = stock
  BY DEF Get
<1> DEFINE closed == <<OffersResponse(HotelResponse(hotel, 0), FALSE, <<>>)>>
           answer == IF Priced(<<hotel>>, c) = <<>> THEN closed ELSE Priced(<<hotel>>, c)
           verified(wire) == {[offer |-> v, dictionary |-> wire] :
                                 v \in Verified(mapHotelOffers(answer, mapConversionRates(wire)))}
<1>2. detail' \in {{}} \union {verified(wire) : wire \in Dictionaries[c]}
  BY <1>1
<1>3. ids' = ids /\ results' = results /\ stock' = stock
  BY <1>1
<1>4. answer = Priced(<<hotel>>, c) \/ answer = closed
  OBVIOUS
<1> HIDE DEF answer
<1>5. ASSUME NEW d \in detail'
      PROVE  /\ d.dictionary \in Dictionaries[c]
             /\ d.offer.rates = mapConversionRates(d.dictionary) /\ FoundIn(d.offer.offer, c)
  <2>1. PICK wire \in Dictionaries[c] : d \in verified(wire)
    <3> HIDE DEF verified
    <3> QED
      BY <1>2
  <2>2. PICK v \in Verified(mapHotelOffers(answer, mapConversionRates(wire))) :
           d = [offer |-> v, dictionary |-> wire]
    BY <2>1
  <2>3. stock \in Stocks
    BY DEF OffersFound
  <2>4. v.rates = mapConversionRates(wire) /\ FoundIn(v.offer, c)
    BY <1>4, <2>3, VerifiedOffer
  <2> QED
    BY <2>2, <2>4
<1> QED
  BY <1>3, <1>5 DEF OffersFound

LEMMA OffersFoundHolds == Spec => []OffersFound
<1>1. Init => OffersFound
  <2> SUFFICES ASSUME Init PROVE OffersFound
    OBVIOUS
  <2>1. ids = <<>> /\ results = {} /\ detail = {} /\ stock \in [HotelIDs -> {{o} : o \in Offered}]
    BY DEF Init
  <2>2. ids \in Seq(HotelIDs) /\ stock \in Stocks
    BY <2>1 DEF Stocks
  <2> QED
    BY <2>1, <2>2 DEF OffersFound
<1>2. OffersFound /\ [Next]_vars => OffersFound'
  <2> SUFFICES ASSUME OffersFound, [Next]_vars PROVE OffersFound'
    OBVIOUS
  <2>1. CASE ByCity \/ ByGeocode \/ ByIDs \/ ByKeyword
    BY <2>1, ListingKeepsOffersFound
  <2>2. CASE Search
    BY <2>2, SearchKeepsOffersFound
  <2>3. CASE Get
    BY <2>3, GetKeepsOffersFound
  <2>4. CASE OpenContent
    <3>1. results' = {} /\ detail' = {} /\ ids' = ids /\ stock' = stock
      BY <2>4 DEF OpenContent
    <3> QED
      BY <3>1 DEF OffersFound
  <2>5. CASE SellOrReprice
    <3>1. PICK hotel \in HotelIDs, left \in {{}} \union {{o} : o \in Offered} :
             stock' = [stock EXCEPT ![hotel] = left]
      BY <2>5 DEF SellOrReprice
    <3>2. ids' = ids /\ results' = results /\ detail' = detail
      BY <2>5 DEF SellOrReprice
    <3>3. stock' \in Stocks
      BY <3>1 DEF OffersFound, Stocks
    <3> QED
      BY <3>2, <3>3 DEF OffersFound
  <2>6. CASE UNCHANGED vars
    BY <2>6 DEF vars, OffersFound
  <2> QED
    BY <2>1, <2>2, <2>3, <2>4, <2>5, <2>6 DEF Next
<1> QED
  BY <1>1, <1>2, PTL DEF Spec

\* A party fits with certainty only where a field lets that many in, and by a
\* description only where no field says how many: a guess is never certain,
\* whatever Amadeus says of its rooms.
THEOREM GuessesAreNotCertain == Spec => []CapacityIsStated
<1>1. OffersFound => CapacityIsStated
  <2> SUFFICES ASSUME OffersFound, NEW o \in Shown PROVE SaysHowMany(o)
    BY FitsAsStated DEF CapacityIsStated
  <2>1. CASE \E found \in results : \E i \in DOMAIN found.hotels : o \in ToSet(found.hotels[i].offers)
    BY <2>1 DEF OffersFound, FoundHotels, FoundIn
  <2>2. CASE o \in {d.offer.offer : d \in detail}
    BY <2>2 DEF OffersFound, FoundIn
  <2>3. o \in {d.offer.offer : d \in detail}
        \/ \E found \in results : \E i \in DOMAIN found.hotels : o \in ToSet(found.hotels[i].offers)
    <3> DEFINE Of(found) == {ToSet(found.hotels[i].offers) : i \in DOMAIN found.hotels}
               found == UNION {UNION Of(f) : f \in results}
    <3>1. ASSUME o \in found
          PROVE  \E f \in results : \E i \in DOMAIN f.hotels : o \in ToSet(f.hotels[i].offers)
      <4>1. PICK f \in results : o \in UNION Of(f)
        <5> HIDE DEF Of
        <5> QED
          BY <3>1
      <4> QED
        BY <4>1
    <3>2. Shown = found \union {d.offer.offer : d \in detail}
      BY DEF Shown
    <3> HIDE DEF found
    <3> QED
      BY <3>1, <3>2
  <2> QED
    BY <2>1, <2>2, <2>3
<1> QED
  BY <1>1, OffersFoundHolds, PTL

LEMMA DisplayTells ==
    ASSUME NEW rates, NEW m
    PROVE  LET shown == Display(rates, m) IN
           /\ shown.original = m
           /\ shown.converted = (Convert(rates, m) # {})
           /\ Convert(rates, m) = {} => shown.amount = m
           /\ Convert(rates, m) # {} => shown.amount.currency = rates[m.currency].to
<1> DEFINE shown == Display(rates, m)
<1>1. /\ shown.original = m /\ shown.converted = (Convert(rates, m) # {})
      /\ shown.amount = ConvertOrOriginal(rates, m)
  BY DEF Display
<1>2. ASSUME NEW c \in Convert(rates, m) PROVE c.currency = rates[m.currency].to
  BY DEF Convert, Money
<1> HIDE DEF shown
<1>3. Convert(rates, m) # {} => ConvertOrOriginal(rates, m) \in Convert(rates, m)
  BY DEF ConvertOrOriginal
<1>4. Convert(rates, m) = {} => ConvertOrOriginal(rates, m) = m
  BY DEF ConvertOrOriginal
<1> QED
  BY <1>1, <1>2, <1>3, <1>4 DEF shown

\* The rate for a price is the one its answer had for it, if it was usable.
LEMMA ConvertsWhereUsable ==
    ASSUME NEW wire, NEW m
    PROVE  LET rates  == mapConversionRates(wire)
               usable == Usable(wire, m.currency)
           IN  /\ m.currency \in DOMAIN rates <=> usable # {}
               /\ usable # {} => /\ m.currency \in DOMAIN wire /\ usable = {wire[m.currency]}
                                 /\ rates[m.currency].to = wire[m.currency].target
                                 /\ rates[m.currency].rate = ParseRate(wire[m.currency].rate).amount
                                 /\ rates[m.currency].places = wire[m.currency].places
<1> DEFINE legible(c) == {r.amount : r \in {a \in {ParseRate(wire[c].rate)} : a.ok /\ ~IsZero(a.amount)}}
           good == {c \in DOMAIN wire : legible(c) # {}}
           rates == mapConversionRates(wire)
           usable == Usable(wire, m.currency)
<1>1. rates = [c \in good |-> [rate |-> CHOOSE r \in legible(c) : TRUE, to |-> wire[c].target,
                               places |-> wire[c].places]]
  BY DEF mapConversionRates
<1>2. ASSUME NEW c
      PROVE  /\ legible(c) # {} <=> ParseRate(wire[c].rate).ok /\ ~IsZero(ParseRate(wire[c].rate).amount)
             /\ legible(c) # {} => (CHOOSE r \in legible(c) : TRUE) = ParseRate(wire[c].rate).amount
  <2> DEFINE parsed == ParseRate(wire[c].rate)
  <2>1. ASSUME parsed.ok, ~IsZero(parsed.amount) PROVE legible(c) = {parsed.amount}
    BY <2>1
  <2>2. ASSUME ~(parsed.ok /\ ~IsZero(parsed.amount)) PROVE legible(c) = {}
    BY <2>2
  <2> HIDE DEF legible, parsed
  <2>3. ASSUME parsed.ok, ~IsZero(parsed.amount) PROVE (CHOOSE r \in legible(c) : TRUE) = parsed.amount
    BY <2>1, <2>3
  <2> QED
    BY <2>1, <2>2, <2>3 DEF parsed
<1>3. usable = {wire[c] : c \in {c \in DOMAIN wire \cap {m.currency} :
                   ParseRate(wire[c].rate).ok /\ ~IsZero(ParseRate(wire[c].rate).amount)}}
  BY DEF Usable
<1> HIDE DEF legible, rates, usable
<1>4. usable # {} <=> m.currency \in good
  BY <1>2, <1>3
<1>5. usable # {} => usable = {wire[m.currency]}
  BY <1>3
<1>6. DOMAIN rates = good
  BY <1>1
<1>7. ASSUME m.currency \in good
      PROVE  rates[m.currency] = [rate |-> ParseRate(wire[m.currency].rate).amount,
                                  to |-> wire[m.currency].target, places |-> wire[m.currency].places]
  BY <1>1, <1>2, <1>7
<1>8. \A c \in good : c \in DOMAIN wire
  OBVIOUS
<1> HIDE DEF good
<1>9. ASSUME m.currency \in good
      PROVE  /\ rates[m.currency].to = wire[m.currency].target
             /\ rates[m.currency].rate = ParseRate(wire[m.currency].rate).amount
             /\ rates[m.currency].places = wire[m.currency].places
  BY <1>7, <1>9
<1> QED
  BY <1>4, <1>5, <1>6, <1>8, <1>9 DEF rates, usable

\* A price is converted exactly where its answer had a usable rate for it and the
\* product is not too large, and the same rate gives the same figure.
LEMMA ConversionTells ==
    ASSUME NEW wire, NEW m
    PROVE  LET rates  == mapConversionRates(wire)
               usable == Usable(wire, m.currency)
           IN  /\ usable = {} => Convert(rates, m) = {}
               /\ usable # {} /\ Convertible(wire, m) => Convert(rates, m) # {}
<1> DEFINE rates == mapConversionRates(wire)
           usable == Usable(wire, m.currency)
<1>1. m.currency \in DOMAIN rates <=> usable # {}
  BY ConvertsWhereUsable
<1>2. usable # {} => /\ usable = {wire[m.currency]}
                     /\ rates[m.currency].rate = ParseRate(wire[m.currency].rate).amount
  BY ConvertsWhereUsable
<1> HIDE DEF rates
<1>3. ASSUME usable = {} PROVE Convert(rates, m) = {}
  BY <1>1, <1>3 DEF Convert
<1>4. ASSUME usable # {}, Convertible(wire, m) PROVE Convert(rates, m) # {}
  <2>1. MulAmount(m.amount, rates[m.currency].rate) # {}
    BY <1>2, <1>4 DEF Convertible
  <2>2. Convert(rates, m) = {Money(Round(product, rates[m.currency].places), rates[m.currency].to) :
                                product \in MulAmount(m.amount, rates[m.currency].rate)}
    BY <1>1, <1>4 DEF Convert
  <2> QED
    BY <2>1, <2>2
<1> QED
  BY <1>3, <1>4 DEF rates

LEMMA SameRateSameFigure ==
    ASSUME NEW wire, NEW other, NEW m, Usable(wire, m.currency) = Usable(other, m.currency)
    PROVE  Display(mapConversionRates(wire), m) = Display(mapConversionRates(other), m)
<1> DEFINE rates == mapConversionRates(wire)
           again == mapConversionRates(other)
<1>1. CASE Usable(wire, m.currency) = {}
  <2>1. Convert(rates, m) = {} /\ Convert(again, m) = {}
    BY <1>1, ConversionTells
  <2> HIDE DEF rates, again
  <2>2. Display(rates, m) = Display(again, m)
    BY <2>1 DEF Display, ConvertOrOriginal
  <2> QED
    BY <2>2 DEF rates, again
<1>2. CASE Usable(wire, m.currency) # {}
  <2>1. wire[m.currency] = other[m.currency]
    <3>1. Usable(wire, m.currency) = {wire[m.currency]} /\ Usable(other, m.currency) = {other[m.currency]}
      BY <1>2, ConvertsWhereUsable
    <3>2. {wire[m.currency]} = {other[m.currency]}
      BY <3>1
    <3>3. \A a, b : {a} = {b} => a = b
      OBVIOUS
    <3> QED
      BY <3>2, <3>3
  <2>2. /\ m.currency \in DOMAIN rates /\ m.currency \in DOMAIN again
        /\ rates[m.currency].to = wire[m.currency].target
        /\ rates[m.currency].rate = ParseRate(wire[m.currency].rate).amount
        /\ rates[m.currency].places = wire[m.currency].places
        /\ again[m.currency].to = other[m.currency].target
        /\ again[m.currency].rate = ParseRate(other[m.currency].rate).amount
        /\ again[m.currency].places = other[m.currency].places
    BY <1>2, ConvertsWhereUsable
  <2> HIDE DEF rates, again
  <2>3. Convert(rates, m) = Convert(again, m)
    BY <2>1, <2>2 DEF Convert
  <2>4. Display(rates, m) = Display(again, m)
    BY <2>3 DEF Display, ConvertOrOriginal
  <2> QED
    BY <2>4 DEF rates, again
<1> QED
  BY <1>1, <1>2

\* An offer's ID tells the currency it was found in, so the rates of its
\* re-verification convert to the currency of the search that showed it, and
\* give the same figure where neither price nor rate has moved.
THEOREM PriceConfirmedIsPriceShown == Spec => []ReverifyShowsWhatSearchShowed
<1>1. OffersFound => ReverifyShowsWhatSearchShowed
  <2> SUFFICES ASSUME OffersFound, NEW d \in detail, NEW found \in results,
                      NEW i \in DOMAIN found.hotels, NEW o \in ToSet(found.hotels[i].offers),
                      o.id = d.offer.offer.id
               PROVE  LET quoted   == Payable(o.price)
                          requoted == Payable(d.offer.offer.price)
                          before   == Usable(found.dictionary, quoted.currency)
                          now      == Usable(d.dictionary, requoted.currency)
                          shown    == DisplayTotal(found.hotels[i].rates, o)
                          again    == DisplayTotal(d.offer.rates, d.offer.offer)
                      IN  /\ o.price = d.offer.offer.price /\ before = now => again = shown
                          /\ requoted.currency = quoted.currency /\ (before = {} <=> now = {})
                             /\ Convertible(found.dictionary, quoted) /\ Convertible(d.dictionary, requoted)
                                => again.amount.currency = shown.amount.currency
    BY DEF ReverifyShowsWhatSearchShowed
  <2> DEFINE old == found.dictionary
             new == d.dictionary
             quoted == Payable(o.price)
             requoted == Payable(d.offer.offer.price)
             before == Usable(old, quoted.currency)
             now == Usable(new, requoted.currency)
             shown == Display(mapConversionRates(old), quoted)
             again == Display(mapConversionRates(new), requoted)
  <2>1. PICK c \in DOMAIN Dictionaries :
           /\ d.dictionary \in Dictionaries[c]
           /\ d.offer.rates = mapConversionRates(d.dictionary) /\ FoundIn(d.offer.offer, c)
    BY DEF OffersFound
  <2>2. /\ found.currency \in DOMAIN Dictionaries /\ found.dictionary \in Dictionaries[found.currency]
        /\ found.hotels[i].rates = mapConversionRates(found.dictionary) /\ FoundIn(o, found.currency)
    BY DEF OffersFound, FoundHotels
  <2>3. c = found.currency
    BY <2>1, <2>2, AnswersAssumption DEF FoundIn
  <2>4. new \in Dictionaries[c] /\ old \in Dictionaries[c]
    BY <2>1, <2>2, <2>3
  <2>5. shown = DisplayTotal(found.hotels[i].rates, o) /\ again = DisplayTotal(d.offer.rates, d.offer.offer)
    BY <2>1, <2>2 DEF DisplayTotal
  <2>6. o.price = d.offer.offer.price => requoted = quoted
    OBVIOUS
  <2> HIDE DEF old, new, quoted, requoted
  <2>7. ASSUME requoted = quoted, before = now PROVE again = shown
    BY <2>7, SameRateSameFigure
  <2>8. ASSUME requoted.currency = quoted.currency, before = {} <=> now = {},
               Convertible(old, quoted), Convertible(new, requoted)
        PROVE  again.amount.currency = shown.amount.currency
    <3> DEFINE rates == mapConversionRates(old)
               rerates == mapConversionRates(new)
    <3>1. CASE before = {}
      <4>1. Convert(rates, quoted) = {} /\ Convert(rerates, requoted) = {}
        BY <2>8, <3>1, ConversionTells
      <4>2. shown.amount = quoted /\ again.amount = requoted
        <5> HIDE DEF rates, rerates
        <5>1. /\ Display(rates, quoted).amount = quoted
              /\ Display(rerates, requoted).amount = requoted
          BY <4>1, DisplayTells
        <5> QED
          BY <5>1 DEF rates, rerates
      <4> QED
        BY <2>8, <4>2
    <3>2. CASE before # {}
      <4>1. Convert(rates, quoted) # {} /\ Convert(rerates, requoted) # {}
        BY <2>8, <3>2, ConversionTells
      <4>2. /\ rates[quoted.currency].to = old[quoted.currency].target
            /\ rerates[requoted.currency].to = new[requoted.currency].target
            /\ quoted.currency \in DOMAIN old /\ requoted.currency \in DOMAIN new
        BY <2>8, <3>2, ConvertsWhereUsable
      <4>3. old[quoted.currency].target = new[quoted.currency].target
        BY <2>4, <2>8, <4>2, ConversionAssumption
      <4>4. /\ shown.amount.currency = rates[quoted.currency].to
            /\ again.amount.currency = rerates[requoted.currency].to
        <5> HIDE DEF rates, rerates
        <5>1. /\ Display(rates, quoted).amount.currency = rates[quoted.currency].to
              /\ Display(rerates, requoted).amount.currency = rerates[requoted.currency].to
          BY <4>1, DisplayTells
        <5> QED
          BY <5>1 DEF rates, rerates
      <4> QED
        BY <2>8, <4>2, <4>3, <4>4
    <3> QED
      BY <3>1, <3>2
  <2> HIDE DEF shown, again, before, now
  <2>9. /\ requoted = quoted /\ before = now => again = shown
        /\ requoted.currency = quoted.currency /\ (before = {} <=> now = {})
           /\ Convertible(old, quoted) /\ Convertible(new, requoted)
              => again.amount.currency = shown.amount.currency
    BY <2>7, <2>8
  <2> QED
    BY <2>5, <2>6, <2>9 DEF before, now, old, new, quoted, requoted
<1> QED
  BY <1>1, OffersFoundHolds, PTL

-----------------------------------------------------------------------------
(* What is published. *)

\* The members of the blocks that are there.
LEMMA PresentBlocks ==
    ASSUME NEW A, NEW blocks \in Seq(SUBSET A)
    PROVE  /\ Present(blocks) \in Seq(A)
           /\ Len(Present(blocks)) = Len(Kept(blocks, ToSet(blocks) \ {{}}))
           /\ \A x \in ToSet(Present(blocks)) : \E block \in ToSet(blocks) : x \in block
           /\ \A x : {x} \in ToSet(blocks) => x \in ToSet(Present(blocks))
<1> DEFINE there == Kept(blocks, ToSet(blocks) \ {{}})
           Member(i) == CHOOSE x \in there[i] : TRUE
           present == [i \in DOMAIN there |-> Member(i)]
<1>1. /\ there \in Seq(SUBSET A)
      /\ ToSet(there) = ToSet(blocks) \cap (ToSet(blocks) \ {{}})
  BY KeptElements
<1>2. Present(blocks) = present
  BY DEF Present
<1> HIDE DEF there
<1>3. DOMAIN there = 1..Len(there) /\ Len(there) \in Nat
  BY <1>1
<1>4. ASSUME NEW i \in DOMAIN there
      PROVE  there[i] \in ToSet(blocks) /\ there[i] # {} /\ there[i] \subseteq A
  <2>1. there[i] \in ToSet(there) /\ there[i] \in SUBSET A
    BY <1>1 DEF ToSet
  <2> QED
    BY <1>1, <2>1
<1>5. ASSUME NEW i \in DOMAIN there PROVE Member(i) \in there[i] /\ Member(i) \in A
  <2>1. there[i] # {} /\ there[i] \subseteq A
    BY <1>4
  <2>2. Member(i) \in there[i]
    BY <2>1
  <2> QED
    BY <2>1, <2>2
<1> HIDE DEF Member
<1>6. present \in [1..Len(there) -> A]
  BY <1>3, <1>5
<1>7. present \in Seq(A) /\ Len(present) = Len(there)
  BY <1>3, <1>6
<1>8. ASSUME NEW x \in ToSet(present) PROVE \E block \in ToSet(blocks) : x \in block
  <2>1. PICK i \in DOMAIN there : x = Member(i)
    BY DEF ToSet
  <2> QED
    BY <1>4, <1>5, <2>1
<1>9. ASSUME NEW x, {x} \in ToSet(blocks) PROVE x \in ToSet(present)
  <2>1. {x} \in ToSet(there)
    BY <1>1, <1>9
  <2>2. PICK i \in DOMAIN there : there[i] = {x}
    BY <2>1 DEF ToSet
  <2>3. Member(i) = x /\ present[i] = Member(i) /\ DOMAIN present = DOMAIN there
    BY <1>5, <2>2
  <2> HIDE DEF present
  <2> QED
    BY <2>2, <2>3 DEF ToSet
<1> HIDE DEF present
<1> QED
  BY <1>2, <1>7, <1>8, <1>9 DEF there

Rendition == [url : Text, dimensions : Optional(DimensionsResponse)]

\* A picture is an asset with an image, and an asset has the text it came with.
LEMMA AssetTells ==
    ASSUME NEW m \in MediaResponse
    PROVE  /\ IsVisual(MediaAsset(m)) <=> HasImage(m)
           /\ MediaAsset(m).url = m.href /\ MediaAsset(m).tags = m.tags
           /\ MediaAsset(m).scales \in Seq(Rendition)
           /\ \A t \in MediaAsset(m).description : t \in [value : Text, type : Text] /\ t.value # ""
           /\ MediaAsset(m).description # {} <=> HasText(m)
           /\ \A t \in m.description :
                 t.text # "" => MediaAsset(m).description = {[value |-> t.text, type |-> t.type]}
<1> DEFINE a == MediaAsset(m)
           scales == [i \in DOMAIN m.scales |-> [url |-> m.scales[i].href,
                                                 dimensions |-> m.scales[i].dimensions]]
           texts == UNION {QualifiedText(t) : t \in m.description}
<1>1. a.url = m.href /\ a.tags = m.tags /\ a.scales = scales /\ a.description = texts
  BY DEF MediaAsset
<1> HIDE DEF a
<1>2. /\ m.scales \in Seq(MediaScaleResponse)
      /\ m.description \subseteq QualifiedFreeTextResponse
      /\ \A t, u \in m.description : t = u
  BY DEF MediaResponse, Optional
<1>3. DOMAIN scales = DOMAIN m.scales /\ \A i \in DOMAIN m.scales : scales[i].url = m.scales[i].href
  OBVIOUS
<1>4. scales \in Seq(Rendition)
  <2>1. DOMAIN m.scales = 1..Len(m.scales) /\ Len(m.scales) \in Nat
    BY <1>2
  <2>2. ASSUME NEW i \in DOMAIN m.scales
        PROVE  [url |-> m.scales[i].href, dimensions |-> m.scales[i].dimensions] \in Rendition
    <3>1. m.scales[i] \in MediaScaleResponse
      BY <1>2
    <3> QED
      BY <3>1 DEF MediaScaleResponse, Rendition
  <2>3. scales \in [1..Len(m.scales) -> Rendition]
    BY <2>1, <2>2
  <2> QED
    BY <2>1, <2>3
<1> HIDE DEF scales
<1>5. IsVisual(a) <=> HasImage(m)
  BY <1>1, <1>3 DEF IsVisual, HasImage
<1>6. ASSUME NEW t \in m.description
      PROVE  QualifiedText(t) = IF t.text = "" THEN {} ELSE {[value |-> t.text, type |-> t.type]}
  BY DEF QualifiedText
<1>7. ASSUME NEW u \in texts PROVE u \in [value : Text, type : Text] /\ u.value # "" /\ HasText(m)
  <2>1. PICK t \in m.description : u \in QualifiedText(t)
    OBVIOUS
  <2>2. t.text # "" /\ u = [value |-> t.text, type |-> t.type]
    BY <1>6, <2>1
  <2>3. t.text \in Text /\ t.type \in Text
    BY <1>2 DEF QualifiedFreeTextResponse
  <2> QED
    BY <2>2, <2>3 DEF HasText
<1>8. ASSUME NEW t \in m.description, t.text # ""
      PROVE  texts = {[value |-> t.text, type |-> t.type]}
  <2>1. m.description = {t}
    BY <1>2
  <2>2. texts = QualifiedText(t)
    BY <2>1
  <2> QED
    BY <1>6, <1>8, <2>2
<1>9. texts # {} <=> HasText(m)
  <2>1. HasText(m) => texts # {}
    BY <1>8 DEF HasText
  <2> QED
    BY <1>7, <2>1
<1> HIDE DEF texts
<1> QED
  BY <1>1, <1>4, <1>5, <1>7, <1>8, <1>9 DEF a

Prosaic(m) == HasText(m) /\ ~HasImage(m)

PieceOf(t, m) ==
    [value |-> t.text, type |-> IF t.type = "" /\ m.tags # <<>> THEN m.tags[1] ELSE t.type]

\* What splitMedia makes of an asset without an image.
ProseOf(m) ==
    LET a == MediaAsset(m)
    IN  {[t EXCEPT !.type = IF t.type = "" /\ a.tags # <<>> THEN a.tags[1] ELSE t.type] :
            t \in IF IsVisual(a) THEN {} ELSE a.description}

Pieces == [value : Text, type : Text]

LEMMA ProseTells ==
    ASSUME NEW m \in MediaResponse
    PROVE  /\ ProseOf(m) \subseteq Pieces
           /\ \A p \in ProseOf(m) : p.value # ""
           /\ ProseOf(m) # {} <=> Prosaic(m)
           /\ \A t \in m.description : t.text # "" /\ Prosaic(m) => ProseOf(m) = {PieceOf(t, m)}
<1> DEFINE a == MediaAsset(m)
           Filed(t) == [t EXCEPT !.type = IF t.type = "" /\ a.tags # <<>> THEN a.tags[1] ELSE t.type]
           texts == IF IsVisual(a) THEN {} ELSE a.description
<1>1. /\ IsVisual(a) <=> HasImage(m)
      /\ a.tags = m.tags
      /\ \A t \in a.description : t \in Pieces /\ t.value # ""
      /\ a.description # {} <=> HasText(m)
      /\ \A t \in m.description :
            t.text # "" => a.description = {[value |-> t.text, type |-> t.type]}
  BY AssetTells DEF Pieces
<1>2. ProseOf(m) = {Filed(t) : t \in texts}
  BY DEF ProseOf
<1> HIDE DEF a
<1>3. m.tags \in Seq(Text)
  BY DEF MediaResponse
<1>4. m.tags # <<>> => m.tags[1] \in Text
  BY <1>3
<1>5. ASSUME NEW t \in Pieces
      PROVE  /\ Filed(t) \in Pieces /\ Filed(t).value = t.value
             /\ Filed(t).type = IF t.type = "" /\ m.tags # <<>> THEN m.tags[1] ELSE t.type
  BY <1>1, <1>4 DEF Pieces
<1>6. \A t \in texts : t \in Pieces /\ t.value # ""
  BY <1>1
<1>7. texts # {} <=> Prosaic(m)
  BY <1>1 DEF Prosaic
<1>8. ASSUME NEW t \in m.description, t.text # "", Prosaic(m) PROVE ProseOf(m) = {PieceOf(t, m)}
  <2> DEFINE u == [value |-> t.text, type |-> t.type]
  <2>1. texts = {u}
    BY <1>1, <1>8 DEF Prosaic
  <2>2. ProseOf(m) = {Filed(u)}
    BY <1>2, <2>1
  <2>3. Filed(u) = PieceOf(t, m)
    <3>1. u \in Pieces /\ u.value = t.text /\ u.type = t.type
      BY <1>6, <2>1
    <3> DEFINE type == IF t.type = "" /\ m.tags # <<>> THEN m.tags[1] ELSE t.type
    <3>2. Filed(u) \in Pieces /\ Filed(u).value = t.text /\ Filed(u).type = type
      BY <1>5, <3>1
    <3>3. PieceOf(t, m) = [value |-> t.text, type |-> type]
      BY DEF PieceOf
    <3> HIDE DEF type, Filed
    <3> QED
      BY <3>2, <3>3 DEF Pieces
  <2> QED
    BY <2>2, <2>3
<1> HIDE DEF Filed, texts
<1>9. ASSUME NEW p \in ProseOf(m) PROVE p \in Pieces /\ p.value # ""
  <2>1. PICK t \in texts : p = Filed(t)
    BY <1>2
  <2>2. t \in Pieces /\ t.value # ""
    BY <1>6
  <2> QED
    BY <1>5, <2>1, <2>2
<1>10. ProseOf(m) # {} <=> Prosaic(m)
  BY <1>2, <1>7
<1> QED
  BY <1>8, <1>9, <1>10

\* Each asset with an image is a photograph, in its place, and each text
\* without one a piece of prose.
LEMMA SplitTells ==
    ASSUME NEW wire \in Seq(MediaResponse)
    PROVE  /\ \A a \in ToSet(splitMedia(wire).photos) :
                 \E m \in ToSet(wire) : a = MediaAsset(m) /\ HasImage(m)
           /\ \A m \in ToSet(wire) : HasImage(m) => MediaAsset(m) \in ToSet(splitMedia(wire).photos)
           /\ Len(splitMedia(wire).photos) = Len(Kept(wire, {m \in ToSet(wire) : HasImage(m)}))
           /\ splitMedia(wire).photos \in Seq({MediaAsset(m) : m \in MediaResponse})
           /\ splitMedia(wire).prose \in Seq(Pieces)
           /\ Len(splitMedia(wire).prose) = Len(Kept(wire, {m \in ToSet(wire) : Prosaic(m)}))
           /\ \A p \in ToSet(splitMedia(wire).prose) :
                 p.value # "" /\ \E m \in ToSet(wire) : Prosaic(m)
           /\ \A m \in ToSet(wire) : \A t \in m.description :
                 t.text # "" /\ Prosaic(m) => PieceOf(t, m) \in ToSet(splitMedia(wire).prose)
<1> DEFINE A == {MediaAsset(m) : m \in MediaResponse}
           assets == MediaAssets(wire)
           seen == {a \in ToSet(assets) : IsVisual(a)}
           photos == splitMedia(wire).photos
           blocks == [i \in DOMAIN wire |-> ProseOf(wire[i])]
           prose == splitMedia(wire).prose
           n == Len(wire)
<1>1. n \in Nat /\ DOMAIN wire = 1..n /\ \A i \in 1..n : wire[i] \in MediaResponse
  OBVIOUS
<1> HIDE DEF n
<1>2. assets = [i \in 1..n |-> MediaAsset(wire[i])]
  BY <1>1 DEF MediaAssets
<1>3. photos = Kept(assets, seen) /\ prose = Present(blocks)
  <2>1. photos = Kept(assets, seen)
    BY DEF splitMedia
  <2> DEFINE Filed(a) == {[t EXCEPT !.type = IF t.type = "" /\ a.tags # <<>> THEN a.tags[1] ELSE t.type] :
                             t \in IF IsVisual(a) THEN {} ELSE a.description}
  <2>2. prose = Present([i \in DOMAIN assets |-> Filed(assets[i])])
    BY DEF splitMedia
  <2>3. \A i \in 1..n : Filed(assets[i]) = ProseOf(wire[i])
    BY <1>2 DEF ProseOf
  <2>4. DOMAIN assets = 1..n
    BY <1>2
  <2> HIDE DEF Filed, assets
  <2>5. [i \in DOMAIN assets |-> Filed(assets[i])] = blocks
    BY <1>1, <2>3, <2>4
  <2> QED
    BY <2>1, <2>2, <2>5
<1> HIDE DEF assets, photos, prose
<1>4. assets \in Seq(A) /\ Len(assets) = n /\ DOMAIN assets = 1..n
  BY <1>1, <1>2
<1>5. \A i \in 1..n : IsVisual(assets[i]) <=> HasImage(wire[i])
  BY <1>1, <1>2, AssetTells
<1>6. photos \in Seq(A) /\ ToSet(photos) = ToSet(assets) \cap seen
  <2> HIDE DEF A, seen
  <2> QED
    BY <1>3, <1>4, KeptElements
<1>7. ASSUME NEW a \in ToSet(photos)
      PROVE  \E m \in ToSet(wire) : a = MediaAsset(m) /\ HasImage(m)
  <2>1. a \in ToSet(assets) /\ IsVisual(a)
    BY <1>6
  <2>2. PICK i \in 1..n : a = assets[i]
    BY <1>4, <2>1 DEF ToSet
  <2>3. a = MediaAsset(wire[i]) /\ HasImage(wire[i]) /\ wire[i] \in ToSet(wire)
    BY <1>1, <1>2, <1>5, <2>1, <2>2 DEF ToSet
  <2> QED
    BY <2>3
<1>8. ASSUME NEW m \in ToSet(wire), HasImage(m) PROVE MediaAsset(m) \in ToSet(photos)
  <2>1. PICK i \in 1..n : m = wire[i]
    BY <1>1 DEF ToSet
  <2>2. assets[i] = MediaAsset(m) /\ assets[i] \in ToSet(assets)
    BY <1>2, <1>4, <2>1 DEF ToSet
  <2> QED
    BY <1>5, <1>6, <1>8, <2>1, <2>2
<1>9. Len(photos) = Len(Kept(wire, {m \in ToSet(wire) : HasImage(m)}))
  <2> DEFINE pictures == {m \in ToSet(wire) : HasImage(m)}
  <2>1. \A i \in 1..n : assets[i] \in seen <=> wire[i] \in pictures
    BY <1>1, <1>4, <1>5 DEF ToSet
  <2> HIDE DEF pictures, seen, A
  <2>2. Len(Kept(assets, seen)) = Len(Kept(wire, pictures))
    BY <1>4, <2>1, KeptAlike DEF n
  <2> QED
    BY <1>3, <2>2 DEF pictures
<1>10. \A i \in 1..n : /\ blocks[i] = ProseOf(wire[i]) /\ blocks[i] \subseteq Pieces
                       /\ blocks[i] # {} <=> Prosaic(wire[i])
                       /\ \A p \in blocks[i] : p.value # ""
  BY <1>1, ProseTells
<1>11. blocks \in Seq(SUBSET Pieces) /\ Len(blocks) = n /\ DOMAIN blocks = 1..n
  <2>1. blocks \in [1..n -> SUBSET Pieces]
    BY <1>1, <1>10
  <2> QED
    BY <1>1, <2>1
<1> HIDE DEF blocks
<1>12. /\ prose \in Seq(Pieces)
       /\ Len(prose) = Len(Kept(blocks, ToSet(blocks) \ {{}}))
       /\ \A p \in ToSet(prose) : \E block \in ToSet(blocks) : p \in block
       /\ \A p : {p} \in ToSet(blocks) => p \in ToSet(prose)
  BY <1>3, <1>11, PresentBlocks
<1>13. Len(prose) = Len(Kept(wire, {m \in ToSet(wire) : Prosaic(m)}))
  <2> DEFINE texts == {m \in ToSet(wire) : Prosaic(m)}
             there == ToSet(blocks) \ {{}}
  <2>1. \A i \in 1..n : blocks[i] \in there <=> wire[i] \in texts
    BY <1>1, <1>10, <1>11 DEF ToSet
  <2> HIDE DEF texts, there
  <2>2. Len(Kept(blocks, there)) = Len(Kept(wire, texts))
    BY <1>11, <2>1, KeptAlike DEF n
  <2> QED
    BY <1>12, <2>2 DEF texts, there
<1>14. ASSUME NEW p \in ToSet(prose) PROVE p.value # "" /\ \E m \in ToSet(wire) : Prosaic(m)
  <2>1. PICK block \in ToSet(blocks) : p \in block
    BY <1>12
  <2>2. PICK i \in 1..n : block = blocks[i]
    BY <1>11 DEF ToSet
  <2>3. p.value # "" /\ Prosaic(wire[i]) /\ wire[i] \in ToSet(wire)
    BY <1>1, <1>10, <2>1, <2>2 DEF ToSet
  <2> QED
    BY <2>3
<1>15. ASSUME NEW m \in ToSet(wire), NEW t \in m.description, t.text # "", Prosaic(m)
       PROVE  PieceOf(t, m) \in ToSet(prose)
  <2>1. PICK i \in 1..n : m = wire[i]
    BY <1>1 DEF ToSet
  <2>2. ProseOf(m) = {PieceOf(t, m)}
    BY <1>1, <1>15, <2>1, ProseTells
  <2>3. {PieceOf(t, m)} \in ToSet(blocks)
    BY <1>10, <1>11, <2>1, <2>2 DEF ToSet
  <2> QED
    BY <1>12, <2>3
<1> QED
  BY <1>6, <1>7, <1>8, <1>9, <1>12, <1>13, <1>14, <1>15 DEF photos, prose

\* Where each part of the page comes from.
LEMMA PageParts ==
    ASSUME NEW c
    PROVE  /\ mapHotel(c).media = splitMedia(c.basic.media).photos
           /\ mapHotel(c).descriptions = splitMedia(c.basic.media).prose
           /\ mapHotel(c).description =
                 IF QualifiedText(c.basic.description) # {} THEN QualifiedText(c.basic.description)
                 ELSE longestDescription(splitMedia(c.basic.media).prose)
           /\ mapHotel(c).facilities = mapFacilities(c.facilities)
           /\ mapHotel(c).pointsOfInterest =
                 [i \in DOMAIN c.pointOfInterest |-> mapPointOfInterest(c.pointOfInterest[i])]
  BY DEF mapHotel

LEMMA ContentParts ==
    ASSUME NEW c \in HotelContentResponse
    PROVE  /\ c.basic.media \in Seq(MediaResponse)
           /\ c.basic.description \in QualifiedFreeTextResponse
           /\ c.facilities.restaurantInfo.restaurants \in Seq(RestaurantResponse)
           /\ c.pointOfInterest \in Seq(PointOfInterestResponse)
<1>1. /\ c.basic \in BasicResponse /\ c.facilities \in FacilityResponse
      /\ c.pointOfInterest \in Seq(PointOfInterestResponse)
  BY DEF HotelContentResponse
<1>2. c.basic.media \in Seq(MediaResponse) /\ c.basic.description \in QualifiedFreeTextResponse
  BY <1>1 DEF BasicResponse
<1>3. c.facilities.restaurantInfo \in RestaurantInfoResponse
  BY <1>1 DEF FacilityResponse
<1>4. c.facilities.restaurantInfo.restaurants \in Seq(RestaurantResponse)
  BY <1>3 DEF RestaurantInfoResponse
<1> QED
  BY <1>1, <1>2, <1>4

LEMMA PrimaryIsVisual ==
    ASSUME NEW c \in HotelContentResponse
    PROVE  /\ PrimaryPhoto(mapHotel(c)) # {} <=> \E m \in ToSet(c.basic.media) : HasImage(m)
           /\ \A photo \in PrimaryPhoto(mapHotel(c)) : \E m \in MediaResponse : photo = MediaAsset(m)
<1> DEFINE wire == c.basic.media
           photos == splitMedia(wire).photos
           seen == {a \in ToSet(photos) : IsVisual(a)}
           visual == Kept(photos, seen)
           A == {MediaAsset(m) : m \in MediaResponse}
<1>1. wire \in Seq(MediaResponse)
  BY ContentParts
<1>2. PrimaryPhoto(mapHotel(c)) = IF visual = <<>> THEN {} ELSE {Head(visual)}
  BY PageParts DEF PrimaryPhoto
<1> HIDE DEF wire
<1>3. /\ photos \in Seq(A)
      /\ \A a \in ToSet(photos) : \E m \in ToSet(wire) : a = MediaAsset(m) /\ HasImage(m)
      /\ \A m \in ToSet(wire) : HasImage(m) => MediaAsset(m) \in ToSet(photos)
  BY <1>1, SplitTells
<1>4. \A m \in ToSet(wire) : m \in MediaResponse
  BY <1>1 DEF ToSet
<1>5. \A a \in ToSet(photos) : a \in seen
  BY <1>3, <1>4, AssetTells
<1> HIDE DEF photos, seen, A
<1>6. /\ visual = <<>> <=> \A a \in ToSet(photos) : a \notin seen
      /\ visual # <<>> => Head(visual) \in ToSet(photos)
  BY <1>3, FirstKept
<1> HIDE DEF visual
<1>7. visual # <<>> <=> \E m \in ToSet(wire) : HasImage(m)
  BY <1>3, <1>5, <1>6
<1>8. \A photo \in PrimaryPhoto(mapHotel(c)) : \E m \in MediaResponse : photo = MediaAsset(m)
  BY <1>2, <1>3, <1>4, <1>6
<1> QED
  BY <1>2, <1>7, <1>8 DEF wire

LEMMA PicturesAndProse ==
    ASSUME NEW c \in HotelContentResponse PROVE MediaAreKept(c, mapHotel(c))
<1> DEFINE wire == c.basic.media
           pictures == {m \in ToSet(wire) : HasImage(m)}
           texts == {m \in ToSet(wire) : HasText(m) /\ ~HasImage(m)}
           h == mapHotel(c)
<1>1. wire \in Seq(MediaResponse)
  BY ContentParts
<1>2. h.media = splitMedia(wire).photos /\ h.descriptions = splitMedia(wire).prose
  BY PageParts
<1>3. PrimaryPhoto(h) # {} <=> pictures # {}
  BY PrimaryIsVisual
<1> HIDE DEF h, wire
<1>4. /\ Len(h.media) = Len(Kept(wire, pictures))
      /\ Len(h.descriptions) = Len(Kept(wire, {m \in ToSet(wire) : Prosaic(m)}))
  BY <1>1, <1>2, SplitTells
<1>5. {m \in ToSet(wire) : Prosaic(m)} = texts
  BY DEF Prosaic
<1>6. Len(h.descriptions) = Len(Kept(wire, texts))
  BY <1>4, <1>5
<1> HIDE DEF pictures, texts
<1>7. (PrimaryPhoto(h) # {}) = (pictures # {})
  BY <1>3
<1> QED
  BY <1>4, <1>6, <1>7 DEF MediaAreKept, h, wire, pictures, texts

\* An asset that has an original, or a rendition whose width is known, has an
\* address at any width.
LEMMA BestHasAddress ==
    ASSUME NEW a, a.scales \in Seq(Rendition), NEW width \in Numbers,
           a.url # "" \/ \E i \in DOMAIN a.scales :
                            a.scales[i].url # "" /\ \E d \in a.scales[i].dimensions : d.width > 0
    PROVE  Best(a, width) # ""
<1> DEFINE WidthOf(s) == CHOOSE w \in {d.width : d \in s.dimensions} : TRUE
           known     == {s \in ToSet(a.scales) : s.url # "" /\ \E d \in s.dimensions : d.width > 0}
           sized     == Kept(a.scales, known)
           fits      == {s \in ToSet(sized) : WidthOf(s) <= width}
           fitting   == Kept(sized, fits)
           greatest  == {s \in ToSet(fitting) : \A r \in ToSet(fitting) : WidthOf(r) <= WidthOf(s)}
           widest    == Kept(fitting, greatest)
           least     == {s \in ToSet(sized) : \A r \in ToSet(sized) : WidthOf(s) <= WidthOf(r)}
           narrowest == Kept(sized, least)
<1>1. Best(a, width) = IF fitting # <<>> THEN Head(widest).url
                       ELSE IF sized # <<>> THEN Head(narrowest).url ELSE a.url
  BY DEF Best
<1>2. \A s \in ToSet(a.scales) : s \in Rendition
  BY ElementsOf
<1>3. ASSUME NEW s \in known PROVE WidthOf(s) \in Nat /\ s.url # ""
  <2>1. s \in Rendition
    BY <1>2
  <2>2. s.dimensions \subseteq DimensionsResponse /\ s.dimensions # {}
    BY <2>1 DEF Rendition, Optional
  <2>3. WidthOf(s) \in {d.width : d \in s.dimensions}
    BY <2>2
  <2> HIDE DEF WidthOf
  <2>4. \A d \in DimensionsResponse : d.width \in Nat
    BY NumbersAssumption DEF DimensionsResponse
  <2> QED
    BY <2>2, <2>3, <2>4
<1>4. sized = <<>> <=> \A s \in ToSet(a.scales) : s \notin known
  <2> HIDE DEF known, WidthOf
  <2> QED
    BY FirstKept
<1>5. sized \in Seq(Rendition) /\ ToSet(sized) = ToSet(a.scales) \cap known
  <2> HIDE DEF known, WidthOf
  <2> QED
    BY KeptElements
<1>6. sized = <<>> => a.url # ""
  BY <1>4 DEF ToSet
<1> HIDE DEF known, WidthOf, sized
<1>7. \A s \in ToSet(sized) : WidthOf(s) \in Nat /\ s.url # ""
  BY <1>3, <1>5
<1>8. fitting \in Seq(Rendition) /\ ToSet(fitting) = ToSet(sized) \cap fits
  <2> HIDE DEF fits
  <2> QED
    BY <1>5, KeptElements
<1> HIDE DEF fitting
<1>9. ASSUME fitting # <<>> PROVE Head(widest).url # ""
  <2> DEFINE T == {WidthOf(s) : s \in ToSet(fitting)}
  <2>1. width \in Nat
    BY NumbersAssumption
  <2>2. T \in SUBSET Nat /\ \A w \in T : w <= width
    BY <1>7, <1>8
  <2>3. Head(fitting) \in ToSet(fitting)
    BY <1>8, <1>9, ElementsOf
  <2>4. WidthOf(Head(fitting)) \in T
    BY <2>3
  <2>5. \E w \in T : \A v \in T : v <= w
    <3> HIDE DEF T
    <3> QED
      BY <2>1, <2>2, <2>4, GreatestNatural
  <2>6. PICK w \in T : \A v \in T : v <= w
    BY <2>5
  <2>7. PICK s \in ToSet(fitting) : w = WidthOf(s)
    OBVIOUS
  <2>8. \A r \in ToSet(fitting) : WidthOf(r) \in T
    OBVIOUS
  <2> HIDE DEF T
  <2>9. s \in greatest
    BY <2>6, <2>7, <2>8
  <2> HIDE DEF greatest
  <2>10. widest # <<>>
    BY <1>8, <2>7, <2>9, FirstKept
  <2>11. Head(widest) \in ToSet(fitting)
    BY <1>8, <2>10, FirstKept
  <2> QED
    BY <1>7, <1>8, <2>11
<1>10. ASSUME sized # <<>> PROVE Head(narrowest).url # ""
  <2> DEFINE T == {WidthOf(s) : s \in ToSet(sized)}
  <2>1. T \in SUBSET Nat
    BY <1>7
  <2>2. Head(sized) \in ToSet(sized)
    BY <1>5, <1>10, ElementsOf
  <2>3. WidthOf(Head(sized)) \in T
    BY <2>2
  <2>4. \E w \in T : \A v \in T : w <= v
    <3> HIDE DEF T
    <3> QED
      BY <2>1, <2>3, LeastNatural
  <2>5. PICK w \in T : \A v \in T : w <= v
    BY <2>4
  <2>6. PICK s \in ToSet(sized) : w = WidthOf(s)
    OBVIOUS
  <2>7. \A r \in ToSet(sized) : WidthOf(r) \in T
    OBVIOUS
  <2> HIDE DEF T
  <2>8. s \in least
    BY <2>5, <2>6, <2>7
  <2> HIDE DEF least
  <2>9. narrowest # <<>>
    BY <1>5, <2>6, <2>8, FirstKept
  <2>10. Head(narrowest) \in ToSet(sized)
    BY <1>5, <2>9, FirstKept
  <2> QED
    BY <1>7, <2>10
<1> HIDE DEF widest, narrowest
<1> QED
  BY <1>1, <1>6, <1>9, <1>10

LEMMA LeadsWithAPhotograph ==
    ASSUME NEW c \in HotelContentResponse PROVE PhotosHaveAnAddress(mapHotel(c))
<1>1. ASSUME NEW photo \in PrimaryPhoto(mapHotel(c)) PROVE photo.scales \in Seq(Rendition)
  <2>1. PICK m \in MediaResponse : photo = MediaAsset(m)
    BY PrimaryIsVisual
  <2> QED
    BY <2>1, AssetTells
<1> QED
  BY <1>1, BestHasAddress DEF PhotosHaveAnAddress

\* There is a best piece of prose wherever there is one.
LEMMA LongestOfSome ==
    ASSUME NEW prose \in Seq(Pieces)
    PROVE  longestDescription(prose) # {} <=> prose # <<>>
<1> DEFINE Tagged(tag) == Kept(prose, {t \in ToSet(prose) : t.type = tag})
           wanted == {tag \in ToSet(descriptionPreference) : Tagged(tag) # <<>>}
           ranked == Kept(descriptionPreference, wanted)
           best == {Head(Tagged(Head(ranked)))}
           longest == {Head(Kept(prose, {t \in ToSet(prose) :
                          \A u \in ToSet(prose) : LengthOf[u.value] <= LengthOf[t.value]}))}
<1>1. longestDescription(prose) = IF ranked # <<>> THEN best ELSE IF prose # <<>> THEN longest ELSE {}
  BY DEF longestDescription
<1>2. best # {} /\ longest # {}
  OBVIOUS
<1> HIDE DEF best, longest
<1>3. ASSUME prose = <<>> PROVE ranked = <<>>
  <2>1. ToSet(prose) = {}
    BY <1>3 DEF ToSet
  <2>2. ASSUME NEW tag PROVE Tagged(tag) = <<>>
    <3> DEFINE those == {t \in ToSet(prose) : t.type = tag}
    <3>1. \A x \in ToSet(prose) : x \notin those
      BY <2>1
    <3> HIDE DEF those
    <3>2. Kept(prose, those) = <<>>
      BY <3>1, FirstKept
    <3> QED
      BY <3>2 DEF those
  <2> HIDE DEF Tagged
  <2>3. \A tag \in ToSet(descriptionPreference) : tag \notin wanted
    BY <2>2
  <2>4. descriptionPreference \in Seq({descriptionPreference[i] : i \in 1..6})
    <3> DEFINE tags == {descriptionPreference[i] : i \in 1..6}
    <3>1. ASSUME NEW a, NEW b, NEW c, NEW d, NEW e, NEW f
          PROVE  LET s == <<a, b, c, d, e, f>> IN s \in Seq({s[i] : i \in 1..6})
      OBVIOUS
    <3> QED
      BY <3>1 DEF descriptionPreference
  <2> HIDE DEF wanted
  <2> QED
    BY <2>3, <2>4, FirstKept
<1> HIDE DEF ranked
<1> QED
  BY <1>1, <1>2, <1>3

\* The first of the values that is not empty is not, if any is not.
LEMMA FirstIsGiven ==
    ASSUME NEW A, NEW values \in Seq(A), NEW v \in ToSet(values), v # ""
    PROVE  firstNonEmpty(values) # ""
<1> DEFINE wanted == ToSet(values) \ {""}
           given == Kept(values, wanted)
<1>1. firstNonEmpty(values) = IF given = <<>> THEN "" ELSE Head(given)
  BY DEF firstNonEmpty
<1>2. v \in wanted /\ "" \notin wanted
  OBVIOUS
<1> HIDE DEF wanted
<1>3. given # <<>> /\ Head(given) \in wanted
  BY <1>2, FirstKept
<1> HIDE DEF given
<1> QED
  BY <1>1, <1>2, <1>3

\* A venue with prose among its media has a description.
LEMMA VenuesHaveDescriptions ==
    ASSUME NEW wire \in RestaurantResponse, NEW m \in ToSet(wire.media), Prosaic(m)
    PROVE  mapRestaurant(wire).description # ""
<1> DEFINE media == wire.media
           prose == splitMedia(media).prose
           values == [i \in DOMAIN prose |-> prose[i].value]
<1>1. media \in Seq(MediaResponse)
  BY DEF RestaurantResponse
<1>2. mapRestaurant(wire).description =
         IF wire.description # "" THEN wire.description ELSE firstNonEmpty(values)
  BY DEF mapRestaurant, venueDescription
<1>3. m \in ToSet(media) /\ m \in MediaResponse
  BY <1>1, ElementsOf
<1> HIDE DEF media
<1>4. PICK t \in m.description : t.text # ""
  BY DEF Prosaic, HasText
<1>5. (\A p \in ToSet(prose) : p.value # "") /\ PieceOf(t, m) \in ToSet(prose)
  BY <1>1, <1>3, <1>4, SplitTells
<1>6. prose \in Seq(Pieces)
  BY <1>1, SplitTells
<1> HIDE DEF prose
<1>7. values \in Seq(Text)
  <2>1. DOMAIN prose = 1..Len(prose) /\ Len(prose) \in Nat
    BY <1>6
  <2>2. ASSUME NEW i \in 1..Len(prose) PROVE prose[i].value \in Text
    <3>1. prose[i] \in Pieces
      BY <1>6
    <3> QED
      BY <3>1 DEF Pieces
  <2>3. values \in [1..Len(prose) -> Text]
    BY <2>1, <2>2
  <2> QED
    BY <2>1, <2>3
<1>8. PICK i \in DOMAIN prose : PieceOf(t, m) = prose[i]
  BY <1>5 DEF ToSet
<1>9. prose[i].value # "" /\ prose[i].value \in ToSet(values)
  BY <1>5, <1>8 DEF ToSet
<1> HIDE DEF values
<1>10. firstNonEmpty(values) # ""
  BY <1>7, <1>9, FirstIsGiven
<1> QED
  BY <1>2, <1>10

LEMMA ProseHasAPlace ==
    ASSUME NEW c \in HotelContentResponse PROVE ProseIsFound(c, mapHotel(c))
<1> DEFINE wire == c.basic.media
           h == mapHotel(c)
           prose == splitMedia(wire).prose
           own == QualifiedText(c.basic.description)
<1>1. wire \in Seq(MediaResponse) /\ c.basic.description \in QualifiedFreeTextResponse
  BY ContentParts
<1>2. /\ h.descriptions = prose
      /\ h.description = IF own # {} THEN own ELSE longestDescription(prose)
      /\ h.facilities = mapFacilities(c.facilities)
  BY PageParts
<1> HIDE DEF wire, h
<1>3. /\ prose \in Seq(Pieces)
      /\ \A p \in ToSet(prose) : \E m \in ToSet(wire) : Prosaic(m)
      /\ \A m \in ToSet(wire) : \A t \in m.description :
            t.text # "" /\ Prosaic(m) => PieceOf(t, m) \in ToSet(prose)
  BY <1>1, SplitTells
<1> HIDE DEF prose
<1>4. ASSUME NEW m \in ToSet(wire), NEW t \in m.description,
             t.text # "", ~HasImage(m), t.type # "" \/ m.tags # <<>>
      PROVE  DescriptionOf(h, IF t.type # "" THEN t.type ELSE m.tags[1]) # {}
  <2> DEFINE type == IF t.type # "" THEN t.type ELSE m.tags[1]
             those == {p \in ToSet(prose) : p.type = type}
             tagged == Kept(prose, those)
  <2>1. DescriptionOf(h, type) = IF tagged = <<>> THEN {} ELSE {Head(tagged)}
    BY <1>2 DEF DescriptionOf
  <2>2. PieceOf(t, m) \in ToSet(prose)
    BY <1>3, <1>4 DEF Prosaic, HasText
  <2>3. PieceOf(t, m).type = type
    BY <1>4 DEF PieceOf
  <2>4. PieceOf(t, m) \in those
    BY <2>2, <2>3
  <2> HIDE DEF those
  <2>5. tagged # <<>>
    BY <1>3, <2>2, <2>4, FirstKept
  <2> HIDE DEF tagged
  <2> QED
    BY <2>1, <2>5
<1>5. h.description # {} <=> c.basic.description.text # "" \/ \E m \in ToSet(wire) : Prosaic(m)
  <2>1. own # {} <=> c.basic.description.text # ""
    BY DEF QualifiedText
  <2>2. longestDescription(prose) # {} <=> prose # <<>>
    BY <1>3, LongestOfSome
  <2>3. prose # <<>> => \E m \in ToSet(wire) : Prosaic(m)
    BY <1>3, ElementsOf
  <2>4. ASSUME NEW m \in ToSet(wire), Prosaic(m) PROVE prose # <<>>
    <3>1. PICK t \in m.description : t.text # ""
      BY <2>4 DEF Prosaic, HasText
    <3>2. PieceOf(t, m) \in ToSet(prose)
      BY <1>3, <2>4, <3>1
    <3> QED
      BY <3>2 DEF ToSet
  <2> HIDE DEF own
  <2> QED
    BY <1>2, <2>1, <2>2, <2>3, <2>4
<1>6. ASSUME NEW f \in h.facilities, NEW v \in f.restaurants, NEW i \in DOMAIN v.venues,
             NEW m \in ToSet(c.facilities.restaurantInfo.restaurants[i].media), Prosaic(m)
      PROVE  v.venues[i].description # ""
  <2> DEFINE restaurants == c.facilities.restaurantInfo.restaurants
  <2>1. f.restaurants = mapRestaurants(c.facilities.restaurantInfo)
    BY <1>2 DEF mapFacilities
  <2>2. v.venues = [k \in DOMAIN restaurants |-> mapRestaurant(restaurants[k])]
    BY <2>1 DEF mapRestaurants
  <2>3. restaurants \in Seq(RestaurantResponse)
    BY ContentParts
  <2>4. m \in ToSet(restaurants[i].media)
    OBVIOUS
  <2> HIDE DEF restaurants
  <2>5. restaurants[i] \in RestaurantResponse /\ v.venues[i] = mapRestaurant(restaurants[i])
    BY <2>2, <2>3
  <2> QED
    BY <1>6, <2>4, <2>5, VenuesHaveDescriptions
<1>7. (h.description # {}) =
         (c.basic.description.text # "" \/ \E m \in ToSet(wire) : HasText(m) /\ ~HasImage(m))
  BY <1>5 DEF Prosaic
<1> QED
  BY <1>4, <1>6, <1>7 DEF ProseIsFound, Prosaic, wire, h

-----------------------------------------------------------------------------
(* Distances. *)

\* A missing unit stands for kilometres.
LEMMA UnitsAreLengths ==
    /\ \A unit : UnitLength(unit) \in Nat
    /\ UnitLength("") = UnitLength("KM")
<1>1. \A n \in {Kilometre, Mile, Foot, Metre} : n \in Nat
  BY SMT DEF Kilometre, Mile, Foot, Metre
<1>2. \A unit : UnitLength(unit) \in {Kilometre, Mile, Foot, Metre}
  BY DEF UnitLength
<1>3. \A unit : unit \in {"", "KM"} => UnitLength(unit) = Kilometre
  BY DEF UnitLength
<1>4. "" \in {"", "KM"} /\ "KM" \in {"", "KM"}
  OBVIOUS
<1>5. UnitLength("") = Kilometre /\ UnitLength("KM") = Kilometre
  BY <1>3, <1>4
<1> QED
  BY <1>1, <1>2, <1>5

\* Of the distances that are known, the nearest.
LEMMA NearestKnown ==
    ASSUME NEW l, l.distances \in Seq(DistanceResponse), NEW near \in nearestDistance(l)
    PROVE  LET published == {d \in ToSet(l.distances) : d.value # 0} IN
           /\ \E d \in published : Meters(d) = Meters(near)
           /\ \A d \in published : Meters(near) <= Meters(d)
<1> DEFINE published == {d \in ToSet(l.distances) : d.value # 0}
           known == Kept(l.distances, published)
           least == {d \in ToSet(known) : \A e \in ToSet(known) : Meters(d) <= Meters(e)}
           nearest == Kept(known, least)
<1>1. near = NewDistance(Head(nearest)) /\ known # <<>>
  BY DEF nearestDistance
<1>2. known \in Seq(DistanceResponse) /\ ToSet(known) = published
  <2>1. known \in Seq(DistanceResponse) /\ ToSet(known) = ToSet(l.distances) \cap published
    <3> HIDE DEF published
    <3> QED
      BY KeptElements
  <2> QED
    BY <2>1
<1> HIDE DEF published, known
<1>3. \A d \in ToSet(known) : Meters(d) \in Nat
  <2>1. ASSUME NEW d \in DistanceResponse PROVE Meters(d) \in Nat
    <3>1. d.value \in Nat
      BY DEF DistanceResponse
    <3> DEFINE length == UnitLength(d.unit)
    <3>2. length \in Nat
      BY UnitsAreLengths
    <3>3. Meters(d) = d.value * length
      BY DEF Meters
    <3> HIDE DEF length
    <3> QED
      BY <3>1, <3>2, <3>3
  <2> QED
    BY <1>2, <2>1, ElementsOf
<1>4. Head(nearest) \in ToSet(known) /\ Head(nearest) \in least
  <2> DEFINE T == {Meters(d) : d \in ToSet(known)}
  <2>1. T \in SUBSET Nat
    BY <1>3
  <2>2. Head(known) \in ToSet(known)
    BY <1>1, <1>2, ElementsOf
  <2>3. Meters(Head(known)) \in T
    BY <2>2
  <2>4. \E w \in T : \A v \in T : w <= v
    <3> HIDE DEF T
    <3> QED
      BY <2>1, <2>3, LeastNatural
  <2>5. PICK w \in T : \A v \in T : w <= v
    BY <2>4
  <2>6. PICK d \in ToSet(known) : w = Meters(d)
    OBVIOUS
  <2>7. \A e \in ToSet(known) : Meters(e) \in T
    OBVIOUS
  <2> HIDE DEF T
  <2>8. d \in least
    BY <2>5, <2>6, <2>7
  <2> HIDE DEF least
  <2>9. nearest # <<>>
    BY <1>2, <2>6, <2>8, FirstKept
  <2> QED
    BY <1>2, <2>9, FirstKept
<1> HIDE DEF nearest
<1>5. Meters(near) = Meters(Head(nearest))
  <2> DEFINE d == Head(nearest)
             unit == IF d.unit = "" THEN "KM" ELSE d.unit
  <2>1. near = [value |-> d.value, unit |-> unit]
    BY <1>1 DEF NewDistance
  <2>2. UnitLength(unit) = UnitLength(d.unit)
    BY UnitsAreLengths
  <2> HIDE DEF d, unit
  <2>3. Meters(near) = Meters(d)
    BY <2>1, <2>2 DEF Meters
  <2> QED
    BY <2>3 DEF d
<1>6. \A e \in published : Meters(near) <= Meters(e)
  BY <1>2, <1>4, <1>5
<1>7. \E d \in published : Meters(d) = Meters(near)
  BY <1>2, <1>4, <1>5
<1> QED
  BY <1>6, <1>7 DEF published

LEMMA DistancesAreNearest ==
    ASSUME NEW c \in HotelContentResponse PROVE NearestIsNearest(c, mapHotel(c))
<1> DEFINE h == mapHotel(c)
           places == c.pointOfInterest
<1>1. places \in Seq(PointOfInterestResponse)
  BY ContentParts
<1>2. h.pointsOfInterest = [i \in DOMAIN places |-> mapPointOfInterest(places[i])]
  BY PageParts
<1> HIDE DEF h, places
<1>3. ASSUME NEW i \in DOMAIN h.pointsOfInterest
      PROVE  /\ h.pointsOfInterest[i].distance = nearestDistance(places[i].distance)
             /\ places[i].distance.distances \in Seq(DistanceResponse)
  <2>1. i \in DOMAIN places /\ h.pointsOfInterest[i] = mapPointOfInterest(places[i])
    BY <1>2
  <2>2. places[i] \in PointOfInterestResponse
    BY <1>1, <2>1
  <2>3. places[i].distance \in LocationDistanceResponse
    BY <2>2 DEF PointOfInterestResponse
  <2>4. places[i].distance.distances \in Seq(DistanceResponse)
    BY <2>3 DEF LocationDistanceResponse
  <2>5. mapPointOfInterest(places[i]).distance = nearestDistance(places[i].distance)
    BY DEF mapPointOfInterest
  <2> QED
    BY <2>1, <2>4, <2>5
<1> QED
  BY <1>3, NearestKnown DEF NearestIsNearest, h, places

\* A page is the mapping of contents that the hotel has.
PageIsPublished == \A p \in page : \E c \in Published : p = [answer |-> c, hotel |-> mapHotel(c)]

\* Every picture of a property is among its photographs, every text among its
\* descriptions, and a photograph to lead with has an address at any width;
\* prose is found by its tag; a distance shown is the nearest published.  So
\* it is whatever a property publishes.
THEOREM PublishedIsFound == Spec => []WhatIsPublishedIsFound
<1>1. Init => PageIsPublished
  BY DEF Init, PageIsPublished
<1>2. PageIsPublished /\ [Next]_vars => PageIsPublished'
  <2> SUFFICES ASSUME PageIsPublished, [Next]_vars PROVE PageIsPublished'
    OBVIOUS
  <2>1. CASE ByCity \/ ByGeocode \/ ByIDs \/ ByKeyword \/ Search \/ Get
    <3>1. page' = {}
      BY <2>1 DEF ByCity, ByGeocode, ByIDs, ByKeyword, Listing, Search, Get
    <3> QED
      BY <3>1 DEF PageIsPublished
  <2>2. CASE OpenContent
    <3>1. page' = {} \/ page' \in Pages
      BY <2>2 DEF OpenContent
    <3> QED
      BY <3>1 DEF PageIsPublished, Pages
  <2>3. CASE SellOrReprice \/ UNCHANGED vars
    <3>1. page' = page
      BY <2>3 DEF SellOrReprice, vars
    <3> QED
      BY <3>1 DEF PageIsPublished
  <2> QED
    BY <2>1, <2>2, <2>3 DEF Next
<1>3. PageIsPublished => WhatIsPublishedIsFound
  <2> SUFFICES ASSUME PageIsPublished, NEW p \in page
               PROVE  /\ MediaAreKept(p.answer, p.hotel) /\ PhotosHaveAnAddress(p.hotel)
                      /\ ProseIsFound(p.answer, p.hotel) /\ NearestIsNearest(p.answer, p.hotel)
    BY DEF WhatIsPublishedIsFound
  <2>1. PICK c \in Published : p = [answer |-> c, hotel |-> mapHotel(c)]
    BY DEF PageIsPublished
  <2>2. c \in HotelContentResponse /\ p.answer = c /\ p.hotel = mapHotel(c)
    BY <2>1, AnswersAssumption
  <2> QED
    BY <2>2, PicturesAndProse, LeadsWithAPhotograph, ProseHasAPlace, DistancesAreNearest
<1> QED
  BY <1>1, <1>2, <1>3, PTL DEF Spec
=============================================================================
