------------------------------ MODULE MCBrowse ------------------------------
(* Two hotels that quote in euros, a search in tögrög or in no currency, and*)
(* contents that file their prose, pictures and distances in every place.   *)
EXTENDS Browse

TwoHotels == {"MCPARAAA", "MCPARBBB"}

SomeFacts == {"", "a"}

SomeWords == {"a", "bb", "ccc", "IMAGE", "FILE", "HOTEL_LONG_DESCRIPTION", "MARKETING", "AREAS_SERVED"}

SomeLengths == [w \in SomeWords |-> CASE w = "a" -> 1 [] w = "bb" -> 2 [] OTHER -> 3]

-----------------------------------------------------------------------------
(* Texts of queries. *)

SomeChars ==
    [t \in {"", "  ", "PAR", "PARI", "PARIS HOTEL", "MCPARAAA", "MCPARBBB", "mcparbbb", "FR", "KM",
            "MILE", "FEET", "MC", "WIFI", "FULL", "LIGHT", "ROOM_ONLY", "EUR", "MNT", "-300", "GDS",
            "RAC", "page2", "rooms"} |->
        CASE t = "" -> 0 [] t \in {"  ", "FR", "KM", "MC"} -> 2 [] t \in {"PAR", "EUR", "MNT", "GDS", "RAC"} -> 3
          [] t = "rooms" -> 5 [] t \in {"PARI", "MILE", "FEET", "WIFI", "FULL", "-300"} -> 4
          [] t \in {"MCPARAAA", "MCPARBBB", "mcparbbb"} -> 8 [] OTHER -> 9]

SomeCodes ==
    [amenity |-> {"WIFI"}, source |-> {"GDS"}, board |-> {"ROOM_ONLY"}, payment |-> {},
     view |-> {"FULL", "LIGHT"}]

NoFilters == [radius |-> 0, radiusUnit |-> "", chainCodes |-> <<>>, amenities |-> <<>>,
              ratings |-> <<>>, source |-> ""]

SomeFilters ==
    {NoFilters, [NoFilters EXCEPT !.radius = -1], [NoFilters EXCEPT !.radius = 5, !.radiusUnit = "FEET"],
     [NoFilters EXCEPT !.ratings = <<1, 2, 3, 4, 5>>],
     [radius |-> 5, radiusUnit |-> "MILE", chainCodes |-> <<"MC">>, amenities |-> <<"WIFI">>,
      ratings |-> <<4, 5>>, source |-> "GDS"]}

SomeCityQueries == [cityCode : {"", "PAR", "PARI"}, filters : SomeFilters]

SomeGeocodeQueries ==
    {[position |-> [latitude |-> p[1], longitude |-> p[2]], filters |-> f] :
        p \in {<<0, 0>>, <<91, 0>>}, f \in {NoFilters}}

SomeIDsQueries == {[hotelIDs |-> l] : l \in {<<>>, <<"MCPARAAA">>, <<"mcparbbb">>,
                                             <<"MCPARAAA", "MCPARBBB", "MCPARAAA", "MCPARBBB">>}}

SomeKeywordQueries ==
    LET query(k, s, c, m) ==
            [keyword |-> k, subTypes |-> s, countryCode |-> c, language |-> "", max |-> m]
    IN  {query("PARI", <<>>, "", 0), query("PARI", <<"HOTEL_GDS">>, "FR", 20),
         query("PAR", <<>>, "", 0), query("PARI", <<"FULL">>, "", 0), query("PARI", <<>>, "PAR", 0),
         query("PARI", <<>>, "", 21)}

NoSearch ==
    [hotelIDs |-> <<>>, stay |-> [checkIn |-> 0, checkOut |-> 0], adults |-> 0, childAges |-> <<>>,
     rooms |-> 0, boardType |-> "", rateCodes |-> <<>>, paymentPolicy |-> "", currency |-> "",
     priceRange |-> "", country |-> "", bestRateOnly |-> {}, includeClosed |-> {}, lang |-> "",
     pageOffset |-> ""]

SomeSearchQueries ==
    {NoSearch, [NoSearch EXCEPT !.adults = 9, !.childAges = <<0, 17>>],
     [NoSearch EXCEPT !.adults = 10], [NoSearch EXCEPT !.adults = -1],
     [NoSearch EXCEPT !.childAges = <<18>>], [NoSearch EXCEPT !.rateCodes = <<"FR">>],
     [NoSearch EXCEPT !.priceRange = "-300"], [NoSearch EXCEPT !.boardType = "WIFI"],
     [NoSearch EXCEPT !.stay = [checkIn |-> 0, checkOut |-> 2]],
     [NoSearch EXCEPT !.stay = [checkIn |-> 2, checkOut |-> 2]],
     [NoSearch EXCEPT !.stay = [checkIn |-> 1, checkOut |-> 2], !.boardType = "ROOM_ONLY",
                      !.rateCodes = <<"RAC">>, !.bestRateOnly = {FALSE}, !.rooms = 9,
                      !.priceRange = "-300", !.currency = "MNT", !.pageOffset = "page2"]}

SomeContentQueries ==
    {[hotelID |-> "", view |-> "", fields |-> <<>>, lang |-> ""],
     [hotelID |-> "", view |-> "LIGHT", fields |-> <<"">>, lang |-> ""],
     [hotelID |-> "", view |-> "WIFI", fields |-> <<"rooms">>, lang |-> ""]}

-----------------------------------------------------------------------------
(* Answers of the lists. *)

listing(id, distance) ==
    [hotelID |-> id, copied |-> "a", dupeID |-> 0, amenities |-> <<>>, geoCode |-> {}, address |-> {},
     distance |-> distance, sponsorship |-> {}]

SomeLists ==
    {<<listing("MCPARAAA", {[value |-> 1, unit |-> ""]}), listing("MCPARBBB", {})>>,
     <<listing("MCPARBBB", {}), listing("MCPARAAA", {}), listing("MCPARBBB", {})>>}

SomeSuggestions ==
    {<<[hotelIDs |-> <<"MCPARBBB">>, copied |-> "a", subType |-> "", address |-> {}, geoCode |-> {}]>>}

-----------------------------------------------------------------------------
(* Offers. *)

text(whole, fraction) == [sign |-> "", whole |-> whole, fraction |-> fraction]

None == text(<<>>, <<>>)

SomeTexts == {None, text(<<9>>, <<5>>), text(<<1, 2>>, <<>>), Malformed}

SomeRates == {text(<<4>>, <<1>>), text(<<3>>, <<>>), text(<<0>>, <<>>), Malformed}

prose(first, second) == [p \in Patterns |-> CASE p = 1 -> first [] p = 2 -> second [] OTHER -> {}]

capacity(adults, children, total) == [adults |-> adults, children |-> children, total |-> total]

EmptyInformation ==
    [copied |-> "", category |-> "", beds |-> 0, bedType |-> "", description |-> Silent,
     typeEstimated |-> {}, dimensions |-> {}, maxPersonCapacity |-> {}, amenities |-> <<>>,
     policyDescriptions |-> <<>>, media |-> <<>>, reference |-> {}]

EmptyStandard ==
    [id |-> "", dimensions |-> {}, maxPersonCapacity |-> {}, amenities |-> <<>>, views |-> <<>>,
     bedConfigurations |-> <<>>]

offer(total, selling, description, information, standard) ==
    [id |-> "", copied |-> "", stay |-> <<>>, adults |-> 2, childAges |-> <<>>, loyalty |-> "",
     rateFamily |-> [code |-> "", type |-> ""], promotion |-> {}, reference |-> {},
     commission |-> {}, services |-> <<>>,
     price |-> [currency |-> "EUR", total |-> total, sellingTotal |-> selling, taxes |-> <<>>,
                changes |-> <<>>],
     room |-> [type |-> "a", typeEstimated |-> [category |-> "", beds |-> 2, bedType |-> ""],
               description |-> description],
     roomInformation |-> information, standardizedRoom |-> standard]

SomeOffers ==
    {offer(text(<<9>>, <<5>>), None, prose({1, 2}, {2}), {}, {}),
     offer(text(<<9>>, <<5>>), text(<<1, 2>>, <<>>), Silent,
           {[EmptyInformation EXCEPT !.maxPersonCapacity = {capacity(2, 1, 0)},
                                     !.description = prose({}, {4})]}, {}),
     offer(Malformed, None, prose({}, {30, 3}),
           {[EmptyInformation EXCEPT !.beds = 0, !.typeEstimated = {[category |-> "a", beds |-> 1, bedType |-> ""]}]},
           {[EmptyStandard EXCEPT !.maxPersonCapacity = {capacity(2, 0, 0)}]})}

SomeIDs ==
    [h \in TwoHotels |-> [c \in {"", "MNT"} |->
        CASE h = "MCPARAAA" /\ c = "" -> "A" [] h = "MCPARAAA" /\ c # "" -> "A-MNT"
          [] h # "MCPARAAA" /\ c = "" -> "B" [] OTHER -> "B-MNT"]]

SomeOfferIDs == {"", "A", "A-MNT", "B", "B-MNT"}

\* A search without a currency is answered without rates; the rate for euros
\* moves, and one that is sent may be unreadable.
SomeDictionaries ==
    LET at(rate) == [rate |-> rate, target |-> "MNT", places |-> 0]
    IN  [c \in {"", "MNT"} |->
            IF c = "" THEN {[f \in {} |-> 0]}
            ELSE {[f \in {"EUR", "USD"} |-> IF f = "EUR" THEN at(text(<<4>>, <<1>>)) ELSE at(Malformed)],
                  [f \in {"EUR"} |-> at(text(<<3>>, <<>>))],
                  [f \in {"EUR"} |-> at(Malformed)]}]

-----------------------------------------------------------------------------
(* Contents. *)

NoText == [text |-> "", type |-> ""]

asset(href, description, tags, scales) ==
    [copied |-> "", href |-> href, type |-> "", mediaType |-> "", tags |-> tags,
     description |-> description, scales |-> scales, metadata |-> {}]

Picture   == asset("a", {}, <<>>, <<>>)
Captioned == asset("a", {[text |-> "a", type |-> "MARKETING"]}, <<>>, <<>>)
Scaled    == asset("", {}, <<>>, <<[href |-> "a", dimensions |-> {[area |-> 0, width |-> 2, height |-> 0, length |-> 0]}],
                                   [href |-> "bb", dimensions |-> {[area |-> 0, width |-> 1, height |-> 0, length |-> 0]}]>>)
Unsized   == asset("", {}, <<>>, <<[href |-> "a", dimensions |-> {}]>>)
Blurb     == asset("", {[text |-> "ccc", type |-> ""]}, <<"AREAS_SERVED">>, <<>>)
Long      == asset("", {[text |-> "a", type |-> ""]}, <<"HOTEL_LONG_DESCRIPTION">>, <<>>)
Blank_    == asset("", {NoText}, <<"MARKETING">>, <<>>)

NoPlace == [subType |-> "", subtype |-> "", name |-> "", iataCode |-> "",
            geoCode |-> [latitude |-> 0, longitude |-> 0]]

NoContact ==
    [addresseeName |-> [prefix |-> "", firstName |-> "", middleName |-> "", lastName |-> ""],
     phones |-> [countryCallingCode |-> "", areaCode |-> "", number |-> "", extension |-> "", copied |-> ""],
     address |-> [lines |-> <<>>, postalCode |-> "", cityName |-> "", countryCode |-> "",
                  stateCode |-> "", state |-> "", copied |-> ""],
     email |-> [email |-> "", address |-> ""], url |-> "", href |-> "", copied |-> ""]

NoSize == [area |-> 0, width |-> 0, height |-> 0, length |-> 0]

NoContent ==
    [basic |-> [hotelID |-> "", copied |-> "", description |-> NoText, amenities |-> <<>>, media |-> <<>>,
                location |-> NoPlace, contact |-> <<>>, altitude |-> [unit |-> "", value |-> 0],
                identifiers |-> <<>>, area |-> <<>>, openCalendar |-> <<>>],
     hotel |-> [copied |-> "", timeZone |-> [id |-> "", name |-> "", code |-> "", offSet |-> "", dstOffset |-> 0],
                building |-> [floors |-> 0, rooms |-> 0, built |-> "", renovated |-> "", copied |-> ""],
                certifications |-> <<>>, relativeLocation |-> <<>>],
     rooms |-> <<>>,
     facilities |-> [meetingRoomInfo |-> [quantity |-> 0, largestRoomSpace |-> NoSize, largestRoomSeats |-> 0,
                                          meetingRooms |-> <<>>],
                     amenities |-> <<>>, restaurantInfo |-> [quantity |-> 0, restaurants |-> <<>>]],
     policies |-> [payment |-> <<>>, checkInOut |-> <<>>, cancellation |-> <<>>, tax |-> <<>>,
                   commission |-> <<>>, pets |-> <<>>, guest |-> <<>>, loyalty |-> <<>>,
                   stayRequirements |-> <<>>],
     awards |-> <<>>, promotions |-> <<>>, pointOfInterest |-> <<>>]

distance(value, unit) == [unit |-> unit, value |-> value]

Restaurant(description, media) ==
    [name |-> "a", description |-> description, cuisineTypes |-> <<"a", "", "a">>, media |-> media, copied |-> ""]

FullContent ==
    [NoContent EXCEPT
        !.basic.description = [text |-> "bb", type |-> ""],
        !.basic.media = <<Captioned, Blurb, Scaled>>,
        !.basic.contact = <<NoContact, [NoContact EXCEPT !.email.address = "a"]>>,
        !.facilities.meetingRoomInfo.meetingRooms =
            <<[name |-> "a", description |-> "", occupancyPerLayouts |-> <<[layout |-> "a", maxOccupancy |-> 2]>>,
               dimensions |-> NoSize, media |-> <<Blurb>>, copied |-> ""]>>,
        !.facilities.restaurantInfo.restaurants = <<Restaurant("", <<Picture, Blurb>>), Restaurant("bb", <<>>)>>,
        !.policies.stayRequirements = <<NoText>>,
        !.pointOfInterest =
            <<[name |-> "", copied |-> "", location |-> [NoPlace EXCEPT !.name = "a"], contact |-> NoContact,
               season |-> [start |-> {}, end |-> {}], website |-> "", media |-> <<>>,
               distance |-> [destination |-> NoPlace,
                             distances |-> <<distance(0, "KM"), distance(2, "MILE"), distance(3, "KM"),
                                             distance(3100, "METER"), distance(9900, "FEET")>>]]>>]

SomeContents ==
    {FullContent} \union
    {[NoContent EXCEPT !.basic.media = m] :
        m \in {<<>>, <<Picture, Blank_>>, <<Unsized>>, <<Blurb, Long, Scaled>>, <<Blurb>>, <<Captioned, Captioned>>}}
=============================================================================
