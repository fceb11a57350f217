------------------------------- MODULE Content -------------------------------
(***************************************************************************)
(* What the content context makes of everything Amadeus publishes about a  *)
(* property (content/mapper.go, into content/hotel.go and                  *)
(* content/policy.go), and what it answers about it.                       *)
(*                                                                         *)
(* A block that publishes nothing is to be absent, not empty.  A number or *)
(* a name put together from parts is the sequence of the parts.            *)
(***************************************************************************)
EXTENDS ContentWire, Geo

CONSTANT LengthOf    \* how long the words are

ASSUME LengthAssumption == LengthOf \in [Words -> Nat]

firstNonEmpty(values) ==
    LET given == Kept(values, ToSet(values) \ {""}) IN IF given = <<>> THEN "" ELSE Head(given)

NonEmpty(values) == Kept(values, ToSet(values) \ {""})

\* The members of the blocks a sequence of optional blocks has.
Present(blocks) ==
    LET there == Kept(blocks, ToSet(blocks) \ {{}})
    IN  [i \in DOMAIN there |-> CHOOSE x \in there[i] : TRUE]

-----------------------------------------------------------------------------
(* Pictures and prose. *)

\* As if an asset with a description were prose, pictures with a caption too.
splitMedia_ByDescription(wire) ==
    LET assets == MediaAssets(wire)
        proseOf(a) == {[t EXCEPT !.type = IF t.type = "" /\ a.tags # <<>> THEN a.tags[1] ELSE t.type] :
                          t \in a.description}
    IN  [photos |-> Kept(assets, {a \in ToSet(assets) : a.description = {} /\ IsVisual(a)}),
         prose  |-> Present([i \in DOMAIN assets |-> proseOf(assets[i])])]

\* Assets without an image are prose, tagged by their first tag failing a type.
splitMedia(wire) ==
    LET assets == MediaAssets(wire)
        proseOf(a) == {[t EXCEPT !.type = IF t.type = "" /\ a.tags # <<>> THEN a.tags[1] ELSE t.type] :
                          t \in IF IsVisual(a) THEN {} ELSE a.description}
    IN  [photos |-> Kept(assets, {a \in ToSet(assets) : IsVisual(a)}),
         prose  |-> Present([i \in DOMAIN assets |-> proseOf(assets[i])])]

\* The tags of prose that are ranked, the best first, the others being Words.
descriptionPreference ==
    <<"HOTEL_LONG_DESCRIPTION", "PROPERTY_DESCRIPTION", "HOTEL_SHORT_DESCRIPTION",
      "LONG_LOCATION_DESCRIPTION", "SHORT_LOCATION_DESCRIPTION", "MARKETING">>

\* The first prose of the best tag; of no ranked tag, the first of the longest.
longestDescription(prose) ==
    LET Tagged(tag) == Kept(prose, {t \in ToSet(prose) : t.type = tag})
        ranked  == Kept(descriptionPreference, {tag \in ToSet(descriptionPreference) : Tagged(tag) # <<>>})
        longest == Kept(prose, {t \in ToSet(prose) :
                                   \A u \in ToSet(prose) : LengthOf[u.value] <= LengthOf[t.value]})
    IN  IF ranked # <<>> THEN {Head(Tagged(Head(ranked)))}
        ELSE IF prose # <<>> THEN {Head(longest)} ELSE {}

\* A venue's own description, failing it the first prose among its media.
venueDescription(stated, prose) ==
    IF stated # "" THEN stated ELSE firstNonEmpty([i \in DOMAIN prose |-> prose[i].value])

mapAmenities(wire) ==
    [i \in DOMAIN wire |-> [code |-> wire[i].code, copied |-> wire[i].copied,
                            provider |-> wire[i].provider, media |-> MediaAssets(wire[i].media)]]

-----------------------------------------------------------------------------
(* Places. *)

\* As if the numbers were compared, whatever their units.
nearestDistance_ByValue(l) ==
    LET known == Kept(l.distances, {d \in ToSet(l.distances) : d.value # 0})
        nearest == Kept(known, {d \in ToSet(known) : \A e \in ToSet(known) : d.value <= e.value})
    IN  IF known = <<>> THEN {} ELSE {NewDistance(Head(nearest))}

\* The first of the shortest distances; a distance of zero is none.
nearestDistance(l) ==
    LET known == Kept(l.distances, {d \in ToSet(l.distances) : d.value # 0})
        nearest == Kept(known, {d \in ToSet(known) : \A e \in ToSet(known) : Meters(d) <= Meters(e)})
    IN  IF known = <<>> THEN {} ELSE {NewDistance(Head(nearest))}

\* "Treating an exact 0,0 as absent".
Position(g) == IF g.latitude = 0 /\ g.longitude = 0 THEN {} ELSE {g}

mapLocation(l) ==
    LET location == [name |-> l.name, subType |-> firstNonEmpty(<<l.subType, l.subtype>>),
                     iataCode |-> l.iataCode, position |-> Position(l.geoCode)]
    IN  IF l.name = "" /\ l.iataCode = "" /\ location.position = {} THEN {} ELSE {location}

mapLandmark(l) ==
    [name |-> l.destination.name,
     type |-> firstNonEmpty(<<l.destination.subType, l.destination.subtype>>),
     distance |-> nearestDistance(l)]

mapPeriod(p) == [start |-> p.start, end |-> p.end]

mapAddress(a) ==
    IF a.lines = <<>> /\ a.cityName = "" /\ a.postalCode = "" /\ a.countryCode = "" THEN {}
    ELSE {[lines |-> a.lines, postalCode |-> a.postalCode, cityName |-> a.cityName,
           countryCode |-> a.countryCode, stateCode |-> firstNonEmpty(<<a.stateCode, a.state>>),
           copied |-> a.copied]}

fullNumber(p) == NonEmpty(<<p.countryCallingCode, p.areaCode, p.number, p.extension>>)

\* A contact nobody can be reached by is none.
mapContact(c) ==
    LET n == c.addresseeName
        contact ==
            [addresseeName |-> NonEmpty(<<n.prefix, n.firstName, n.middleName, n.lastName>>),
             address |-> mapAddress(c.address), website |-> firstNonEmpty(<<c.url, c.href>>),
             phones |-> IF c.phones.number = "" THEN <<>>
                        ELSE <<[number |-> fullNumber(c.phones), copied |-> c.phones.copied]>>,
             emails |-> NonEmpty(<<firstNonEmpty(<<c.email.email, c.email.address>>)>>),
             copied |-> c.copied]
    IN  IF contact.address = {} /\ contact.phones = <<>> /\ contact.emails = <<>>
           /\ contact.website = "" THEN {} ELSE {contact}

\* A place without a name takes its location's.
mapPointOfInterest(p) ==
    [name |-> firstNonEmpty(<<p.name>> \o SetToSeq({l.name : l \in mapLocation(p.location)})),
     copied |-> p.copied, website |-> p.website, location |-> mapLocation(p.location),
     contact |-> mapContact(p.contact), media |-> MediaAssets(p.media),
     season |-> IF p.season.start = {} /\ p.season.end = {} THEN {} ELSE {mapPeriod(p.season)},
     distance |-> nearestDistance(p.distance)]

-----------------------------------------------------------------------------
(* The property's parts. *)

mapTimeZone(t) ==
    IF t.name = "" /\ t.id = "" /\ t.offSet = "" THEN {}
    ELSE {[name |-> firstNonEmpty(<<t.name, t.id, t.code>>), offset |-> t.offSet,
           daylightSaving |-> t.dstOffset # 0]}

mapBuilding(b) ==
    IF b.floors = 0 /\ b.rooms = 0 /\ b.built = "" /\ b.renovated = "" THEN {} ELSE {b}

mapAwards(wire) == [i \in DOMAIN wire |-> [copied |-> wire[i].copied]]

mapPromotions(wire) ==
    [i \in DOMAIN wire |-> [copied |-> wire[i].copied, terms |-> wire[i].terms,
                            media |-> MediaAssets(wire[i].media)]]

mapRooms(wire) ==
    [i \in DOMAIN wire |->
        LET r == wire[i]  IN
        [name |-> QualifiedText(r.name), description |-> QualifiedText(r.description),
         copied |-> r.copied, amenities |-> mapAmenities(r.amenities),
         media |-> splitMedia(r.media).photos, descriptions |-> splitMedia(r.media).prose,
         dimensions |-> measured(r.dimensions),
         maxOccupancy |-> IF r.capacity.total = 0 /\ r.capacity.adults = 0 THEN {} ELSE {r.capacity},
         furnishings |-> IF r.furnishings.cribs = 0 /\ r.furnishings.extraBeds = 0 THEN {}
                         ELSE {r.furnishings},
         reference |-> r.reference]]

roomDimensions(d) == measured(d)

mapMeetingRoom(wire) ==
    [name |-> wire.name, copied |-> wire.copied, capacities |-> wire.occupancyPerLayouts,
     description |-> venueDescription(wire.description, splitMedia(wire.media).prose),
     dimensions |-> roomDimensions(wire.dimensions), media |-> splitMedia(wire.media).photos]

mapRestaurant(wire) ==
    [name |-> wire.name, copied |-> wire.copied, cuisines |-> NonEmpty(wire.cuisineTypes),
     description |-> venueDescription(wire.description, splitMedia(wire.media).prose),
     media |-> splitMedia(wire.media).photos]

DescriptionOfVenues(venues) == firstNonEmpty([i \in DOMAIN venues |-> venues[i].description])

\* The number stated, or the number of those listed if that is more.
Count(quantity, listed) == IF Len(listed) > quantity THEN Len(listed) ELSE quantity

mapMeetingRooms(info) ==
    LET rooms == [i \in DOMAIN info.meetingRooms |-> mapMeetingRoom(info.meetingRooms[i])]
    IN  IF info.quantity = 0 /\ rooms = <<>> THEN {}
        ELSE {[count |-> Count(info.quantity, rooms), largestCapacity |-> info.largestRoomSeats,
               totalArea |-> IF info.largestRoomSpace.area = 0 THEN {} ELSE {info.largestRoomSpace},
               rooms |-> rooms, description |-> DescriptionOfVenues(rooms)]}

\* Cuisines in the order the venues name them, each once.
cuisinesOf(venues) ==
    LET named == FoldLeft(LAMBDA seq, v : seq \o v.cuisines, <<>>, venues)
    IN  FoldLeft(LAMBDA seq, c : IF Contains(seq, c) THEN seq ELSE Append(seq, c), <<>>, named)

mapRestaurants(info) ==
    LET venues == [i \in DOMAIN info.restaurants |-> mapRestaurant(info.restaurants[i])]
    IN  IF info.quantity = 0 /\ venues = <<>> THEN {}
        ELSE {[count |-> Count(info.quantity, venues),
               cuisines |-> cuisinesOf(venues), venues |-> venues,
               description |-> DescriptionOfVenues(venues)]}

mapFacilities(f) ==
    LET facilities == [amenities |-> mapAmenities(f.amenities),
                       meetingRooms |-> mapMeetingRooms(f.meetingRoomInfo),
                       restaurants |-> mapRestaurants(f.restaurantInfo)]
    IN  IF facilities = [amenities |-> <<>>, meetingRooms |-> {}, restaurants |-> {}] THEN {}
        ELSE {facilities}

\* Prose beside the terms of payment.
Texts(wire) == Present([i \in DOMAIN wire |-> QualifiedText(wire[i])])

mapGuarantee(g) ==
    IF g.cards = <<>> /\ g.methods = <<>> /\ g.description.text = "" THEN {}
    ELSE {[g EXCEPT !.description = QualifiedText(g.description)]}

\* Amounts of cancellation and commission terms have no currency.
mapAmountPolicies(wire, withCurrency) ==
    [i \in DOMAIN wire |->
        [copied |-> wire[i].copied, description |-> QualifiedText(wire[i].description),
         amount |-> <<wire[i].amount, IF withCurrency THEN wire[i].currency ELSE "">>]]

mapLoyalty(p) ==
    [eligibility |-> p.eligibility, discount |-> NonEmpty(<<p.discount>>),
     benefits |-> [i \in DOMAIN p.benefits |->
                     [copied |-> p.benefits[i].copied,
                      description |-> firstNonEmpty(<<p.benefits[i].codeDescription,
                                                      p.benefits[i].category>>)]]]

mapPolicies(p) ==
    LET policies ==
            [payment |-> [i \in DOMAIN p.payment |->
                            [type |-> p.payment[i].paymentType, details |-> Texts(p.payment[i].details),
                             guarantee |-> mapGuarantee(p.payment[i].guarantee)]],
             checkInOut |-> [i \in DOMAIN p.checkInOut |->
                               [p.checkInOut[i] EXCEPT
                                   !.inDescription = QualifiedText(p.checkInOut[i].inDescription),
                                   !.outDescription = QualifiedText(p.checkInOut[i].outDescription)]],
             cancellation |-> mapAmountPolicies(p.cancellation, FALSE),
             tax |-> mapAmountPolicies(p.tax, TRUE),
             commission |-> mapAmountPolicies(p.commission, FALSE),
             pets |-> p.pets, guest |-> p.guest,
             loyalty |-> [i \in DOMAIN p.loyalty |-> mapLoyalty(p.loyalty[i])],
             stayRequirements |-> Texts(p.stayRequirements)]
    IN  IF \A part \in DOMAIN policies : policies[part] = <<>> THEN {} ELSE {policies}

\* The property's own description, failing it the best of its prose.
mapHotel(c) ==
    LET split == splitMedia(c.basic.media)
        own   == QualifiedText(c.basic.description)
        contacts == [i \in DOMAIN c.basic.contact |-> mapContact(c.basic.contact[i])]
    IN  [id |-> c.basic.hotelID, copied |-> <<c.basic.copied, c.hotel.copied>>,
         description |-> IF own # {} THEN own ELSE longestDescription(split.prose),
         descriptions |-> split.prose, media |-> split.photos,
         amenities |-> mapAmenities(c.basic.amenities),
         location |-> mapLocation(c.basic.location), contacts |-> Present(contacts),
         areas |-> c.basic.area, identifiers |-> c.basic.identifiers,
         openPeriods |-> [i \in DOMAIN c.basic.openCalendar |-> mapPeriod(c.basic.openCalendar[i])],
         altitude |-> IF c.basic.altitude.value = 0 /\ c.basic.altitude.unit = "" THEN {}
                      ELSE {c.basic.altitude},
         timeZone |-> mapTimeZone(c.hotel.timeZone), building |-> mapBuilding(c.hotel.building),
         facilities |-> mapFacilities(c.facilities), policies |-> mapPolicies(c.policies),
         rooms |-> mapRooms(c.rooms), awards |-> mapAwards(c.awards),
         certifications |-> mapAwards(c.hotel.certifications),
         promotions |-> mapPromotions(c.promotions),
         pointsOfInterest |-> [i \in DOMAIN c.pointOfInterest |->
                                 mapPointOfInterest(c.pointOfInterest[i])],
         landmarks |-> [i \in DOMAIN c.hotel.relativeLocation |->
                          mapLandmark(c.hotel.relativeLocation[i])]]

-----------------------------------------------------------------------------
(* Answers. *)

PrimaryPhoto(hotel) ==
    LET visual == Kept(hotel.media, {a \in ToSet(hotel.media) : IsVisual(a)})
    IN  IF visual = <<>> THEN {} ELSE {Head(visual)}

DescriptionOf(hotel, type) ==
    LET tagged == Kept(hotel.descriptions, {t \in ToSet(hotel.descriptions) : t.type = type})
    IN  IF tagged = <<>> THEN {} ELSE {Head(tagged)}
=============================================================================
