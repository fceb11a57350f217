-------------------------------- MODULE Rooms --------------------------------
(***************************************************************************)
(* The rooms of an offer (offersdto/offers.go, offers/mapper.go) and how   *)
(* many people they hold (offers/capacity.go).                             *)
(*                                                                         *)
(* What a description says of people is read by patterns, the most         *)
(* explicit first; a description is, for each of them, the set of numbers  *)
(* the pattern finds in it.                                                *)
(***************************************************************************)
EXTENDS Media

CONSTANTS
    Figures,              \* the numbers a description may hold
    MaxPlausibleCapacity  \* maxPlausibleCapacity

ASSUME FiguresAssumption == Figures \subseteq 0..99 /\ MaxPlausibleCapacity \in Nat

Patterns == 1..4

-----------------------------------------------------------------------------
(* The wire. *)

Prose == [Patterns -> SUBSET Figures]

Silent == [p \in Patterns |-> {}]

MaxPersonCapacityResponse == [adults : Numbers, children : Numbers, total : Numbers]

TypeEstimatedResponse == [category : Text, beds : Numbers, bedType : Text]

RoomResponse == [type : Text, typeEstimated : TypeEstimatedResponse, description : Prose]

RoomAmenityResponse ==
    [code : Text, copied : Text, provider : Optional(Text), price : Optional(Text),
     medias : Seq(MediaResponse)]

RoomInformationResponse ==
    [copied : Text, category : Text, beds : Numbers, bedType : Text, description : Prose,
     typeEstimated : Optional(TypeEstimatedResponse), dimensions : Optional(DimensionsResponse),
     maxPersonCapacity : Optional(MaxPersonCapacityResponse),
     amenities : Seq(RoomAmenityResponse), policyDescriptions : Seq(Text),
     media : Seq(MediaResponse), reference : Optional(Text)]

BedConfigurationResponse == Seq(Text)

StandardizedRoomResponse ==
    [id : Text, dimensions : Optional(DimensionsResponse),
     maxPersonCapacity : Optional(MaxPersonCapacityResponse), amenities : Seq(Text),
     views : Seq(Text), bedConfigurations : Seq(BedConfigurationResponse)]

-----------------------------------------------------------------------------
(* Mapping. *)

mapRoom(r) ==
    [type |-> r.type, category |-> r.typeEstimated.category, beds |-> r.typeEstimated.beds,
     bedType |-> r.typeEstimated.bedType, description |-> r.description]

mapRoomAmenity(a) ==
    [code |-> a.code, copied |-> a.copied, provider |-> a.provider, price |-> a.price,
     media |-> MediaAssets(a.medias)]

\* The estimated block stands in, field by field, for those left empty.
mapRoomDetails(r) ==
    LET Else(absent, stated, estimates) ==
            IF stated # absent \/ estimates = {} THEN stated ELSE CHOOSE e \in estimates : TRUE
    IN  [copied |-> r.copied, description |-> r.description, dimensions |-> r.dimensions,
         beds |-> Else(0, r.beds, {e.beds : e \in r.typeEstimated}),
         bedType |-> Else("", r.bedType, {e.bedType : e \in r.typeEstimated}),
         category |-> Else("", r.category, {e.category : e \in r.typeEstimated}),
         maxOccupancy |-> r.maxPersonCapacity, reference |-> r.reference,
         amenities |-> [i \in DOMAIN r.amenities |-> mapRoomAmenity(r.amenities[i])],
         policyDescriptions |-> SelectSeq(r.policyDescriptions, LAMBDA t : t # ""),
         media |-> MediaAssets(r.media)]

mapStandardizedRoom(r) ==
    [id |-> r.id, dimensions |-> r.dimensions, maxOccupancy |-> r.maxPersonCapacity,
     amenities |-> r.amenities, views |-> r.views,
     bedConfigurations |-> FoldLeft(LAMBDA seq, c : seq \o c, <<>>, r.bedConfigurations)]

-----------------------------------------------------------------------------
(* Capacity. *)

Largest(S) == CHOOSE n \in S : \A m \in S : m <= n

Plausible(figures) == {n \in figures : n \in 1..MaxPlausibleCapacity}

\* The largest plausible figure of the first pattern that has one.
capacityFromText(text) ==
    LET telling == {p \in Patterns : Plausible(text[p]) # {}}
    IN  {Largest(Plausible(text[p])) : p \in {p \in telling : \A q \in telling : p <= q}}

Stated(source, people) == [people |-> people, source |-> source]

\* A breakdown without a total counts in the details of the room only.
StatedByDetails(occupancy) ==
    {IF o.total > 0 THEN o.total ELSE o.adults + o.children :
        o \in {o \in occupancy : o.total > 0 \/ o.adults > 0}}

StatedByStandard(occupancy) == {o.total : o \in {o \in occupancy : o.total > 0}}

\* As if a figure read in a description were as good as one of a field.
MaxPersonCapacity_TrustsProse(o) ==
    LET details  == UNION {StatedByDetails(d.maxOccupancy) : d \in o.roomDetails}
        standard == UNION {StatedByStandard(s.maxOccupancy) : s \in o.standardizedRoom}
        prose    == UNION {capacityFromText(d.description) : d \in o.roomDetails}
        room     == capacityFromText(o.room.description)
        sources  == SelectSeq(<<details, standard, prose, room>>, LAMBDA s : s # {})
    IN  IF sources = <<>> THEN {} ELSE {Stated("STRUCTURED", n) : n \in Head(sources)}

\* The fields first, then the descriptions, of the details before the room's.
MaxPersonCapacity(o) ==
    LET details  == UNION {StatedByDetails(d.maxOccupancy) : d \in o.roomDetails}
        standard == UNION {StatedByStandard(s.maxOccupancy) : s \in o.standardizedRoom}
        prose    == UNION {capacityFromText(d.description) : d \in o.roomDetails}
        room     == capacityFromText(o.room.description)
    IN  IF details # {} THEN {Stated("STRUCTURED", n) : n \in details}
        ELSE IF standard # {} THEN {Stated("STRUCTURED", n) : n \in standard}
        ELSE {Stated("DESCRIPTION", n) : n \in IF prose # {} THEN prose ELSE room}

Accommodates(o, people) ==
    [fits    |-> \E c \in MaxPersonCapacity(o) : c.people >= people,
     certain |-> \E c \in MaxPersonCapacity(o) : c.source = "STRUCTURED"]
=============================================================================
