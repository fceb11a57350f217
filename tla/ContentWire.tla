----------------------------- MODULE ContentWire -----------------------------
(***************************************************************************)
(* Everything Amadeus publishes about a property, as it arrives            *)
(* (dto/contentdto/content.go).  Blocks are plain structs there: an absent *)
(* one is one of empty fields.                                             *)
(*                                                                         *)
(* The conventions are those of Media.  Fields of the wire that no mapper  *)
(* reads are left out.                                                     *)
(***************************************************************************)
EXTENDS Media

AwardsResponse == [copied : Text]

ContentAmenityResponse ==
    [code : Text, copied : Text, provider : Optional(Text), media : Seq(MediaResponse)]

GeoCode == [latitude : Int, longitude : Int]

LocationResponse ==
    [subType : Text, subtype : Text, name : Text, iataCode : Text, geoCode : GeoCode]

AddresseeNameResponse == [prefix : Text, firstName : Text, middleName : Text, lastName : Text]

PhoneResponse ==
    [countryCallingCode : Text, areaCode : Text, number : Text, extension : Text, copied : Text]

AddressResponse ==
    [lines : Seq(Text), postalCode : Text, cityName : Text, countryCode : Text,
     stateCode : Text, state : Text, copied : Text]

EmailResponse == [email : Text, address : Text]

ContactResponse ==
    [addresseeName : AddresseeNameResponse, phones : PhoneResponse, address : AddressResponse,
     email : EmailResponse, url : Text, href : Text, copied : Text]

PeriodResponse == [start : Optional(Nat), end : Optional(Nat)]

LocationUnits == {"", "KM", "MILE", "METER", "FEET"}

DistanceResponse == [unit : LocationUnits, value : Nat]

LocationDistanceResponse == [destination : LocationResponse, distances : Seq(DistanceResponse)]

TimeZoneResponse == [id : Text, name : Text, code : Text, offSet : Text, dstOffset : Int]

BuildingResponse ==
    [floors : Numbers, rooms : Numbers, built : Text, renovated : Text, copied : Text]

ContentHotelResponse ==
    [copied : Text, timeZone : TimeZoneResponse, building : BuildingResponse,
     certifications : Seq(AwardsResponse), relativeLocation : Seq(LocationDistanceResponse)]

AltitudeResponse == [unit : Text, value : Numbers]

BasicResponse ==
    [hotelID : Text, copied : Text, description : QualifiedFreeTextResponse,
     amenities : Seq(ContentAmenityResponse), media : Seq(MediaResponse),
     location : LocationResponse, contact : Seq(ContactResponse), altitude : AltitudeResponse,
     identifiers : Seq(Text), area : Seq(Text), openCalendar : Seq(PeriodResponse)]

OccupancyPerLayoutsResponse == [layout : Text, maxOccupancy : Numbers]

MeetingRoomResponse ==
    [name : Text, description : Text, occupancyPerLayouts : Seq(OccupancyPerLayoutsResponse),
     dimensions : DimensionsResponse, media : Seq(MediaResponse), copied : Text]

MeetingRoomInfoResponse ==
    [quantity : Numbers, largestRoomSpace : DimensionsResponse, largestRoomSeats : Numbers,
     meetingRooms : Seq(MeetingRoomResponse)]

RestaurantResponse ==
    [name : Text, description : Text, cuisineTypes : Seq(Text), media : Seq(MediaResponse),
     copied : Text]

RestaurantInfoResponse == [quantity : Numbers, restaurants : Seq(RestaurantResponse)]

FacilityResponse ==
    [meetingRoomInfo : MeetingRoomInfoResponse, amenities : Seq(ContentAmenityResponse),
     restaurantInfo : RestaurantInfoResponse]

CapacityOfRoom == [adults : Numbers, children : Numbers, total : Numbers]

MaxSleepFurnishings == [cribs : Numbers, extraBeds : Numbers]

ContentRoomResponse ==
    [name : QualifiedFreeTextResponse, description : QualifiedFreeTextResponse, copied : Text,
     amenities : Seq(ContentAmenityResponse), media : Seq(MediaResponse),
     dimensions : DimensionsResponse, capacity : CapacityOfRoom,
     furnishings : MaxSleepFurnishings, reference : Text]

PromotionResponse == [copied : Text, terms : Text, media : Seq(MediaResponse)]

PointOfInterestResponse ==
    [name : Text, copied : Text, location : LocationResponse, contact : ContactResponse,
     season : PeriodResponse, distance : LocationDistanceResponse, website : Text,
     media : Seq(MediaResponse)]

GuaranteeResponse ==
    [cards : Seq(Text), methods : Seq(Text), description : QualifiedFreeTextResponse]

PaymentPolicyResponse ==
    [paymentType : Text, details : Seq(QualifiedFreeTextResponse), guarantee : GuaranteeResponse]

CheckInOutPolicyResponse ==
    [checkIn : Text, checkOut : Text, inDescription : QualifiedFreeTextResponse,
     outDescription : QualifiedFreeTextResponse]

\* Cancellation, commission and tax policies: an amount, and prose or a code.
AmountPolicyResponse == [amount : Text, currency : Text, copied : Text,
                         description : QualifiedFreeTextResponse]

BenefitAccrualResponse == [copied : Text, codeDescription : Text, category : Text]

LoyaltyPolicyResponse ==
    [eligibility : Text, benefits : Seq(BenefitAccrualResponse), discount : Text]

PolicyResponse ==
    [payment : Seq(PaymentPolicyResponse), checkInOut : Seq(CheckInOutPolicyResponse),
     cancellation : Seq(AmountPolicyResponse), tax : Seq(AmountPolicyResponse),
     commission : Seq(AmountPolicyResponse), pets : Seq(Text), guest : Seq(Text),
     loyalty : Seq(LoyaltyPolicyResponse), stayRequirements : Seq(QualifiedFreeTextResponse)]

HotelContentResponse ==
    [basic : BasicResponse, hotel : ContentHotelResponse, rooms : Seq(ContentRoomResponse),
     facilities : FacilityResponse, policies : PolicyResponse, awards : Seq(AwardsResponse),
     promotions : Seq(PromotionResponse), pointOfInterest : Seq(PointOfInterestResponse)]
=============================================================================
