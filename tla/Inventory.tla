------------------------------ MODULE Inventory ------------------------------
(***************************************************************************)
(* Which hotels exist, and where: dto/inventory.go translated by           *)
(* inventory/mapper.go into inventory/hotel.go and                         *)
(* inventory/suggestion.go.  A block is absent, the empty set, or there,   *)
(* whatever it holds: 0,0 is a point.                                      *)
(***************************************************************************)
EXTENDS Geo, SequencesExt

CONSTANTS
    HotelIDs,    \* the property codes Amadeus lists
    Facts        \* what the fields that are only copied hold

Block(S) == {block \in SUBSET S : \A x, y \in block : x = y}

-----------------------------------------------------------------------------
(* The wire. *)

InventoryHotel ==
    [hotelID : HotelIDs, copied : Facts, dupeID : Nat, amenities : Seq(Facts),
     geoCode : Block([latitude : Int, longitude : Int]), address : Block(Facts),
     distance : Block([value : Nat, unit : {"", "KM", "MILE"}]),
     sponsorship : Block(Block(BOOLEAN))]

AutocompleteLocation ==
    [hotelIDs : Seq(HotelIDs), copied : Facts, subType : Facts, address : Block(Facts),
     geoCode : Block([latitude : Int, longitude : Int])]

-----------------------------------------------------------------------------
(* Mapping. *)

mapDupeID(id) == IF id = 0 THEN {} ELSE {id}

\* inventory.mapHotel
listedHotel(h) ==
    [id |-> h.hotelID, copied |-> h.copied, dupeID |-> mapDupeID(h.dupeID),
     amenities |-> h.amenities, position |-> h.geoCode, address |-> h.address,
     distanceFromSearch |-> {NewDistance(d) : d \in h.distance},
     sponsored |-> \E s \in h.sponsorship : TRUE \in s]

mapHotels(wire) == [i \in DOMAIN wire |-> listedHotel(wire[i])]

mapSuggestion(l) ==
    [hotelIDs |-> l.hotelIDs, copied |-> l.copied, subType |-> l.subType,
     position |-> l.geoCode, address |-> l.address]

mapSuggestions(wire) == [i \in DOMAIN wire |-> mapSuggestion(wire[i])]

IDs(hotels) == [i \in DOMAIN hotels |-> hotels[i].id]

\* Suggestion.IDs
SuggestedIDs(suggestion) == suggestion.hotelIDs
=============================================================================
