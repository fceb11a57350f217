------------------------- MODULE ModificationRules --------------------------
(***************************************************************************)
(* What booking.Modify accepts and sends (Modification in                  *)
(* booking/service.go, toUpdateRequest in booking/mapper.go, the update    *)
(* types of internal/amadeus/dto/bookingreq).  Conventions as in           *)
(* ReservationRules; dates are numbers and 0 is the zero date.             *)
(*                                                                         *)
(* The PATCH body is a record with one member per field of a booking that  *)
(* can be changed: {v} when the body carries v, {} when omitempty or a nil *)
(* pointer leaves the field out.                                           *)
(***************************************************************************)
EXTENDS ReservationRules

IsEmpty(m) ==
    /\ m.specialRequest = {}
    /\ m.guestIDs = <<>>
    /\ m.offerID = ""
    /\ m.stay = {}
    /\ m.guests = {}
    /\ m.rateCode = ""
    /\ m.card = {}

validateModification(m) ==
        Fault("Modification", 0, IsEmpty(m))
   \cup Fault("Stay", 0, \E stay \in m.stay :
                            stay.checkIn # 0 /\ stay.checkOut # 0 /\ stay.checkOut <= stay.checkIn)
   \cup (UNION {CardFaults(card) : card \in m.card})
   \cup Fault("RateCode", 0, m.rateCode = "bad")

\* What the caller asked for, field by field, in the words of Modification:
\* a nil pointer, an empty slice or an empty string leaves a field as it is.
\* GuestIDs "replaces the guests occupying the room", with their memberships.
Wanted(m) ==
    [request    |-> m.specialRequest,
     references |-> IF m.guestIDs = <<>> THEN {} ELSE {GuestReferences(m.guestIDs, m.loyaltyIDs)},
     offer      |-> {m.offerID} \ {""},
     checkIn    |-> {stay.checkIn : stay \in m.stay} \ {0},
     checkOut   |-> {stay.checkOut : stay \in m.stay} \ {0},
     guests     |-> m.guests,
     rateCode   |-> {m.rateCode} \ {""},
     card       |-> m.card]

\* LoyaltyIDs "maps a guest ID to their hotel loyalty membership": one reference
\* for each, whether or not GuestIDs lists the guest.
WantedMemberships(m) ==
    {[guest |-> id, loyalty |-> m.loyaltyIDs[id]] : id \in DOMAIN m.loyaltyIDs}

\* As if SpecialRequest were a string that is sent with every association.
toUpdateRequest_AlwaysRequest(m) ==
    [Wanted(m) EXCEPT !.request = IF @ = {} /\ m.guestIDs # <<>> THEN {""} ELSE @]

\* The body: omitempty drops an empty string, the caller's pointer to one too;
\* LoyaltyIDs is looked up only for the guests of GuestIDs.
toUpdateRequest(m) ==
    [request    |-> m.specialRequest \ {""},
     references |-> IF m.guestIDs = <<>> THEN {} ELSE {GuestReferences(m.guestIDs, m.loyaltyIDs)},
     offer      |-> {m.offerID} \ {""},
     checkIn    |-> {stay.checkIn : stay \in m.stay} \ {0},
     checkOut   |-> {stay.checkOut : stay \in m.stay} \ {0},
     guests     |-> m.guests,
     rateCode   |-> {m.rateCode} \ {""},
     card       |-> m.card]
=============================================================================
