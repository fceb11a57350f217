---------------------------- MODULE Reservation -----------------------------
(***************************************************************************)
(* booking.Create up to the point where the request leaves: an application *)
(* drafts a Reservation, validate accepts or rejects it, and an accepted   *)
(* one is translated and handed to the transport.  What the transport does *)
(* with it is the subject of Orders.                                       *)
(***************************************************************************)
EXTENDS ReservationRules

VARIABLES
    draft,     \* the Reservation passed to Create
    verdict,   \* "none", "rejected" or "sent"
    wire       \* the body handed to the transport: {} or {body}

reservationVars == <<draft, verdict, wire>>

ReservationInit ==
    /\ draft \in Drafts
    /\ verdict = "none"
    /\ wire = {}

CreateUpToCall ==
    /\ verdict = "none"
    /\ IF Accepts(draft)
       THEN verdict' = "sent" /\ wire' = {toRequest(draft)}
       ELSE verdict' = "rejected" /\ wire' = {}
    /\ UNCHANGED draft

ReservationNext == CreateUpToCall

ReservationSpec == ReservationInit /\ [][ReservationNext]_reservationVars

-----------------------------------------------------------------------------
(* Properties. *)

\* Every reference names exactly one guest, and no guest has two places.
Resolves(body) ==
    /\ \A i \in DOMAIN body.rooms : \A ref \in Range(body.rooms[i].references) :
          \E g \in DOMAIN body.guests :
              \A h \in DOMAIN body.guests : body.guests[h].tid = ref.guest <=> h = g
    /\ \A i, j \in DOMAIN body.rooms :
          \A k \in DOMAIN body.rooms[i].references, l \in DOMAIN body.rooms[j].references :
              body.rooms[i].references[k].guest = body.rooms[j].references[l].guest
              => i = j /\ k = l

\* "Duplicate IDs would make a room association ambiguous": what is sent never
\* leaves the hotel to guess who sleeps where.
ReferencesResolve == \A body \in wire : Resolves(body)

\* What the caller asked for; an empty membership says nothing.
Said(r) ==
    [seats    |-> UNION {{<<i, id>> : id \in Range(r.rooms[i].guestIDs)} : i \in DOMAIN r.rooms},
     loyalty  |-> UNION {{m \in {<<id, r.rooms[i].loyaltyIDs[id]>> : id \in DOMAIN r.rooms[i].loyaltyIDs} :
                             m[2] # ""} : i \in DOMAIN r.rooms},
     children |-> UNION {{<<r.guests[i].id, age>> : age \in r.guests[i].childAge} :
                         i \in DOMAIN r.guests},
     card     |-> r.payment.card,
     billBack |-> r.payment.billBack,
     landing  |-> UNION {a.arrivingAt : a \in r.arrival}]

\* What the hotel can read in a body.
Understood(body) ==
    [seats    |-> UNION {{<<i, ref.guest>> : ref \in Range(body.rooms[i].references)} :
                         i \in DOMAIN body.rooms},
     loyalty  |-> UNION {{<<ref.guest, ref.loyalty>> :
                          ref \in {x \in Range(body.rooms[i].references) : x.loyalty # ""}} :
                         i \in DOMAIN body.rooms},
     children |-> UNION {{<<body.guests[i].tid, age>> : age \in body.guests[i].childAge} :
                         i \in DOMAIN body.guests},
     card     |-> body.payment.card,
     billBack |-> body.payment.billBack,
     landing  |-> UNION {{leg.at : leg \in f.arrival} : f \in body.arrival}]

\* What toRequest can say of a reservation: a membership of a guest who sleeps
\* in another room is dropped, and an arrival airport without a time gains the
\* zero time.
Expressible(r) ==
    /\ \A i \in DOMAIN r.rooms : DOMAIN r.rooms[i].loyaltyIDs \subseteq Range(r.rooms[i].guestIDs)
    /\ \A a \in r.arrival : (a.airport # "" \/ a.terminal # "") => a.arrivingAt # {}

\* mapper.go: "A field dropped on the way out is a booking made on terms the
\* caller did not choose".  Of what toRequest can say, the hotel reads exactly
\* what the caller asked for.
TermsAreKept == \A body \in wire : Expressible(draft) => Understood(body) = Said(draft)

\* A booking that is charged to a card carries one that passed every check.
ChargedCardIsChecked ==
    \A body \in wire :
        RequiresCard(body.payment.method) =>
            body.payment.card # {} /\ \A card \in body.payment.card : CardFaults(card) = {}

\* What makes a draft bookable, said without reference to how it is checked.
Bookable(r) ==
    LET ids      == [g \in DOMAIN r.guests |-> r.guests[g].id]
        places   == UNION {{<<i, k>> : k \in DOMAIN r.rooms[i].guestIDs} : i \in DOMAIN r.rooms}
        occupant == [p \in places |-> r.rooms[p[1]].guestIDs[p[2]]]
    IN  /\ r.guests # <<>> /\ IsInjective(ids)
        /\ Len(r.rooms) \in 1..MaxRooms
        /\ IsInjective(occupant) /\ Range(occupant) \subseteq Range(ids)
        /\ {p[1] : p \in places} = DOMAIN r.rooms
        /\ \A g \in DOMAIN r.guests : GuestFaults(<<r.guests[g]>>, 1) = {}
        /\ \A i \in DOMAIN r.rooms :
              /\ r.rooms[i].offer # "" /\ r.rooms[i].requestLength <= MaxSpecialRequest
              /\ DOMAIN r.rooms[i].loyaltyIDs \subseteq Range(ids)

\* validate turns nothing away that could be booked: guests and rooms in order
\* are enough, whatever the order the associations list them in.
NothingBookableIsRejected ==
    verdict = "rejected" /\ Bookable(draft) =>
        \E fault \in validate(draft) :
            fault[1] \notin {"Guests", "Guests.ID", "Rooms", "Rooms.GuestIDs", "Rooms.LoyaltyIDs"}
=============================================================================
