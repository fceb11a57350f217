--------------------------- MODULE BookingProofs ----------------------------
(***************************************************************************)
(* The booking service, for any number of goroutines, drafts,              *)
(* modifications and operations: what leaves the SDK, and what becomes of  *)
(* it.                                                                     *)
(*                                                                         *)
(* Of Reservation the inductive invariant is that only an accepted draft   *)
(* is on the wire, in translation, and that a rejected one has a fault.    *)
(*                                                                         *)
(* Of Orders the properties are not inductive.  What makes them so:        *)
(* operations are numbered apart; a call that has not been executed has    *)
(* made no order and has no answer; only a Create makes an order; and an   *)
(* answer to a Create carries the ID of the order that this Create made.   *)
(***************************************************************************)
EXTENDS Reservation, Orders, TLAPS

-----------------------------------------------------------------------------
(* Reservation. *)

WireInv ==
    /\ draft \in Drafts
    /\ \A body \in wire : Accepts(draft) /\ body = toRequest(draft)
    /\ verdict = "rejected" => ~Accepts(draft)

LEMMA FaultEmpty ==
    ASSUME NEW field, NEW i, NEW wrong \in BOOLEAN, Fault(field, i, wrong) = {}
    PROVE  ~wrong
  BY DEF Fault

\* An accepted draft numbers its guests apart.
LEMMA GuestsApart ==
    ASSUME NEW r \in Drafts, Accepts(r)
    PROVE  \A g, h \in DOMAIN r.guests : r.guests[g].id = r.guests[h].id => g = h
<1>1. /\ IsSlice(r.guests)
      /\ \A i \in DOMAIN r.guests : GuestFaults(r.guests, i) = {}
  <2>1. validateGuests(r.guests) = {}
    BY DEF Accepts, validate
  <2>2. QED
    BY <2>1, DraftsAssumption DEF validateGuests
<1>2. \A i \in DOMAIN r.guests : ~\E j \in 1..(i - 1) : r.guests[j].id = r.guests[i].id
  <2> SUFFICES ASSUME NEW i \in DOMAIN r.guests
               PROVE  ~\E j \in 1..(i - 1) : r.guests[j].id = r.guests[i].id
    OBVIOUS
  <2>1. Fault("Guests.ID", i, \E j \in 1..(i - 1) : r.guests[j].id = r.guests[i].id) = {}
    BY <1>1 DEF GuestFaults
  <2>2. QED
    BY <2>1, FaultEmpty
<1>3. ASSUME NEW g \in DOMAIN r.guests, NEW h \in DOMAIN r.guests,
             r.guests[g].id = r.guests[h].id, g < h
      PROVE  FALSE
  BY <1>1, <1>2, <1>3 DEF IsSlice
<1>4. QED
  BY <1>1, <1>3 DEF IsSlice

\* An accepted draft puts only its own guests in rooms, and nobody twice.
LEMMA PlacesApart ==
    ASSUME NEW r \in Drafts, Accepts(r)
    PROVE  \A i \in DOMAIN r.rooms : \A k \in DOMAIN r.rooms[i].guestIDs :
              /\ \E g \in DOMAIN r.guests : r.guests[g].id = r.rooms[i].guestIDs[k]
              /\ ~Occupied(r.rooms, i, k)
<1> DEFINE numbered == {r.guests[g].id : g \in DOMAIN r.guests}
<1> SUFFICES ASSUME NEW i \in DOMAIN r.rooms, NEW k \in DOMAIN r.rooms[i].guestIDs
             PROVE  r.rooms[i].guestIDs[k] \in numbered /\ ~Occupied(r.rooms, i, k)
  OBVIOUS
<1>1. RoomFaults(r.rooms, numbered, i) = {}
  <2>1. validateRooms(r) = {}
    BY DEF Accepts, validate
  <2>2. QED
    BY <2>1 DEF validateRooms
<1> DEFINE wrong == \/ r.rooms[i].guestIDs = <<>>
                    \/ \E n \in DOMAIN r.rooms[i].guestIDs :
                          r.rooms[i].guestIDs[n] \notin numbered \/ Occupied(r.rooms, i, n)
<1>2. Fault("Rooms.GuestIDs", i, wrong) = {}
  BY <1>1 DEF RoomFaults
<1>3. ~wrong
  <2> HIDE DEF wrong
  <2>1. CASE wrong
    BY <2>1, <1>2 DEF Fault
  <2>2. QED
    BY <2>1
<1>4. QED
  BY <1>3

LEMMA AcceptedResolves ==
    ASSUME NEW r \in Drafts, Accepts(r)
    PROVE  Resolves(toRequest(r))
<1> DEFINE body == toRequest(r)
<1>1. /\ DOMAIN body.guests = DOMAIN r.guests
      /\ \A g \in DOMAIN r.guests : body.guests[g].tid = r.guests[g].id
  BY DEF toRequest, toGuest
<1>2. /\ DOMAIN body.rooms = DOMAIN r.rooms
      /\ \A i \in DOMAIN r.rooms :
            /\ DOMAIN body.rooms[i].references = DOMAIN r.rooms[i].guestIDs
            /\ \A k \in DOMAIN r.rooms[i].guestIDs :
                  body.rooms[i].references[k].guest = r.rooms[i].guestIDs[k]
  BY DEF toRequest, toRoom, GuestReferences
<1> HIDE DEF body
<1>3. ASSUME NEW i \in DOMAIN body.rooms, NEW ref \in Range(body.rooms[i].references)
      PROVE  \E g \in DOMAIN body.guests :
                \A h \in DOMAIN body.guests : body.guests[h].tid = ref.guest <=> h = g
  <2>1. PICK k \in DOMAIN body.rooms[i].references : ref = body.rooms[i].references[k]
    BY DEF Range
  <2>2. PICK g \in DOMAIN r.guests : r.guests[g].id = r.rooms[i].guestIDs[k]
    BY <1>2, PlacesApart
  <2>3. \A h \in DOMAIN r.guests : r.guests[h].id = r.guests[g].id <=> h = g
    BY GuestsApart
  <2>4. QED
    BY <1>1, <1>2, <2>1, <2>2, <2>3
<1>4. ASSUME NEW i \in DOMAIN body.rooms, NEW j \in DOMAIN body.rooms,
             NEW k \in DOMAIN body.rooms[i].references, NEW l \in DOMAIN body.rooms[j].references,
             body.rooms[i].references[k].guest = body.rooms[j].references[l].guest
      PROVE  i = j /\ k = l
  <2>1. r.rooms[i].guestIDs[k] = r.rooms[j].guestIDs[l]
    BY <1>2, <1>4
  <2>2. ~Occupied(r.rooms, i, k) /\ ~Occupied(r.rooms, j, l)
    BY <1>2, PlacesApart
  <2>3. /\ i \in Int /\ j \in Int /\ i >= 1 /\ j >= 1
        /\ k \in Int /\ l \in Int /\ k >= 1 /\ l >= 1
    BY <1>2, DraftsAssumption DEF IsSlice
  <2>4. ~(j < i) /\ ~(i < j)
    BY <1>2, <2>1, <2>2, <2>3 DEF Occupied
  <2>5. i = j
    BY <2>3, <2>4
  <2>6. ~(l < k) /\ ~(k < l)
    BY <1>2, <2>1, <2>2, <2>3, <2>5 DEF Occupied
  <2>7. QED
    BY <2>3, <2>5, <2>6
<1>5. QED
  BY <1>3, <1>4 DEF Resolves, body

LEMMA WireInvariant == ReservationSpec => []WireInv
<1>1. ReservationInit => WireInv
  BY DEF ReservationInit, WireInv
<1>2. WireInv /\ [ReservationNext]_reservationVars => WireInv'
  BY DEF WireInv, ReservationNext, CreateUpToCall, reservationVars
<1>3. QED
  BY <1>1, <1>2, PTL DEF ReservationSpec

\* Whatever is drafted, a body on the wire associates rooms with guests without
\* ambiguity: validateGuests and validateRooms together are enough.
THEOREM ResolveAlways == ReservationSpec => []ReferencesResolve
<1>1. WireInv => ReferencesResolve
  BY AcceptedResolves DEF WireInv, ReferencesResolve
<1>2. QED
  BY <1>1, WireInvariant, PTL

\* Whatever is drafted, a booking charged to a card carries one without faults.
THEOREM CardsChecked == ReservationSpec => []ChargedCardIsChecked
<1>1. WireInv => ChargedCardIsChecked
  <2> SUFFICES ASSUME WireInv, NEW body \in wire, RequiresCard(body.payment.method)
               PROVE  body.payment.card # {} /\ \A card \in body.payment.card : CardFaults(card) = {}
    BY DEF ChargedCardIsChecked
  <2>1. Accepts(draft) /\ body.payment.method = draft.payment.method
        /\ body.payment.card = draft.payment.card
    BY DEF WireInv, toRequest, toPayment
  <2>2. validatePayment(draft.payment) = {}
    BY <2>1 DEF Accepts, validate
  <2>3. RequiresCard(draft.payment.method)
    BY <2>1
  <2>4. draft.payment.card # {} /\ UNION {CardFaults(card) : card \in draft.payment.card} = {}
    BY <2>2, <2>3 DEF validatePayment
  <2>5. QED
    BY <2>1, <2>4
<1>2. QED
  BY <1>1, WireInvariant, PTL

-----------------------------------------------------------------------------
(* What the hotel reads. *)

LEMMA SeatsAreKept ==
    ASSUME NEW r \in Drafts
    PROVE  Understood(toRequest(r)).seats = Said(r).seats
<1> DEFINE rooms == toRequest(r).rooms
<1>1. /\ DOMAIN rooms = DOMAIN r.rooms
      /\ \A i \in DOMAIN r.rooms : rooms[i].references = GuestReferences(r.rooms[i].guestIDs, r.rooms[i].loyaltyIDs)
  BY DEF toRequest, toRoom
<1> HIDE DEF rooms
<1>2. ASSUME NEW i \in DOMAIN r.rooms
      PROVE  {<<i, ref.guest>> : ref \in Range(rooms[i].references)}
                = {<<i, id>> : id \in Range(r.rooms[i].guestIDs)}
  <2> DEFINE ids  == r.rooms[i].guestIDs
             refs == GuestReferences(ids, r.rooms[i].loyaltyIDs)
  <2>5. /\ DOMAIN refs = DOMAIN ids
        /\ \A k \in DOMAIN ids : refs[k].guest = ids[k]
    BY DEF GuestReferences
  <2>6. rooms[i].references = refs
    BY <1>1
  <2> HIDE DEF refs
  <2>1. /\ DOMAIN rooms[i].references = DOMAIN r.rooms[i].guestIDs
        /\ \A k \in DOMAIN r.rooms[i].guestIDs : rooms[i].references[k].guest = r.rooms[i].guestIDs[k]
    BY <2>5, <2>6
  <2>2. \A ref \in Range(rooms[i].references) : ref.guest \in Range(r.rooms[i].guestIDs)
    BY <2>1 DEF Range
  <2>3. \A id \in Range(r.rooms[i].guestIDs) : \E ref \in Range(rooms[i].references) : ref.guest = id
    BY <2>1 DEF Range
  <2>4. QED
    BY <2>2, <2>3
<1>3. UNION {{<<i, ref.guest>> : ref \in Range(rooms[i].references)} : i \in DOMAIN rooms}
         = UNION {{<<i, id>> : id \in Range(r.rooms[i].guestIDs)} : i \in DOMAIN r.rooms}
  BY <1>1, <1>2
<1>4. QED
  BY <1>3 DEF Understood, Said, rooms

LEMMA LoyaltyIsKept ==
    ASSUME NEW r \in Drafts, Expressible(r)
    PROVE  Understood(toRequest(r)).loyalty = Said(r).loyalty
<1> DEFINE rooms   == toRequest(r).rooms
           read(i) == {<<ref.guest, ref.loyalty>> :
                          ref \in {x \in Range(rooms[i].references) : x.loyalty # ""}}
           said(i) == {m \in {<<id, r.rooms[i].loyaltyIDs[id]>> : id \in DOMAIN r.rooms[i].loyaltyIDs} :
                          m[2] # ""}
<1>1. /\ DOMAIN rooms = DOMAIN r.rooms
      /\ \A i \in DOMAIN r.rooms : rooms[i].references = GuestReferences(r.rooms[i].guestIDs, r.rooms[i].loyaltyIDs)
  BY DEF toRequest, toRoom
<1> HIDE DEF rooms
<1>2. ASSUME NEW i \in DOMAIN r.rooms
      PROVE  read(i) = said(i)
  <2> DEFINE ids     == r.rooms[i].guestIDs
             loyalty == r.rooms[i].loyaltyIDs
             refs    == GuestReferences(ids, loyalty)
  <2>1. /\ DOMAIN refs = DOMAIN ids
        /\ \A k \in DOMAIN ids : refs[k].guest = ids[k] /\ refs[k].loyalty = LoyaltyOf(loyalty, ids[k])
    BY DEF GuestReferences
  <2>2. rooms[i].references = refs
    BY <1>1
  <2>3. DOMAIN loyalty \subseteq Range(ids)
    BY DEF Expressible
  <2> HIDE DEF ids, loyalty, refs
  <2>4. ASSUME NEW m \in read(i)
        PROVE  m \in said(i)
    <3>1. PICK k \in DOMAIN refs : refs[k].loyalty # "" /\ m = <<refs[k].guest, refs[k].loyalty>>
      BY <2>2 DEF Range
    <3>2. ids[k] \in DOMAIN loyalty /\ refs[k].loyalty = loyalty[ids[k]]
      BY <2>1, <3>1 DEF LoyaltyOf
    <3>3. m = <<ids[k], loyalty[ids[k]]>> /\ m[2] # ""
      BY <2>1, <3>1, <3>2
    <3>4. QED
      BY <3>2, <3>3 DEF loyalty
  <2>5. ASSUME NEW m \in said(i)
        PROVE  m \in read(i)
    <3>1. PICK id \in DOMAIN loyalty : m = <<id, loyalty[id]>> /\ loyalty[id] # ""
      <4>1. m \in {<<id, loyalty[id]>> : id \in DOMAIN loyalty} /\ m[2] # ""
        BY <2>5 DEF loyalty
      <4>2. PICK id \in DOMAIN loyalty : m = <<id, loyalty[id]>>
        BY <4>1
      <4>3. QED
        BY <4>1, <4>2
    <3>2. PICK k \in DOMAIN ids : ids[k] = id
      BY <2>3 DEF Range
    <3>3. refs[k] \in Range(refs) /\ refs[k].guest = id /\ refs[k].loyalty = loyalty[id]
      BY <2>1, <3>1, <3>2 DEF LoyaltyOf, Range
    <3>4. QED
      BY <2>2, <3>1, <3>3
  <2>6. QED
    BY <2>4, <2>5
<1> HIDE DEF read, said
<1>3. UNION {read(i) : i \in DOMAIN rooms} = UNION {said(i) : i \in DOMAIN r.rooms}
  BY <1>1, <1>2
<1>4. /\ Understood(toRequest(r)).loyalty = UNION {read(i) : i \in DOMAIN rooms}
      /\ Said(r).loyalty = UNION {said(i) : i \in DOMAIN r.rooms}
  BY DEF Understood, Said, rooms, read, said
<1>5. QED
  BY <1>3, <1>4

LEMMA ChildrenAreKept ==
    ASSUME NEW r \in Drafts
    PROVE  Understood(toRequest(r)).children = Said(r).children
<1> DEFINE guests == toRequest(r).guests
<1>1. /\ DOMAIN guests = DOMAIN r.guests
      /\ \A i \in DOMAIN r.guests :
            guests[i].tid = r.guests[i].id /\ guests[i].childAge = r.guests[i].childAge
  BY DEF toRequest, toGuest
<1> HIDE DEF guests
<1>2. UNION {{<<guests[i].tid, age>> : age \in guests[i].childAge} : i \in DOMAIN guests}
         = UNION {{<<r.guests[i].id, age>> : age \in r.guests[i].childAge} : i \in DOMAIN r.guests}
  BY <1>1
<1>3. QED
  BY <1>2 DEF Understood, Said, guests

LEMMA LandingIsKept ==
    ASSUME NEW r \in Drafts, Expressible(r)
    PROVE  Understood(toRequest(r)).landing = Said(r).landing
<1>1. ASSUME NEW a \in r.arrival
      PROVE  {leg.at : leg \in toFlight(a).arrival} = a.arrivingAt
  <2>1. CASE a.arrivingAt = {}
    BY <2>1 DEF toFlight, Expressible
  <2>2. CASE a.arrivingAt # {}
    <3>1. PICK at \in a.arrivingAt : a.arrivingAt = {at}
      BY <2>2, DraftsAssumption DEF IsPointer
    <3>2. toFlight(a).arrival = {[airport |-> a.airport, terminal |-> a.terminal, at |-> at]}
      BY <3>1 DEF toFlight
    <3>3. QED
      BY <3>1, <3>2
  <2>3. QED
    BY <2>1, <2>2
<1>2. UNION {{leg.at : leg \in f.arrival} : f \in {toFlight(a) : a \in r.arrival}}
         = UNION {a.arrivingAt : a \in r.arrival}
  BY <1>1
<1>3. QED
  BY <1>2 DEF Understood, Said, toRequest

\* Whatever is drafted that toRequest can say, the hotel reads in the body
\* exactly what the caller asked for.
THEOREM NothingIsDropped == ReservationSpec => []TermsAreKept
<1>1. WireInv => TermsAreKept
  <2> SUFFICES ASSUME WireInv, NEW body \in wire, Expressible(draft)
               PROVE  Understood(body) = Said(draft)
    BY DEF TermsAreKept
  <2>1. draft \in Drafts /\ body = toRequest(draft)
    BY DEF WireInv
  <2>2. /\ Understood(body).card = Said(draft).card
        /\ Understood(body).billBack = Said(draft).billBack
    BY <2>1 DEF Understood, Said, toRequest, toPayment
  <2>3. ASSUME NEW u, NEW s,
               u = [seats |-> u.seats, loyalty |-> u.loyalty, children |-> u.children, card |-> u.card,
                    billBack |-> u.billBack, landing |-> u.landing],
               s = [seats |-> s.seats, loyalty |-> s.loyalty, children |-> s.children, card |-> s.card,
                    billBack |-> s.billBack, landing |-> s.landing],
               u.seats = s.seats, u.loyalty = s.loyalty, u.children = s.children, u.card = s.card,
               u.billBack = s.billBack, u.landing = s.landing
        PROVE  u = s
    BY <2>3
  <2> DEFINE u == Understood(body)  s == Said(draft)
  <2>5. u = [seats |-> u.seats, loyalty |-> u.loyalty, children |-> u.children, card |-> u.card,
             billBack |-> u.billBack, landing |-> u.landing]
    BY DEF Understood
  <2>6. s = [seats |-> s.seats, loyalty |-> s.loyalty, children |-> s.children, card |-> s.card,
             billBack |-> s.billBack, landing |-> s.landing]
    BY DEF Said
  <2>7. u.seats = s.seats /\ u.loyalty = s.loyalty /\ u.children = s.children /\ u.landing = s.landing
    BY <2>1, SeatsAreKept, LoyaltyIsKept, ChildrenAreKept, LandingIsKept
  <2> HIDE DEF u, s
  <2>8. u = s
    BY <2>2, <2>3, <2>5, <2>6, <2>7 DEF u, s
  <2>9. QED
    BY <2>8 DEF u, s
<1>2. QED
  BY <1>1, WireInvariant, PTL

-----------------------------------------------------------------------------
(* What validate turns away. *)

LEMMA FaultName ==
    ASSUME NEW field, NEW i, NEW wrong, NEW fault \in Fault(field, i, wrong)
    PROVE  fault = <<field, i>>
  BY DEF Fault

\* Guests in order have no faults.
LEMMA BookableGuests ==
    ASSUME NEW r \in Drafts, Bookable(r)
    PROVE  validateGuests(r.guests) = {}
<1>1. /\ r.guests # <<>> /\ IsSlice(r.guests)
      /\ IsInjective([g \in DOMAIN r.guests |-> r.guests[g].id])
      /\ \A g \in DOMAIN r.guests : GuestFaults(<<r.guests[g]>>, 1) = {}
  BY DraftsAssumption DEF Bookable
<1>2. ASSUME NEW i \in DOMAIN r.guests
      PROVE  GuestFaults(r.guests, i) = {}
  <2> DEFINE guest == r.guests[i]
  <2>1. ~\E j \in 1..(i - 1) : r.guests[j].id = guest.id
    <3>1. \A g, h \in DOMAIN r.guests : r.guests[g].id = r.guests[h].id => g = h
      BY <1>1 DEF IsInjective
    <3>2. \A j \in 1..(i - 1) : j \in DOMAIN r.guests /\ j # i
      BY <1>1 DEF IsSlice
    <3>3. QED
      BY <3>1, <3>2
  <2>2. <<guest>>[1] = guest
    OBVIOUS
  <2>3. GuestFaults(<<guest>>, 1) = {}
    BY <1>1
  <2> HIDE DEF guest
  <2>4. /\ guest.firstName = "ok" /\ guest.lastName = "ok" /\ ~(guest.nameLength > MaxNameLength)
        /\ guest.email # "bad" /\ ~(\E age \in guest.childAge : age < 0 \/ age > 17)
        /\ ~(guest.memberships > 1)
    BY <2>2, <2>3 DEF GuestFaults, Fault
  <2>5. GuestFaults(r.guests, i) = {}
    BY <2>1, <2>4 DEF GuestFaults, Fault, guest
  <2>6. QED
    BY <2>5
<1>3. QED
  BY <1>1, <1>2 DEF validateGuests

\* Rooms in order have no faults, in whatever order they list their guests.
LEMMA BookableRooms ==
    ASSUME NEW r \in Drafts, Bookable(r)
    PROVE  validateRooms(r) = {}
<1> DEFINE numbered    == {r.guests[g].id : g \in DOMAIN r.guests}
           ids      == [g \in DOMAIN r.guests |-> r.guests[g].id]
           places   == UNION {{<<i, k>> : k \in DOMAIN r.rooms[i].guestIDs} : i \in DOMAIN r.rooms}
           occupant == [p \in places |-> r.rooms[p[1]].guestIDs[p[2]]]
<1>1. /\ Len(r.rooms) \in 1..MaxRooms
      /\ IsInjective(occupant) /\ Range(occupant) \subseteq Range(ids)
      /\ {p[1] : p \in places} = DOMAIN r.rooms
      /\ \A i \in DOMAIN r.rooms :
            /\ r.rooms[i].offer # "" /\ r.rooms[i].requestLength <= MaxSpecialRequest
            /\ DOMAIN r.rooms[i].loyaltyIDs \subseteq Range(ids)
  BY DEF Bookable
<1>2. Range(ids) = numbered
  BY DEF Range
<1>3. \A i \in DOMAIN r.rooms : \A k \in DOMAIN r.rooms[i].guestIDs :
          <<i, k>> \in places /\ occupant[<<i, k>>] = r.rooms[i].guestIDs[k]
  OBVIOUS
<1>4. ASSUME NEW i \in DOMAIN r.rooms
      PROVE  DOMAIN r.rooms[i].guestIDs # {}
  <2>1. PICK p \in places : p[1] = i
    BY <1>1
  <2>2. PICK j \in DOMAIN r.rooms : p \in {<<j, k>> : k \in DOMAIN r.rooms[j].guestIDs}
    BY <2>1
  <2>3. PICK k \in DOMAIN r.rooms[j].guestIDs : p = <<j, k>>
    BY <2>2
  <2>4. QED
    BY <2>1, <2>3
<1>5. DOMAIN occupant = places
  OBVIOUS
<1> HIDE DEF occupant, places, ids, numbered
<1>6. ASSUME NEW i \in DOMAIN r.rooms
      PROVE  RoomFaults(r.rooms, numbered, i) = {}
  <2>1. r.rooms[i].guestIDs # <<>>
    BY <1>4
  <2>2. \A k \in DOMAIN r.rooms[i].guestIDs : r.rooms[i].guestIDs[k] \in numbered
    <3> SUFFICES ASSUME NEW k \in DOMAIN r.rooms[i].guestIDs
                 PROVE  r.rooms[i].guestIDs[k] \in numbered
      OBVIOUS
    <3>1. occupant[<<i, k>>] \in Range(occupant)
      BY <1>3, <1>5 DEF Range
    <3>2. QED
      BY <1>1, <1>2, <1>3, <3>1
  <2>3. \A k \in DOMAIN r.rooms[i].guestIDs : ~Occupied(r.rooms, i, k)
    <3> SUFFICES ASSUME NEW k \in DOMAIN r.rooms[i].guestIDs, NEW j \in 1..i,
                        NEW l \in DOMAIN r.rooms[j].guestIDs, j < i \/ l < k,
                        r.rooms[j].guestIDs[l] = r.rooms[i].guestIDs[k]
                 PROVE  FALSE
      BY DEF Occupied
    <3>1. IsSlice(r.rooms) /\ IsSlice(r.rooms[i].guestIDs)
      BY DraftsAssumption
    <3>2. j \in DOMAIN r.rooms /\ i \in Int /\ k \in Int
      BY <3>1 DEF IsSlice
    <3>3. occupant[<<j, l>>] = occupant[<<i, k>>] /\ <<j, l>> \in DOMAIN occupant /\ <<i, k>> \in DOMAIN occupant
      BY <1>3, <1>5, <3>2
    <3>4. <<j, l>> = <<i, k>>
      BY <1>1, <3>3 DEF IsInjective
    <3>5. QED
      BY <3>2, <3>4
  <2>4. r.rooms[i].offer # "" /\ ~(r.rooms[i].requestLength > MaxSpecialRequest)
        /\ DOMAIN r.rooms[i].loyaltyIDs \subseteq numbered
    <3> DEFINE length == r.rooms[i].requestLength
    <3>1. length \in Nat /\ MaxSpecialRequest \in Nat
      BY LimitsAssumption, DraftsAssumption
    <3>2. length <= MaxSpecialRequest
      BY <1>1
    <3>3. ~(length > MaxSpecialRequest)
      <4> HIDE DEF length
      <4>1. QED
        BY <3>1, <3>2
    <3>4. r.rooms[i].offer # "" /\ DOMAIN r.rooms[i].loyaltyIDs \subseteq numbered
      BY <1>1, <1>2
    <3>5. QED
      BY <3>3, <3>4
  <2>5. QED
    BY <2>1, <2>2, <2>3, <2>4 DEF RoomFaults, Fault
<1>7. r.rooms # <<>> /\ ~(Len(r.rooms) > MaxRooms)
  <2>1. Len(r.rooms) >= 1 /\ Len(r.rooms) <= MaxRooms /\ Len(r.rooms) \in Int
    <3>1. Len(r.rooms) \in 1..MaxRooms
      BY <1>1
    <3>2. QED
      BY <3>1, LimitsAssumption
  <2>2. r.rooms # <<>>
    BY <2>1
  <2>3. QED
    BY <2>1, <2>2, LimitsAssumption
<1>8. QED
  BY <1>6, <1>7 DEF validateRooms, numbered

\* A draft that is rejected although its guests and rooms are in order has a
\* fault elsewhere: in its payment, its agent, its arrival or its record.
THEOREM BookableIsAccepted == ReservationSpec => []NothingBookableIsRejected
<1>1. WireInv => NothingBookableIsRejected
  <2> SUFFICES ASSUME WireInv, verdict = "rejected", Bookable(draft)
               PROVE  \E fault \in validate(draft) :
                         fault[1] \notin {"Guests", "Guests.ID", "Rooms", "Rooms.GuestIDs", "Rooms.LoyaltyIDs"}
    BY DEF NothingBookableIsRejected
  <2>1. draft \in Drafts /\ validate(draft) # {}
    BY DEF WireInv, Accepts
  <2>2. PICK fault \in validate(draft) : TRUE
    BY <2>1
  <2>3. validateGuests(draft.guests) = {} /\ validateRooms(draft) = {}
    BY <2>1, BookableGuests, BookableRooms
  <2> DEFINE elsewhere == {"Payment.Method", "Payment.Card", "Payment.BillBack", "Agent.Email", "Arrival",
                           "AddToPNR.Reference", "Card.VendorCode", "Card.Number", "Card.Expiry",
                           "Card.SecurityCode", "Card.HolderName", "Card.ThreeDS"}
             OfField(field) == fault = <<field, 0>>
  <2>4. \/ fault \in validatePayment(draft.payment)
        \/ OfField("Agent.Email") \/ OfField("Arrival") \/ OfField("AddToPNR.Reference")
    BY <2>2, <2>3, FaultName DEF validate
  <2>5. ASSUME NEW card, fault \in CardFaults(card)
        PROVE  \/ OfField("Card.VendorCode") \/ OfField("Card.Number") \/ OfField("Card.Expiry")
               \/ OfField("Card.SecurityCode") \/ OfField("Card.HolderName") \/ OfField("Card.ThreeDS")
    BY <2>5, Zenon DEF CardFaults, Fault
  <2>6. fault \in validatePayment(draft.payment) =>
           \/ OfField("Payment.Method") \/ OfField("Payment.Card") \/ OfField("Payment.BillBack")
           \/ \E card : fault \in CardFaults(card)
    BY Zenon DEF validatePayment, Fault
  <2>7. fault[1] \in elsewhere
    BY <2>4, <2>5, <2>6
  <2>8. QED
    BY <2>2, <2>7
<1>2. QED
  BY <1>1, WireInvariant, PTL

-----------------------------------------------------------------------------
(* Orders. *)

Shapes ==
    /\ operations \in Nat
    /\ status \in [Callers -> {"idle", "pending", "done"}]
    /\ executed \in [Callers -> 0..1]
    /\ DOMAIN outcome = Callers
    /\ DOMAIN ask = Callers /\ DOMAIN reply = Callers /\ DOMAIN told = Callers
    /\ orders \in Seq(Range(orders))
    /\ \A i \in DOMAIN orders : DOMAIN orders[i] = {"id", "by", "bookings"}

\* Operations are numbered apart.
Numbered ==
    /\ \A c \in Callers : ask[c].number \in 0..operations
    /\ \A c \in Callers : status[c] = "pending" => ask[c].number >= 1
    /\ \A c, d \in Callers :
          c # d /\ ask[c].number = ask[d].number => ask[c].number = 0

Filed ==
    /\ \A i \in DOMAIN orders : orders[i].id = i /\ orders[i].by \in 1..operations
    /\ \A c \in Callers : status[c] = "pending" =>
          \A i \in DOMAIN orders : orders[i].by = ask[c].number =>
              ask[c].op = "create" /\ executed[c] = 1

\* The server's answer to a Create holds its order, or the server kept it.
Handed(c) ==
    \/ reply[c].data = {} /\ ask[c].number \in bare
    \/ \E order : /\ reply[c].data = {order}
                  /\ order.id \in DOMAIN orders
                  /\ orders[order.id].by = ask[c].number

Answered ==
    \A c \in Callers : status[c] = "pending" =>
        /\ executed[c] = 0 => ~reply[c].ok
        /\ ask[c].op = "create" /\ reply[c].ok => Handed(c)

OrdersInv ==
    Shapes /\ Numbered /\ Filed /\ Answered /\ NoDoubleBooking /\ OrphansAreAccountedFor

-----------------------------------------------------------------------------
(* What the server does to the sequence of orders. *)

LEMMA Appended ==
    ASSUME NEW s, s \in Seq(Range(s)), NEW e
    PROVE  LET t == Append(s, e) IN
           /\ t \in Seq(Range(t))
           /\ DOMAIN t = 1..(Len(s) + 1) /\ DOMAIN s = 1..Len(s) /\ Len(s) \in Nat
           /\ \A i \in DOMAIN s : t[i] = s[i]
           /\ t[Len(s) + 1] = e
<1> DEFINE t == Append(s, e)
<1>1. s \in Seq(Range(s) \cup {e})
  BY DEF Range
<1>2. /\ t \in Seq(Range(s) \cup {e})
      /\ Len(t) = Len(s) + 1 /\ Len(s) \in Nat
      /\ \A i \in 1..Len(s) : t[i] = s[i]
      /\ t[Len(s) + 1] = e
  BY <1>1
<1>3. DOMAIN t = 1..(Len(s) + 1) /\ DOMAIN s = 1..Len(s)
  BY <1>1, <1>2
<1> HIDE DEF t
<1>4. t \in Seq(Range(t))
  BY <1>2, <1>3 DEF Range
<1>5. QED
  BY <1>2, <1>3, <1>4 DEF t

LEMMA Rewritten ==
    ASSUME NEW s, s \in Seq(Range(s)), NEW t, t = [i \in DOMAIN s |-> t[i]]
    PROVE  t \in Seq(Range(t)) /\ DOMAIN t = DOMAIN s
<1>1. DOMAIN t = 1..Len(s) /\ Len(s) \in Nat
  OBVIOUS
<1>2. t \in [1..Len(s) -> Range(t)]
  BY <1>1 DEF Range
<1>3. QED
  BY <1>1, <1>2

\* Changing a booking of an order keeps what identifies the orders.
LEMMA PutKeeps ==
    ASSUME Shapes, NEW c \in Callers, NEW b, orders' = Put(c, b)
    PROVE  /\ orders' \in Seq(Range(orders')) /\ DOMAIN orders' = DOMAIN orders
           /\ \A i \in DOMAIN orders :
                 /\ DOMAIN orders'[i] = {"id", "by", "bookings"}
                 /\ orders'[i].id = orders[i].id /\ orders'[i].by = orders[i].by
<1>1. orders' = [i \in DOMAIN orders |-> orders'[i]]
  BY DEF Put
<1>2. \A i \in DOMAIN orders :
          /\ DOMAIN orders'[i] = DOMAIN orders[i]
          /\ \A f \in DOMAIN orders[i] : f # "bookings" => orders'[i][f] = orders[i][f]
  BY DEF Put
<1>3. orders' \in Seq(Range(orders')) /\ DOMAIN orders' = DOMAIN orders
  <2>1. orders \in Seq(Range(orders))
    BY DEF Shapes
  <2> DEFINE t == orders'
  <2>2. t = [i \in DOMAIN orders |-> t[i]]
    BY <1>1
  <2> HIDE DEF t
  <2>3. t \in Seq(Range(t)) /\ DOMAIN t = DOMAIN orders
    BY <2>1, <2>2, Rewritten
  <2>4. QED
    BY <2>3 DEF t
<1>4. QED
  BY <1>2, <1>3 DEF Shapes

-----------------------------------------------------------------------------
(* The steps. *)

LEMMA OrdersInitInv == Init => OrdersInv
  BY DEF Init, Call!Init, NoAsk, NoReply, OrdersInv, Shapes, Numbered, Filed, Answered,
     NoDoubleBooking, OrphansAreAccountedFor, Range

LEMMA BeginStep ==
    ASSUME OrdersInv, NEW c \in Callers, NEW operation, NEW refused \in BOOLEAN,
           operation.number = operations + 1, Begin(c, operation, refused)
    PROVE  OrdersInv'
<1> USE DEF OrdersInv
<1>1. /\ status[c] # "pending" /\ operations' = operations + 1
      /\ ask' = [ask EXCEPT ![c] = operation]
      /\ reply' = [reply EXCEPT ![c] = NoReply]
      /\ orders' = orders /\ known' = known /\ lost' = lost /\ bare' = bare
      /\ DOMAIN told' = DOMAIN told
  BY DEF Begin
<1>2. \/ UNCHANGED <<status, executed, outcome>>
      \/ /\ status' = [status EXCEPT ![c] = "pending"]
         /\ DOMAIN outcome' = DOMAIN outcome
         /\ executed' = [executed EXCEPT ![c] = 0]
  BY DEF Begin, callVars, Call!Begin
<1>3. Shapes'
  BY <1>1, <1>2 DEF Shapes
<1>4. Numbered'
  BY <1>1, <1>2 DEF Shapes, Numbered
<1>5. Filed'
  BY <1>1, <1>2 DEF Shapes, Numbered, Filed
<1>6. Answered'
  BY <1>1, <1>2 DEF Shapes, Answered, Handed, NoReply
<1>7. NoDoubleBooking'
  BY <1>1 DEF NoDoubleBooking
<1>8. OrphansAreAccountedFor'
  BY <1>1, <1>2 DEF Shapes, OrphansAreAccountedFor
<1>9. QED
  BY <1>3, <1>4, <1>5, <1>6, <1>7, <1>8

LEMMA OperationStep ==
    ASSUME OrdersInv, NEW c \in Callers, Operation(c)
    PROVE  OrdersInv'
<1> DEFINE Begins(operation, refused) ==
              operation.number = operations + 1 /\ refused \in BOOLEAN /\ Begin(c, operation, refused)
<1>1. ASSUME NEW operation, NEW refused, Begins(operation, refused) PROVE OrdersInv'
  BY <1>1, BeginStep
<1>2. ASSUME NEW r \in Drafts, Create(c, r) PROVE OrdersInv'
  <2> DEFINE o == [op |-> "create", number |-> operations + 1,
                   body |-> IF Accepts(r) THEN {toRequest(r)} ELSE {}]
  <2>1. Begins(o, ~Accepts(r))
    BY <1>2 DEF Create, Accepts
  <2> HIDE DEF o, Begins
  <2>2. QED
    BY <1>1, <2>1
<1>3. ASSUME NEW id, Get(c, id) PROVE OrdersInv'
  <2> DEFINE o == [op |-> "get", number |-> operations + 1, order |-> id]
  <2>1. Begins(o, id = 0)
    BY <1>3 DEF Get
  <2> HIDE DEF o, Begins
  <2>2. QED
    BY <1>1, <2>1
<1>4. ASSUME NEW reference, GetByReference(c, reference) PROVE OrdersInv'
  <2> DEFINE o == [op |-> "byReference", number |-> operations + 1, order |-> reference]
  <2>1. Begins(o, reference = 0)
    BY <1>4 DEF GetByReference
  <2> HIDE DEF o, Begins
  <2>2. QED
    BY <1>1, <2>1
<1>5. ASSUME NEW id, NEW booking, Cancel(c, id, booking) PROVE OrdersInv'
  <2> DEFINE o == [op |-> "cancel", number |-> operations + 1, order |-> id, booking |-> booking]
  <2>1. Begins(o, ~validateIDs(id, booking))
    BY <1>5 DEF Cancel, validateIDs
  <2> HIDE DEF o, Begins
  <2>2. QED
    BY <1>1, <2>1
<1>6. ASSUME NEW id, NEW booking, Delete(c, id, booking) PROVE OrdersInv'
  <2> DEFINE o == [op |-> "delete", number |-> operations + 1, order |-> id, booking |-> booking]
  <2>1. Begins(o, ~validateIDs(id, booking))
    BY <1>6 DEF Delete, validateIDs
  <2> HIDE DEF o, Begins
  <2>2. QED
    BY <1>1, <2>1
<1>7. ASSUME NEW id, NEW booking, NEW m \in Modifications, Modify(c, id, booking, m) PROVE OrdersInv'
  <2> DEFINE o == [op |-> "modify", number |-> operations + 1, order |-> id, booking |-> booking,
                   change |-> m]
  <2>1. Begins(o, ~validateIDs(id, booking) \/ validateModification(m) # {})
    BY <1>7 DEF Modify, validateIDs
  <2> HIDE DEF o, Begins
  <2>2. QED
    BY <1>1, <2>1
<1>8. QED
  BY <1>2, <1>3, <1>4, <1>5, <1>6, <1>7 DEF Operation

\* The server changes nothing that identifies the orders, and does not answer
\* a Create.
LEMMA ExecuteOther ==
    ASSUME OrdersInv, NEW c \in Callers, Call!Execute(c), UNCHANGED <<ask, told, known, lost, operations>>,
           bare \subseteq bare',
           ReadOrder(c) \/ UnknownReference(c) \/ CancelBooking(c) \/ PatchBooking(c) \/ Refuse
    PROVE  OrdersInv'
<1> USE DEF OrdersInv
<1>1. /\ status[c] = "pending" /\ executed[c] = 0 /\ status' = status
      /\ outcome' = outcome
      /\ executed' = [executed EXCEPT ![c] = 1]
  BY DEF Call!Execute
<1>2. /\ orders' \in Seq(Range(orders')) /\ DOMAIN orders' = DOMAIN orders
      /\ \A i \in DOMAIN orders :
            /\ DOMAIN orders'[i] = {"id", "by", "bookings"}
            /\ orders'[i].id = orders[i].id /\ orders'[i].by = orders[i].by
  <2>1. orders' = orders \/ \E b : orders' = Put(c, b)
    BY DEF ReadOrder, UnknownReference, CancelBooking, PatchBooking, Refuse
  <2>2. CASE orders' = orders
    BY <2>2 DEF Shapes
  <2>3. QED
    BY <2>1, <2>2, PutKeeps
<1>3. /\ DOMAIN reply' = DOMAIN reply
      /\ \A d \in Callers : d # c => reply'[d] = reply[d]
      /\ ask[c].op = "create" => reply' = reply
  BY DEF ReadOrder, UnknownReference, CancelBooking, PatchBooking, Refuse, ReplyData, Reply, Changeable, Shapes
<1>4. Shapes'
  BY <1>1, <1>2, <1>3 DEF Shapes
<1>5. Numbered'
  BY <1>1 DEF Numbered
<1>6. Filed'
  BY <1>1, <1>2 DEF Shapes, Filed
<1>7. Answered'
  <2> SUFFICES ASSUME NEW d \in Callers, status'[d] = "pending"
               PROVE  /\ executed'[d] = 0 => ~reply'[d].ok
                      /\ ask'[d].op = "create" /\ reply'[d].ok => Handed(d)'
    BY DEF Answered
  <2>1. CASE d = c
    <3>1. executed'[d] = 1 /\ ~reply[d].ok
      BY <1>1, <2>1 DEF Shapes, Answered
    <3>2. QED
      BY <1>3, <2>1, <3>1
  <2>2. CASE d # c
    <3>1. executed'[d] = executed[d] /\ reply'[d] = reply[d] /\ ask'[d] = ask[d]
          /\ status[d] = "pending"
      BY <1>1, <1>3, <2>2 DEF Shapes
    <3>2. executed[d] = 0 => ~reply[d].ok
      BY <3>1 DEF Answered
    <3>3. ASSUME ask[d].op = "create", reply[d].ok
          PROVE  Handed(d)'
      BY <1>2, <3>1, <3>3 DEF Answered, Handed
    <3>4. QED
      BY <3>1, <3>2, <3>3
  <2>3. QED
    BY <2>1, <2>2
<1>8. NoDoubleBooking'
  BY <1>2 DEF NoDoubleBooking
<1>9. OrphansAreAccountedFor'
  BY <1>1, <1>2 DEF OrphansAreAccountedFor
<1>10. QED
  BY <1>4, <1>5, <1>6, <1>7, <1>8, <1>9

\* The server makes the order of a Create.
LEMMA ExecuteCreate ==
    ASSUME OrdersInv, NEW c \in Callers, Call!Execute(c), UNCHANGED <<ask, told, known, lost, operations>>,
           bare \subseteq bare', reply'[c].data = {} => ask[c].number \in bare',
           MakeOrder(c)
    PROVE  OrdersInv'
<1> USE DEF OrdersInv
<1>1. /\ status[c] = "pending" /\ executed[c] = 0 /\ status' = status
      /\ outcome' = outcome
      /\ executed' = [executed EXCEPT ![c] = 1]
  BY DEF Call!Execute
<1>2. PICK bookings :
          LET made == [id |-> Len(orders) + 1, by |-> ask[c].number, bookings |-> bookings]
          IN  /\ orders' = Append(orders, made)
              /\ \E data \in {{}, {made}} :
                    reply' = [reply EXCEPT ![c] = [ok |-> TRUE, data |-> data, included |-> {}]]
  BY DEF MakeOrder, ReplyData, Reply
<1> DEFINE n == Len(orders)
           made == [id |-> n + 1, by |-> ask[c].number, bookings |-> bookings]
<1>3. /\ orders' \in Seq(Range(orders'))
      /\ n \in Nat /\ DOMAIN orders = 1..n /\ DOMAIN orders' = 1..(n + 1)
      /\ \A i \in DOMAIN orders : orders'[i] = orders[i]
      /\ orders'[n + 1] = made
  <2>1. orders \in Seq(Range(orders))
    BY DEF Shapes
  <2>2. QED
    BY <1>2, <2>1, Appended
<1>4. ask[c].op = "create"
  BY DEF MakeOrder
<1>5. DOMAIN made = {"id", "by", "bookings"} /\ made.id = n + 1 /\ made.by = ask[c].number
  OBVIOUS
<1>6. /\ DOMAIN reply' = Callers
      /\ reply'[c].ok /\ (reply'[c].data = {} \/ reply'[c].data = {made})
      /\ \A d \in Callers : d # c => reply'[d] = reply[d]
  BY <1>2 DEF Shapes
<1> HIDE DEF n, made
<1>7. Shapes'
  <2>1. \A i \in DOMAIN orders' : DOMAIN orders'[i] = {"id", "by", "bookings"}
    BY <1>3, <1>5 DEF Shapes
  <2>2. /\ executed' \in [Callers -> 0..1] /\ DOMAIN outcome' = Callers
        /\ DOMAIN ask' = Callers /\ DOMAIN told' = Callers /\ operations' \in Nat
    BY <1>1 DEF Shapes
  <2>3. QED
    BY <1>1, <1>3, <1>6, <2>1, <2>2 DEF Shapes
<1>8. Numbered'
  BY <1>1 DEF Numbered
<1>9. Filed'
  <2>1. ask[c].number \in 1..operations
    BY <1>1 DEF Numbered, Shapes
  <2>2. \A i \in DOMAIN orders' : orders'[i].id = i /\ orders'[i].by \in 1..operations'
    BY <1>3, <1>5, <2>1 DEF Filed
  <2>3. ASSUME NEW d \in Callers, status'[d] = "pending", NEW i \in DOMAIN orders',
               orders'[i].by = ask'[d].number
        PROVE  ask'[d].op = "create" /\ executed'[d] = 1
    <3>1. CASE i \in DOMAIN orders
      BY <1>1, <1>3, <2>3, <3>1 DEF Filed, Shapes
    <3>2. CASE i = n + 1
      <4>1. ask[d].number = ask[c].number
        BY <1>3, <1>5, <2>3, <3>2
      <4>2. d = c
        BY <2>1, <4>1 DEF Numbered
      <4>3. QED
        BY <1>1, <1>4, <4>2 DEF Shapes
    <3>3. QED
      BY <1>3, <3>1, <3>2
  <2>4. QED
    BY <2>2, <2>3 DEF Filed
<1>10. Answered'
  <2> SUFFICES ASSUME NEW d \in Callers, status'[d] = "pending"
               PROVE  /\ executed'[d] = 0 => ~reply'[d].ok
                      /\ ask'[d].op = "create" /\ reply'[d].ok => Handed(d)'
    BY DEF Answered
  <2>1. CASE d = c
    <3>1. executed'[c] = 1 /\ ask' = ask
      BY <1>1 DEF Shapes
    <3>2. made.id \in DOMAIN orders' /\ orders'[made.id].by = ask[c].number
      BY <1>3, <1>5
    <3>3. QED
      BY <1>6, <2>1, <3>1, <3>2 DEF Handed
  <2>2. CASE d # c
    <3>1. executed'[d] = executed[d] /\ reply'[d] = reply[d] /\ ask'[d] = ask[d]
          /\ status[d] = "pending"
      BY <1>1, <1>6, <2>2 DEF Shapes
    <3>2. executed[d] = 0 => ~reply[d].ok
      BY <3>1 DEF Answered
    <3>3. ASSUME ask[d].op = "create", reply[d].ok
          PROVE  Handed(d)'
      BY SMTT(30), <1>3, <3>1, <3>3 DEF Answered, Handed
    <3>4. QED
      BY <3>1, <3>2, <3>3
  <2>3. QED
    BY <2>1, <2>2
<1>11. NoDoubleBooking'
  BY <1>1, <1>3, <1>5 DEF Filed, NoDoubleBooking
<1>12. OrphansAreAccountedFor'
  BY <1>1, <1>3, <1>5 DEF OrphansAreAccountedFor
<1>13. QED
  BY <1>7, <1>8, <1>9, <1>10, <1>11, <1>12

LEMMA ReturnStep ==
    ASSUME OrdersInv, NEW c \in Callers, Return(c)
    PROVE  OrdersInv'
<1> USE DEF OrdersInv
<1>1. /\ status[c] = "pending" /\ status' = [status EXCEPT ![c] = "done"]
      /\ executed' = executed
      /\ DOMAIN outcome' = DOMAIN outcome
      /\ outcome'[c] = "ok" => reply[c].ok
      /\ UNCHANGED <<ask, orders, bare, operations>>
      /\ DOMAIN told' = DOMAIN told
      /\ reply' = [reply EXCEPT ![c] = NoReply]
      /\ known' = known \cup ({told'[c].order.id} \ {0})
      /\ lost \subseteq lost'
  BY DEF Return, Call!Finish
<1>2. Shapes'
  BY <1>1 DEF Shapes
<1>3. Numbered'
  BY <1>1 DEF Shapes, Numbered
<1>4. Filed'
  BY <1>1 DEF Shapes, Filed
<1>5. Answered'
  BY <1>1 DEF Shapes, Answered, Handed
<1>6. NoDoubleBooking'
  BY <1>1 DEF NoDoubleBooking
<1>7. OrphansAreAccountedFor'
  <2> SUFFICES ASSUME NEW i \in DOMAIN orders, orders[i].by = ask[c].number
               PROVE  orders[i].id \in known' \/ orders[i].by \in lost' \cup bare
    BY <1>1 DEF Shapes, OrphansAreAccountedFor
  <2>1. ask[c].op = "create" /\ orders[i].id = i /\ i # 0
    BY <1>1 DEF Filed, Shapes
  <2>2. CASE outcome'[c] = "ok" /\ ask[c].number \notin bare
    <3>1. PICK made : /\ reply[c].data = {made}
                      /\ made.id \in DOMAIN orders
                      /\ orders[made.id].by = ask[c].number
      BY <1>1, <2>1, <2>2 DEF Answered, Handed
    <3>2. made.id = i
      BY <3>1 DEF NoDoubleBooking
    <3>3. told'[c] = Result("create", reply[c])
      BY <2>1, <2>2 DEF Return, Shapes
    <3>4. told'[c].order.id = made.id
      <4>1. Decoded({made}) = made
        BY DEF Decoded
      <4>2. Result("create", reply[c]) = Told("order", mapOrder(Decoded(reply[c].data)), "")
        BY DEF Result
      <4>3. told'[c] = Told("order", mapOrder(made), "")
        BY <3>1, <3>3, <4>1, <4>2
      <4>4. \A o : Told("order", o, "").order = o
        BY DEF Told
      <4>5. mapOrder(made).id = made.id
        BY DEF mapOrder
      <4>6. QED
        BY <4>3, <4>4, <4>5
    <3>5. QED
      BY <1>1, <2>1, <3>2, <3>4
  <2>3. CASE outcome'[c] # "ok"
    <3>1. outcome'[c] = "error"
      BY <2>3 DEF Return, Call!Finish, Shapes
    <3>2. QED
      BY <2>1, <3>1 DEF Return
  <2>4. QED
    BY <2>2, <2>3
<1>8. QED
  BY <1>2, <1>3, <1>4, <1>5, <1>6, <1>7

LEMMA OrdersStep == OrdersInv /\ [Next]_vars => OrdersInv'
<1> SUFFICES ASSUME OrdersInv, [Next]_vars PROVE OrdersInv'
  OBVIOUS
<1>1. ASSUME NEW c \in Callers, Operation(c) PROVE OrdersInv'
  BY <1>1, OperationStep
<1>2. ASSUME NEW c \in Callers, Execute(c) PROVE OrdersInv'
  <2>1. /\ Call!Execute(c) /\ UNCHANGED <<ask, told, known, lost, operations>>
        /\ bare \subseteq bare'
    BY <1>2 DEF Execute
  <2>2. CASE MakeOrder(c)
    <3>1. ask[c].op = "create" /\ reply'[c].ok
      BY <2>2 DEF MakeOrder, ReplyData, Reply, OrdersInv, Shapes
    <3>2. reply'[c].data = {} => ask[c].number \in bare'
      BY <1>2, <3>1 DEF Execute
    <3>3. QED
      BY <2>1, <2>2, <3>2, ExecuteCreate
  <2>3. CASE ReadOrder(c) \/ UnknownReference(c) \/ CancelBooking(c) \/ PatchBooking(c) \/ Refuse
    BY <2>1, <2>3, ExecuteOther
  <2>4. QED
    BY <1>2, <2>2, <2>3 DEF Execute
<1>3. ASSUME NEW c \in Callers, Return(c) PROVE OrdersInv'
  BY <1>3, ReturnStep
<1>4. CASE UNCHANGED vars
  BY <1>4 DEF vars, OrdersInv, Shapes, Numbered, Filed, Answered, Handed, NoDoubleBooking,
     OrphansAreAccountedFor
<1>5. QED
  BY <1>1, <1>2, <1>3, <1>4 DEF Next

-----------------------------------------------------------------------------

\* The inductive invariant of the booking service and its server.
THEOREM OrdersInvariant == Spec => []OrdersInv
  BY OrdersInitInv, OrdersStep, PTL DEF Spec

\* One Create makes at most one order, however many goroutines share the
\* client and whatever replies are lost.
THEOREM OneOrderPerCreate == Spec => []NoDoubleBooking
<1>1. OrdersInv => NoDoubleBooking
  BY DEF OrdersInv
<1>2. QED
  BY <1>1, OrdersInvariant, PTL

\* Every order is one the application has the ID of, or is the business of a
\* Create that is under way, that reported an error or whose answer did not hold
\* the order: an ID that reaches the SDK reaches the caller, whatever else the
\* other goroutines do.
THEOREM NoIDIsMislaid == Spec => []OrphansAreAccountedFor
<1>1. OrdersInv => OrphansAreAccountedFor
  BY DEF OrdersInv
<1>2. QED
  BY <1>1, OrdersInvariant, PTL
-----------------------------------------------------------------------------
(* What becomes of the terms of a booking. *)

Fields == {"request", "references", "offer", "checkIn", "checkOut", "guests", "rateCode", "card"}

\* Every booking the server holds is on terms of its own.
OnTerms ==
    \A i \in DOMAIN orders : \A b \in DOMAIN orders[i].bookings :
        /\ DOMAIN orders[i].bookings[b] = {"state", "provider", "terms"}
        /\ DOMAIN orders[i].bookings[b].terms = Fields

\* A step of the server writes one booking, the one its caller asked about.
LEMMA PutWritesOne ==
    ASSUME Shapes, NEW c \in Callers, NEW new, orders' = Put(c, new)
    PROVE  /\ DOMAIN orders' = DOMAIN orders
           /\ \A i \in DOMAIN orders :
                 /\ DOMAIN orders'[i].bookings = DOMAIN orders[i].bookings
                 /\ \A b \in DOMAIN orders[i].bookings :
                       orders'[i].bookings[b] = IF i = ask[c].order /\ b = ask[c].booking
                                                THEN new ELSE orders[i].bookings[b]
<1>1. \A i \in DOMAIN orders : "bookings" \in DOMAIN orders[i]
  BY DEF Shapes
<1>2. DOMAIN orders' = DOMAIN orders
  BY DEF Put
<1>3. ASSUME NEW i \in DOMAIN orders
      PROVE  orders'[i].bookings = IF i = ask[c].order
                                   THEN [orders[i].bookings EXCEPT ![ask[c].booking] = new]
                                   ELSE orders[i].bookings
  BY <1>1 DEF Put
<1>4. QED
  BY <1>2, <1>3

\* Cancelling a booking leaves its terms.
LEMMA CancelKeepsTerms ==
    ASSUME Shapes, OnTerms, NEW c \in Callers, CancelBooking(c)
    PROVE  /\ OnTerms'
           /\ \A i \in DOMAIN orders : \A b \in DOMAIN orders[i].bookings :
                 orders'[i].bookings[b].terms = orders[i].bookings[b].terms
<1> DEFINE old == orders[ask[c].order].bookings[ask[c].booking]
<1>1. ask[c].order \in DOMAIN orders /\ ask[c].booking \in DOMAIN orders[ask[c].order].bookings
  BY DEF CancelBooking, Changeable, Exists
<1>2. PICK number \in {"X", "NONE"} :
         orders' = Put(c, [old EXCEPT !.provider.cancellation = number,
                           !.state = IF ask[c].op = "cancel" THEN "CANCELLED" ELSE "DELETED"])
  BY DEF CancelBooking
<1> DEFINE new == [old EXCEPT !.provider.cancellation = number,
                   !.state = IF ask[c].op = "cancel" THEN "CANCELLED" ELSE "DELETED"]
<1>3. DOMAIN old = {"state", "provider", "terms"} /\ DOMAIN old.terms = Fields
  BY <1>1 DEF OnTerms
<1>4. DOMAIN new = {"state", "provider", "terms"} /\ new.terms = old.terms
  BY <1>3
<1>5. orders' = Put(c, new)
  BY <1>2
<1> HIDE DEF new
<1>6. DOMAIN orders' = DOMAIN orders
  BY <1>5, PutWritesOne
<1>7. ASSUME NEW i \in DOMAIN orders
      PROVE  /\ DOMAIN orders'[i].bookings = DOMAIN orders[i].bookings
             /\ \A b \in DOMAIN orders[i].bookings :
                   /\ DOMAIN orders'[i].bookings[b] = {"state", "provider", "terms"}
                   /\ DOMAIN orders'[i].bookings[b].terms = Fields
                   /\ orders'[i].bookings[b].terms = orders[i].bookings[b].terms
  <2>1. /\ DOMAIN orders'[i].bookings = DOMAIN orders[i].bookings
        /\ \A b \in DOMAIN orders[i].bookings :
              orders'[i].bookings[b] = IF i = ask[c].order /\ b = ask[c].booking
                                       THEN new ELSE orders[i].bookings[b]
    BY <1>5, PutWritesOne
  <2>2. \A b \in DOMAIN orders[i].bookings :
           /\ DOMAIN orders[i].bookings[b] = {"state", "provider", "terms"}
           /\ DOMAIN orders[i].bookings[b].terms = Fields
    BY DEF OnTerms
  <2>3. QED
    BY <1>3, <1>4, <2>1, <2>2
<1>8. QED
  BY <1>6, <1>7 DEF OnTerms

\* The body of a PATCH has only fields that the modification sets.
LEMMA OnlyWantedIsSent ==
    ASSUME NEW m, NEW f \in Fields, toUpdateRequest(m)[f] # {}
    PROVE  Wanted(m)[f] # {}
<1>1. CASE f = "request"
  BY <1>1 DEF toUpdateRequest, Wanted
<1>2. CASE f # "request"
  <2>1. toUpdateRequest(m)[f] = Wanted(m)[f]
    <3>1. CASE f = "references"
      BY <3>1 DEF toUpdateRequest, Wanted
    <3>2. CASE f = "offer"
      BY <3>2 DEF toUpdateRequest, Wanted
    <3>3. CASE f = "checkIn"
      BY <3>3 DEF toUpdateRequest, Wanted
    <3>4. CASE f = "checkOut"
      BY <3>4 DEF toUpdateRequest, Wanted
    <3>5. CASE f = "guests"
      BY <3>5 DEF toUpdateRequest, Wanted
    <3>6. CASE f = "rateCode"
      BY <3>6 DEF toUpdateRequest, Wanted
    <3>7. CASE f = "card"
      BY <3>7 DEF toUpdateRequest, Wanted
    <3>8. QED
      BY <1>2, <3>1, <3>2, <3>3, <3>4, <3>5, <3>6, <3>7 DEF Fields
  <2>2. QED
    BY <2>1
<1>3. QED
  BY <1>1, <1>2

\* A PATCH changes, of the booking it addresses, the terms that its caller set.
LEMMA PatchChangesWanted ==
    ASSUME Shapes, OnTerms, NEW c \in Callers, PatchBooking(c)
    PROVE  /\ OnTerms'
           /\ \A i \in DOMAIN orders : \A b \in DOMAIN orders[i].bookings :
              \A f \in DOMAIN orders[i].bookings[b].terms :
                 orders'[i].bookings[b].terms[f] # orders[i].bookings[b].terms[f] =>
                    /\ ask[c].op = "modify" /\ ask[c].order = i /\ ask[c].booking = b
                    /\ Wanted(ask[c].change)[f] # {}
<1> DEFINE old  == orders[ask[c].order].bookings[ask[c].booking]
           body == toUpdateRequest(ask[c].change)
           new  == [old EXCEPT !.terms = Patch(@, body)]
<1>1. /\ ask[c].order \in DOMAIN orders /\ ask[c].booking \in DOMAIN orders[ask[c].order].bookings
      /\ ask[c].op = "modify"
  BY DEF PatchBooking, Changeable, Exists
<1>2. orders' = Put(c, new)
  BY DEF PatchBooking
<1>3. DOMAIN old = {"state", "provider", "terms"} /\ DOMAIN old.terms = Fields
  BY <1>1 DEF OnTerms
<1>4. DOMAIN new = {"state", "provider", "terms"} /\ new.terms = Patch(old.terms, body)
  BY <1>3
<1>5. /\ DOMAIN new.terms = Fields
      /\ \A f \in Fields : body[f] = {} => new.terms[f] = old.terms[f]
  BY <1>3, <1>4 DEF Patch
<1>6. \A f \in Fields : body[f] # {} => Wanted(ask[c].change)[f] # {}
  BY OnlyWantedIsSent
<1> HIDE DEF new, body
<1>7. OnTerms'
  <2> SUFFICES ASSUME NEW i \in DOMAIN orders', NEW b \in DOMAIN orders'[i].bookings
               PROVE  /\ DOMAIN orders'[i].bookings[b] = {"state", "provider", "terms"}
                      /\ DOMAIN orders'[i].bookings[b].terms = Fields
    BY DEF OnTerms
  <2>1. /\ i \in DOMAIN orders /\ b \in DOMAIN orders[i].bookings
        /\ orders'[i].bookings[b] = new \/ orders'[i].bookings[b] = orders[i].bookings[b]
    BY <1>2, PutWritesOne
  <2>2. CASE orders'[i].bookings[b] = new
    BY <1>4, <1>5, <2>2
  <2>3. CASE orders'[i].bookings[b] = orders[i].bookings[b]
    BY <2>1, <2>3 DEF OnTerms
  <2>4. QED
    BY <2>1, <2>2, <2>3
<1>8. ASSUME NEW i \in DOMAIN orders, NEW b \in DOMAIN orders[i].bookings,
             NEW f \in DOMAIN orders[i].bookings[b].terms,
             orders'[i].bookings[b].terms[f] # orders[i].bookings[b].terms[f]
      PROVE  ask[c].order = i /\ ask[c].booking = b /\ Wanted(ask[c].change)[f] # {}
  <2>1. i = ask[c].order /\ b = ask[c].booking /\ orders'[i].bookings[b] = new
    BY <1>2, <1>8, PutWritesOne
  <2>2. f \in Fields /\ body[f] # {}
    BY <1>3, <1>5, <1>8, <2>1
  <2>3. QED
    BY <1>6, <2>1, <2>2
<1>9. QED
  BY <1>1, <1>7, <1>8

\* An order that is made is on the terms of its request, and no other changes.
LEMMA MakeKeepsTerms ==
    ASSUME Shapes, OnTerms, NEW c \in Callers, MakeOrder(c)
    PROVE  /\ OnTerms'
           /\ \A i \in DOMAIN orders : orders'[i] = orders[i]
<1>1. PICK body \in ask[c].body, state \in {"CONFIRMED", "PENDING"} :
         orders' = Append(orders, [id |-> Len(orders) + 1, by |-> ask[c].number,
                                   bookings |-> <<NewBooking(body, state)>>])
  BY DEF MakeOrder
<1> DEFINE made == [id |-> Len(orders) + 1, by |-> ask[c].number,
                    bookings |-> <<NewBooking(body, state)>>]
<1>2. orders' = Append(orders, made) /\ orders \in Seq(Range(orders))
  BY <1>1 DEF Shapes
<1>3. made.bookings = <<NewBooking(body, state)>>
  OBVIOUS
<1>4. /\ DOMAIN made.bookings = {1} /\ made.bookings[1] = NewBooking(body, state)
  BY <1>3
<1>5. /\ DOMAIN NewBooking(body, state) = {"state", "provider", "terms"}
      /\ DOMAIN NewBooking(body, state).terms = Fields
  BY DEF NewBooking, Terms, Fields
<1> HIDE DEF made
<1>6. /\ Len(orders) \in Nat /\ DOMAIN orders = 1..Len(orders) /\ DOMAIN orders' = 1..(Len(orders) + 1)
      /\ \A i \in DOMAIN orders : orders'[i] = orders[i]
      /\ orders'[Len(orders) + 1] = made
  BY <1>2, Appended
<1>7. \A i \in DOMAIN orders' : i \in DOMAIN orders \/ i = Len(orders) + 1
  BY <1>6
<1>8. QED
  BY <1>4, <1>5, <1>6, <1>7 DEF OnTerms

\* What every step does to the terms of the bookings there are.
ChangedAsWanted ==
    \A i \in DOMAIN orders : \A b \in DOMAIN orders[i].bookings :
        LET terms == orders[i].bookings[b].terms
        IN  \A f \in DOMAIN terms :
                orders'[i].bookings[b].terms[f] # terms[f] =>
                    \E c \in Callers :
                        /\ executed[c] = 0 /\ executed'[c] = 1
                        /\ ask[c].op = "modify" /\ ask[c].order = i /\ ask[c].booking = b
                        /\ Wanted(ask[c].change)[f] # {}

LEMMA TermsStep ==
    ASSUME Shapes, OnTerms, [Next]_vars
    PROVE  OnTerms' /\ ChangedAsWanted
<1>1. CASE orders' = orders
  BY <1>1 DEF OnTerms, ChangedAsWanted
<1>2. ASSUME NEW c \in Callers, Execute(c)
      PROVE  OnTerms' /\ ChangedAsWanted
  <2>1. executed[c] = 0 /\ executed'[c] = 1
    BY <1>2 DEF Execute, Call!Execute, Shapes
  <2>2. CASE MakeOrder(c)
    BY <2>2, MakeKeepsTerms DEF ChangedAsWanted
  <2>3. CASE CancelBooking(c)
    BY <2>3, CancelKeepsTerms DEF ChangedAsWanted
  <2>4. CASE PatchBooking(c)
    BY <2>1, <2>4, PatchChangesWanted DEF ChangedAsWanted
  <2>5. CASE ReadOrder(c) \/ UnknownReference(c) \/ Refuse
    BY <1>1, <2>5 DEF ReadOrder, UnknownReference, Refuse
  <2>6. QED
    BY <1>2, <2>2, <2>3, <2>4, <2>5 DEF Execute
<1>3. ASSUME NEW c \in Callers, Operation(c) \/ Return(c)
      PROVE  orders' = orders
  BY <1>3 DEF Operation, Create, Get, GetByReference, Cancel, Modify, Delete, Begin, Return
<1>4. CASE UNCHANGED vars
  BY <1>1, <1>4 DEF vars
<1>5. QED
  BY <1>1, <1>2, <1>3, <1>4 DEF Next

LEMMA TermsInvariant == Spec => []OnTerms
<1>1. Init => OnTerms
  BY DEF Init, OnTerms
<1>2. OrdersInv /\ OnTerms /\ [Next]_vars => OnTerms'
  BY TermsStep DEF OrdersInv
<1>3. QED
  BY <1>1, <1>2, OrdersInvariant, PTL DEF Spec

\* A term of a booking changes only when the server carries out a modification
\* of that booking that sets it: what Modify was not told to change stays as
\* booked, whatever else is done to the booking, by whomever.
THEOREM NoChangeUndone == Spec => LeftAsBooked
<1>1. OrdersInv /\ OnTerms /\ [Next]_vars => [ChangedAsWanted]_vars
  BY TermsStep DEF OrdersInv
<1>2. QED
  BY <1>1, OrdersInvariant, TermsInvariant, PTL DEF Spec, LeftAsBooked, ChangedAsWanted
-----------------------------------------------------------------------------
(* What an operation makes of its answer. *)

Ops == {"create", "get", "byReference", "cancel", "modify", "delete"}

IsCancelled(order, b) == b \in DOMAIN order.bookings /\ order.bookings[b].state = "CANCELLED"

HasTaken(order, b, m) == b \in DOMAIN order.bookings /\ Took(m, order.bookings[b].terms)

\* The booking c addresses is in a state that the server never changes again.
Rests(c, state) ==
    /\ ask[c].order \in DOMAIN orders
    /\ ask[c].booking \in DOMAIN orders[ask[c].order].bookings
    /\ orders[ask[c].order].bookings[ask[c].booking].state = state

Final == {"CANCELLED", "DELETED"}

\* The order of a Create exists.
Made(c) == \E i \in DOMAIN orders : orders[i].by = ask[c].number

Asked(c) ==
    /\ status[c] = "pending" => ask[c].op \in Ops
    /\ ask[c].op = "modify" => ask[c].change \in Modifications

\* What was asked is done, for the operations where that stays so.
Done(c) ==
    /\ ask[c].op = "create" => Made(c)
    /\ ask[c].op = "cancel" => Rests(c, "CANCELLED")
    /\ ask[c].op = "delete" => Rests(c, "DELETED")

\* An order is about what c asked.
Answers(c, o) ==
    /\ ask[c].op = "create" => o.by = ask[c].number
    /\ ask[c].op \in {"get", "byReference"} => o.id = ask[c].order
    /\ ask[c].op = "cancel" => IsCancelled(o, ask[c].booking)
    /\ ask[c].op = "modify" => HasTaken(o, ask[c].booking, ask[c].change)

\* A member of an answer holds nothing, a blank order, or the right one.
Holds(c, member) == member = {} \/ \E o : member = {o} /\ (IsBlank(o) \/ Answers(c, o))

\* The server's answer is about what c asked.
AnswersAsk(c) ==
    reply[c].ok =>
        /\ Done(c)
        /\ ask[c].op \in {"create", "get", "byReference", "cancel"} => Holds(c, reply[c].data)
        /\ ask[c].op = "modify" => Holds(c, reply[c].included)

ToldAsAsked(c) ==
    /\ told[c].number # "NONE"
    /\ told[c].kind = "order" =>
          /\ ask[c].op \in Ops \ {"delete"} /\ Done(c)
          /\ \/ IsBlank(told[c].order) /\ ask[c].op # "byReference"
             \/ Answers(c, told[c].order)
    /\ told[c].kind = "deleted" => Rests(c, "DELETED")

AnswersInv == \A c \in Callers : Asked(c) /\ AnswersAsk(c) /\ ToldAsAsked(c)

LEMMA RefusalIsNoResult ==
    ASSUME NEW kind \in {"nothing", "invalid", "error", "notFound"}
    PROVE  Refusal(kind).number # "NONE" /\ Refusal(kind).kind \notin {"order", "deleted"}
  BY DEF Refusal, Told

LEMMA BeginAnswers ==
    ASSUME Shapes, AnswersInv, NEW c \in Callers, NEW operation, NEW refused \in BOOLEAN,
           operation.op \in Ops, operation.op = "modify" => operation.change \in Modifications,
           Begin(c, operation, refused)
    PROVE  AnswersInv'
<1>1. /\ ask' = [ask EXCEPT ![c] = operation]
      /\ reply' = [reply EXCEPT ![c] = NoReply]
      /\ told' = [told EXCEPT ![c] = Refusal(IF refused THEN "invalid" ELSE "nothing")]
      /\ orders' = orders
  BY DEF Begin
<1>2. status' = status \/ status' = [status EXCEPT ![c] = "pending"]
  BY DEF Begin, callVars, Call!Begin
<1>3. ASSUME NEW d \in Callers, d # c
      PROVE  Asked(d)' /\ AnswersAsk(d)' /\ ToldAsAsked(d)'
  <2>1. ask'[d] = ask[d] /\ reply'[d] = reply[d] /\ told'[d] = told[d] /\ status'[d] = status[d]
    BY <1>1, <1>2, <1>3 DEF Shapes
  <2>2. Asked(d) /\ AnswersAsk(d) /\ ToldAsAsked(d)
    BY DEF AnswersInv
  <2>3. /\ Asked(d)' /\ Done(d)' = Done(d)
        /\ Rests(d, "DELETED")' = Rests(d, "DELETED")
        /\ \A o : Answers(d, o)' = Answers(d, o)
    BY <1>1, <2>1, <2>2 DEF Asked, Done, Made, Rests, Answers
  <2>4. AnswersAsk(d)'
    BY <2>1, <2>2, <2>3 DEF AnswersAsk, Holds
  <2>5. ToldAsAsked(d)'
    BY <2>1, <2>2, <2>3 DEF ToldAsAsked
  <2>6. QED
    BY <2>3, <2>4, <2>5
<1>4. Asked(c)' /\ AnswersAsk(c)' /\ ToldAsAsked(c)'
  <2>1. ask'[c] = operation /\ ~reply'[c].ok
    BY <1>1 DEF Shapes, NoReply
  <2>2. told'[c].number # "NONE" /\ told'[c].kind \notin {"order", "deleted"}
    BY <1>1, RefusalIsNoResult DEF Shapes
  <2>3. QED
    BY <2>1, <2>2 DEF Asked, AnswersAsk, ToldAsAsked
<1>5. QED
  BY <1>3, <1>4 DEF AnswersInv

LEMMA OperationAnswers ==
    ASSUME Shapes, AnswersInv, NEW c \in Callers, Operation(c)
    PROVE  AnswersInv'
<1> DEFINE Begins(operation, refused) ==
              /\ operation.op \in Ops /\ (operation.op = "modify" => operation.change \in Modifications)
              /\ refused \in BOOLEAN /\ Begin(c, operation, refused)
<1>1. ASSUME NEW operation, NEW refused, Begins(operation, refused) PROVE AnswersInv'
  BY <1>1, BeginAnswers
<1>2. ASSUME NEW r \in Drafts, Create(c, r) PROVE AnswersInv'
  <2> DEFINE o == [op |-> "create", number |-> operations + 1,
                   body |-> IF Accepts(r) THEN {toRequest(r)} ELSE {}]
  <2>1. Begins(o, ~Accepts(r))
    BY <1>2 DEF Create, Accepts, Ops
  <2> HIDE DEF o, Begins
  <2>2. QED
    BY <1>1, <2>1
<1>3. ASSUME NEW id, Get(c, id) PROVE AnswersInv'
  <2> DEFINE o == [op |-> "get", number |-> operations + 1, order |-> id]
  <2>1. Begins(o, id = 0)
    BY <1>3 DEF Get, Ops
  <2> HIDE DEF o, Begins
  <2>2. QED
    BY <1>1, <2>1
<1>4. ASSUME NEW reference, GetByReference(c, reference) PROVE AnswersInv'
  <2> DEFINE o == [op |-> "byReference", number |-> operations + 1, order |-> reference]
  <2>1. Begins(o, reference = 0)
    BY <1>4 DEF GetByReference, Ops
  <2> HIDE DEF o, Begins
  <2>2. QED
    BY <1>1, <2>1
<1>5. ASSUME NEW id, NEW booking, Cancel(c, id, booking) PROVE AnswersInv'
  <2> DEFINE o == [op |-> "cancel", number |-> operations + 1, order |-> id, booking |-> booking]
  <2>1. Begins(o, ~validateIDs(id, booking))
    BY <1>5 DEF Cancel, validateIDs, Ops
  <2> HIDE DEF o, Begins
  <2>2. QED
    BY <1>1, <2>1
<1>6. ASSUME NEW id, NEW booking, Delete(c, id, booking) PROVE AnswersInv'
  <2> DEFINE o == [op |-> "delete", number |-> operations + 1, order |-> id, booking |-> booking]
  <2>1. Begins(o, ~validateIDs(id, booking))
    BY <1>6 DEF Delete, validateIDs, Ops
  <2> HIDE DEF o, Begins
  <2>2. QED
    BY <1>1, <2>1
<1>7. ASSUME NEW id, NEW booking, NEW m \in Modifications, Modify(c, id, booking, m) PROVE AnswersInv'
  <2> DEFINE o == [op |-> "modify", number |-> operations + 1, order |-> id, booking |-> booking,
                   change |-> m]
  <2>1. Begins(o, ~validateIDs(id, booking) \/ validateModification(m) # {})
    BY <1>7 DEF Modify, validateIDs, Ops
  <2> HIDE DEF o, Begins
  <2>2. QED
    BY <1>1, <2>1
<1>8. QED
  BY <1>2, <1>3, <1>4, <1>5, <1>6, <1>7 DEF Operation

\* No step of the server touches a cancelled or deleted booking.
LEMMA FinalStays ==
    ASSUME Shapes, NEW c \in Callers,
           \/ UNCHANGED orders
           \/ \E order : orders' = Append(orders, order)
           \/ Changeable(c) /\ \E new : orders' = Put(c, new),
           NEW d \in Callers, ask' = ask, NEW state \in Final, Rests(d, state)
    PROVE  Rests(d, state)'
<1> DEFINE i == ask[d].order  b == ask[d].booking
<1>1. i \in DOMAIN orders /\ b \in DOMAIN orders[i].bookings /\ orders[i].bookings[b].state = state
  BY DEF Rests
<1>2. CASE UNCHANGED orders
  BY <1>2 DEF Rests
<1>3. ASSUME NEW order, orders' = Append(orders, order)
      PROVE  Rests(d, state)'
  <2>1. i \in DOMAIN orders' /\ orders'[i] = orders[i]
    <3>1. orders \in Seq(Range(orders))
      BY DEF Shapes
    <3>2. QED
      BY <1>1, <1>3, <3>1, Appended
  <2>2. QED
    BY <1>1, <2>1 DEF Rests
<1>4. ASSUME Changeable(c), NEW new, orders' = Put(c, new)
      PROVE  Rests(d, state)'
  <2>1. ~(i = ask[c].order /\ b = ask[c].booking)
    BY <1>1, <1>4 DEF Changeable, Final
  <2>2. /\ i \in DOMAIN orders' /\ b \in DOMAIN orders'[i].bookings
        /\ orders'[i].bookings[b] = orders[i].bookings[b]
    BY <1>1, <1>4, <2>1, PutWritesOne
  <2>3. QED
    BY <1>1, <2>2 DEF Rests
<1>5. QED
  BY <1>2, <1>3, <1>4

\* Nor does any step lose an order.
LEMMA MadeStays ==
    ASSUME Shapes, NEW c \in Callers,
           \/ UNCHANGED orders
           \/ \E order : orders' = Append(orders, order)
           \/ \E new : orders' = Put(c, new),
           NEW d \in Callers, ask' = ask, Made(d)
    PROVE  Made(d)'
<1>1. PICK i \in DOMAIN orders : orders[i].by = ask[d].number
  BY DEF Made
<1>2. i \in DOMAIN orders' /\ orders'[i].by = orders[i].by
  <2>1. CASE UNCHANGED orders
    BY <2>1
  <2>2. ASSUME NEW order, orders' = Append(orders, order)
        PROVE  i \in DOMAIN orders' /\ orders'[i] = orders[i]
    <3>1. orders \in Seq(Range(orders))
      BY DEF Shapes
    <3>2. QED
      BY <2>2, <3>1, Appended
  <2>3. ASSUME NEW new, orders' = Put(c, new)
        PROVE  i \in DOMAIN orders' /\ orders'[i].by = orders[i].by
    BY <2>3, PutKeeps
  <2>4. QED
    BY <2>1, <2>2, <2>3
<1>3. QED
  BY <1>1, <1>2 DEF Made

\* A body that is sent carries what is wanted, but for an empty request, and a
\* booking that is patched with it has taken it.
LEMMA PatchTakes ==
    ASSUME NEW m \in Modifications, NEW terms, DOMAIN terms = Fields
    PROVE  Took(m, Patch(terms, toUpdateRequest(m)))
<1> DEFINE body == toUpdateRequest(m)
           want == Wanted(m)
           new  == Patch(terms, body)
           Sends(f) == /\ \A v \in body[f] : v \in want[f]
                       /\ \A v \in want[f] : v \in body[f] \/ (f = "request" /\ v = "")
                       /\ \A v, w \in want[f] : v = w
<1>1. DOMAIN new = Fields /\ \A f \in Fields : body[f] # {} => new[f] = CHOOSE v \in body[f] : TRUE
  BY DEF Patch
<1>2. /\ IsPointer(m.specialRequest) /\ IsPointer(m.stay) /\ IsPointer(m.guests) /\ IsPointer(m.card)
  BY ModificationsAssumption
<1>3. Sends("request")
  <2>1. body["request"] = m.specialRequest \ {""} /\ want["request"] = m.specialRequest
    BY DEF toUpdateRequest, Wanted
  <2>2. QED
    BY <1>2, <2>1 DEF IsPointer
<1>4. Sends("references")
  <2>1. body["references"] = want["references"]
    BY DEF toUpdateRequest, Wanted
  <2>2. \A v, w \in want["references"] : v = w
    BY DEF Wanted
  <2>3. QED
    BY <2>1, <2>2
<1>5. Sends("offer")
  <2>1. body["offer"] = {m.offerID} \ {""} /\ want["offer"] = {m.offerID} \ {""}
    BY DEF toUpdateRequest, Wanted
  <2>2. QED
    BY <2>1
<1>6. Sends("checkIn")
  <2>1. /\ body["checkIn"] = {stay.checkIn : stay \in m.stay} \ {0}
        /\ want["checkIn"] = {stay.checkIn : stay \in m.stay} \ {0}
    BY DEF toUpdateRequest, Wanted
  <2>2. QED
    BY <1>2, <2>1 DEF IsPointer
<1>7. Sends("checkOut")
  <2>1. /\ body["checkOut"] = {stay.checkOut : stay \in m.stay} \ {0}
        /\ want["checkOut"] = {stay.checkOut : stay \in m.stay} \ {0}
    BY DEF toUpdateRequest, Wanted
  <2>2. QED
    BY <1>2, <2>1 DEF IsPointer
<1>8. Sends("guests")
  <2>1. body["guests"] = m.guests /\ want["guests"] = m.guests
    BY DEF toUpdateRequest, Wanted
  <2>2. QED
    BY <1>2, <2>1 DEF IsPointer
<1>9. Sends("rateCode")
  <2>1. body["rateCode"] = {m.rateCode} \ {""} /\ want["rateCode"] = {m.rateCode} \ {""}
    BY DEF toUpdateRequest, Wanted
  <2>2. QED
    BY <2>1
<1>10. Sends("card")
  <2>1. body["card"] = m.card /\ want["card"] = m.card
    BY DEF toUpdateRequest, Wanted
  <2>2. QED
    BY <1>2, <2>1 DEF IsPointer
<1> HIDE DEF body, want
<1>11. \A f \in Fields : Sends(f)
  BY <1>3, <1>4, <1>5, <1>6, <1>7, <1>8, <1>9, <1>10 DEF Fields
<1>12. ASSUME NEW f \in Fields, NEW v \in want[f], ~(f = "request" /\ v = "")
       PROVE  v = new[f]
  <2>1. v \in body[f] /\ \A w \in body[f] : w = v
    BY <1>11, <1>12
  <2>2. (CHOOSE w \in body[f] : TRUE) = v
    BY <2>1
  <2>3. QED
    BY <1>1, <2>1, <2>2
<1> HIDE DEF new
<1>13. \A f \in Fields : want[f] \subseteq {new[f]} \cup IF f = "request" THEN {""} ELSE {}
  BY <1>12
<1>14. ASSUME NEW ref \in WantedMemberships(m), ref.guest \in Range(m.guestIDs)
       PROVE  ref \in Range(new.references)
  <2>1. PICK k \in DOMAIN m.guestIDs : m.guestIDs[k] = ref.guest
    BY <1>14 DEF Range
  <2>2. ref.guest \in DOMAIN m.loyaltyIDs /\ ref = [guest |-> ref.guest, loyalty |-> m.loyaltyIDs[ref.guest]]
    BY DEF WantedMemberships
  <2> DEFINE refs == GuestReferences(m.guestIDs, m.loyaltyIDs)
  <2>3. k \in DOMAIN refs /\ refs[k] = ref
    BY <2>1, <2>2 DEF GuestReferences, LoyaltyOf
  <2>4. m.guestIDs # <<>>
    BY <2>1
  <2>5. want["references"] = {refs}
    BY <2>4 DEF want, Wanted
  <2> HIDE DEF refs
  <2>6. new["references"] = refs
    BY <1>12, <2>5 DEF Fields
  <2>7. QED
    BY <2>3, <2>6 DEF Range
<1>15. QED
  BY <1>1, <1>13, <1>14 DEF Took, new, want, body

\* The booking a PATCH addresses has taken the change.
LEMMA PatchAnswers ==
    ASSUME Shapes, OnTerms, NEW c \in Callers, ask[c].op = "modify" => ask[c].change \in Modifications,
           PatchBooking(c)
    PROVE  HasTaken(orders'[ask[c].order], ask[c].booking, ask[c].change)
<1> DEFINE old == orders[ask[c].order].bookings[ask[c].booking]
           new == [old EXCEPT !.terms = Patch(@, toUpdateRequest(ask[c].change))]
<1>1. /\ ask[c].order \in DOMAIN orders /\ ask[c].booking \in DOMAIN orders[ask[c].order].bookings
      /\ ask[c].change \in Modifications
  BY DEF PatchBooking, Changeable, Exists
<1>2. orders' = Put(c, new)
  BY DEF PatchBooking
<1>3. DOMAIN old = {"state", "provider", "terms"} /\ DOMAIN old.terms = Fields
  BY <1>1 DEF OnTerms
<1>4. new.terms = Patch(old.terms, toUpdateRequest(ask[c].change))
  BY <1>3
<1>5. Took(ask[c].change, new.terms)
  BY <1>1, <1>3, <1>4, PatchTakes
<1> HIDE DEF new
<1>6. /\ ask[c].booking \in DOMAIN orders'[ask[c].order].bookings
      /\ orders'[ask[c].order].bookings[ask[c].booking] = new
  BY <1>1, <1>2, PutWritesOne
<1>7. QED
  BY <1>5, <1>6 DEF HasTaken

\* The booking a cancellation addresses is cancelled, that of a deletion gone.
LEMMA CancelAnswers ==
    ASSUME Shapes, OnTerms, NEW c \in Callers, CancelBooking(c), ask' = ask
    PROVE  /\ ask[c].op = "cancel" => IsCancelled(orders'[ask[c].order], ask[c].booking)
           /\ ask[c].op = "cancel" => Rests(c, "CANCELLED")'
           /\ ask[c].op = "delete" => Rests(c, "DELETED")'
<1> DEFINE old == orders[ask[c].order].bookings[ask[c].booking]
<1>1. /\ ask[c].order \in DOMAIN orders /\ ask[c].booking \in DOMAIN orders[ask[c].order].bookings
  BY DEF CancelBooking, Changeable, Exists
<1>2. PICK number \in {"X", "NONE"} :
         orders' = Put(c, [old EXCEPT !.provider.cancellation = number,
                           !.state = IF ask[c].op = "cancel" THEN "CANCELLED" ELSE "DELETED"])
  BY DEF CancelBooking
<1> DEFINE new == [old EXCEPT !.provider.cancellation = number,
                   !.state = IF ask[c].op = "cancel" THEN "CANCELLED" ELSE "DELETED"]
<1>3. DOMAIN old = {"state", "provider", "terms"}
  BY <1>1 DEF OnTerms
<1>4. new.state = IF ask[c].op = "cancel" THEN "CANCELLED" ELSE "DELETED"
  BY <1>3
<1>5. orders' = Put(c, new)
  BY <1>2
<1> HIDE DEF new
<1>6. /\ ask[c].order \in DOMAIN orders'
      /\ ask[c].booking \in DOMAIN orders'[ask[c].order].bookings
      /\ orders'[ask[c].order].bookings[ask[c].booking] = new
  BY <1>1, <1>5, PutWritesOne
<1>7. ask[c].op \in {"cancel", "delete"}
  BY DEF CancelBooking
<1>8. QED
  BY <1>4, <1>6, <1>7 DEF IsCancelled, Rests

LEMMA ExecuteAnswers ==
    ASSUME OrdersInv, OnTerms, AnswersInv, NEW c \in Callers, Execute(c)
    PROVE  AnswersInv'
<1> USE DEF OrdersInv
<1>1. /\ status[c] = "pending" /\ executed[c] = 0 /\ status' = status
      /\ ask' = ask /\ told' = told
  BY DEF Execute, Call!Execute
<1>2. \/ UNCHANGED orders
      \/ \E order : orders' = Append(orders, order)
      \/ Changeable(c) /\ \E new : orders' = Put(c, new)
  BY DEF Execute, MakeOrder, ReadOrder, UnknownReference, CancelBooking, PatchBooking, Refuse
<1>3. ASSUME NEW d \in Callers
      PROVE  /\ \A state \in Final : Rests(d, state) => Rests(d, state)'
             /\ Made(d) => Made(d)'
             /\ Done(d) => Done(d)'
             /\ \A o : Answers(d, o)' = Answers(d, o)
  <2>1. /\ \A state \in Final : Rests(d, state) => Rests(d, state)'
        /\ Made(d) => Made(d)'
    BY <1>1, <1>2, FinalStays, MadeStays
  <2>2. Done(d) => Done(d)'
    BY <1>1, <2>1 DEF Done, Final
  <2>3. \A o : Answers(d, o)' = Answers(d, o)
    BY <1>1 DEF Answers
  <2>4. QED
    BY <2>1, <2>2, <2>3
<1>4. ASSUME NEW d \in Callers
      PROVE  Asked(d)' /\ ToldAsAsked(d)'
  BY <1>1, <1>3 DEF AnswersInv, Asked, ToldAsAsked, Final
<1>5. ASSUME NEW d \in Callers, reply'[d] = reply[d]
      PROVE  AnswersAsk(d)'
  BY <1>1, <1>3, <1>5 DEF AnswersInv, AnswersAsk, Holds
<1>6. \A d \in Callers : d # c => reply'[d] = reply[d]
  BY DEF Execute, MakeOrder, ReadOrder, UnknownReference, CancelBooking, PatchBooking, Refuse,
     ReplyData, Reply, Shapes
<1>7. DOMAIN reply = Callers
  BY DEF Shapes
<1>8. ASSUME NEW data, NEW included, Reply(c, data, included)
      PROVE  reply'[c].data = data /\ reply'[c].included = included
  BY <1>7, <1>8 DEF Reply
<1>9. ASSUME NEW o, ReplyData(c, o), IsBlank(o) \/ Answers(c, o)
      PROVE  Holds(c, reply'[c].data)
  <2>1. reply'[c].data = {} \/ reply'[c].data = {o}
    BY <1>8, <1>9 DEF ReplyData
  <2>2. QED
    BY <1>9, <2>1 DEF Holds
<1>10. IsBlank(ZeroOrder)
  BY DEF IsBlank, ZeroOrder
<1>11. ASSUME NEW member, Holds(c, member)
       PROVE  Holds(c, member)'
  BY <1>3, <1>11 DEF Holds
<1>12. AnswersAsk(c)'
  <2>1. CASE MakeOrder(c)
    <3>1. PICK body \in ask[c].body, state \in {"CONFIRMED", "PENDING"} :
             LET o == [id |-> Len(orders) + 1, by |-> ask[c].number,
                       bookings |-> <<NewBooking(body, state)>>]
             IN  orders' = Append(orders, o) /\ ReplyData(c, o)
      BY <2>1 DEF MakeOrder
    <3> DEFINE o == [id |-> Len(orders) + 1, by |-> ask[c].number,
                     bookings |-> <<NewBooking(body, state)>>]
    <3>2. o.by = ask[c].number
      OBVIOUS
    <3>3. orders' = Append(orders, o) /\ ReplyData(c, o)
      BY <3>1
    <3> HIDE DEF o
    <3>4. ask[c].op = "create"
      BY <2>1 DEF MakeOrder
    <3>5. Holds(c, reply'[c].data)
      BY <1>9, <3>2, <3>3, <3>4 DEF Answers
    <3>6. Made(c)'
      <4>1. orders \in Seq(Range(orders))
        BY DEF Shapes
      <4>2. Len(orders) + 1 \in DOMAIN orders' /\ orders'[Len(orders) + 1] = o
        BY <3>3, <4>1, Appended
      <4>3. QED
        BY <1>1, <3>2, <4>2 DEF Made
    <3>7. QED
      BY <1>1, <1>11, <3>4, <3>5, <3>6 DEF AnswersAsk, Done
  <2>2. CASE ReadOrder(c)
    <3>1. ask[c].op \in {"get", "byReference"} /\ ask[c].order \in DOMAIN orders
          /\ ReplyData(c, orders[ask[c].order])
      BY <2>2 DEF ReadOrder, Exists
    <3>2. orders[ask[c].order].id = ask[c].order
      BY <3>1 DEF Filed
    <3>3. Holds(c, reply'[c].data)
      BY <1>9, <3>1, <3>2 DEF Answers
    <3>4. QED
      BY <1>1, <1>11, <3>1, <3>3 DEF AnswersAsk, Done
  <2>3. CASE UnknownReference(c)
    <3>1. ask[c].op = "byReference" /\ (reply'[c].data = {} \/ reply'[c].data = {ZeroOrder})
      BY <1>8, <2>3 DEF UnknownReference
    <3>2. Holds(c, reply'[c].data)
      BY <1>10, <3>1 DEF Holds
    <3>3. QED
      BY <1>1, <1>11, <3>1, <3>2 DEF AnswersAsk, Done
  <2>4. CASE CancelBooking(c)
    <3>1. /\ ask[c].op = "cancel" => IsCancelled(orders'[ask[c].order], ask[c].booking)
          /\ ask[c].op = "cancel" => Rests(c, "CANCELLED")'
          /\ ask[c].op = "delete" => Rests(c, "DELETED")'
      BY <1>1, <2>4, CancelAnswers
    <3> DEFINE answer == orders'[ask[c].order]
    <3>2. /\ ask[c].op \in {"cancel", "delete"}
          /\ ask[c].op = "cancel" => ReplyData(c, answer)
      BY <2>4 DEF CancelBooking
    <3>3. ask[c].op = "cancel" => Answers(c, answer)
      BY <3>1 DEF Answers
    <3> HIDE DEF answer
    <3>4. ask[c].op = "cancel" => Holds(c, reply'[c].data)
      BY <1>9, <3>2, <3>3
    <3>5. QED
      BY <1>1, <1>11, <3>1, <3>2, <3>4 DEF AnswersAsk, Done
  <2>5. CASE PatchBooking(c)
    <3>1. HasTaken(orders'[ask[c].order], ask[c].booking, ask[c].change)
      BY <2>5, PatchAnswers DEF AnswersInv, Asked
    <3> DEFINE answer    == orders'[ask[c].order]
               reference == [ZeroOrder EXCEPT !.id = ask[c].order]
    <3>2. /\ ask[c].op = "modify"
          /\ \E included \in {{}, {ZeroOrder}, {answer}} : Reply(c, {reference}, included)
      BY <2>5 DEF PatchBooking
    <3>3. Answers(c, answer)
      BY <3>1, <3>2 DEF Answers
    <3> HIDE DEF answer, reference
    <3>4. \E included \in {{}, {ZeroOrder}, {answer}} : reply'[c].included = included
      BY <1>8, <3>2
    <3>5. Holds(c, reply'[c].included)
      BY <1>10, <3>3, <3>4 DEF Holds
    <3>6. QED
      BY <1>1, <1>11, <3>2, <3>5 DEF AnswersAsk, Done
  <2>6. CASE Refuse
    BY <1>5, <2>6 DEF Refuse
  <2>7. QED
    BY <2>1, <2>2, <2>3, <2>4, <2>5, <2>6 DEF Execute
<1>13. QED
  BY <1>4, <1>5, <1>6, <1>12 DEF AnswersInv

LEMMA ReturnAnswers ==
    ASSUME OrdersInv, AnswersInv, NEW c \in Callers, Return(c)
    PROVE  AnswersInv'
<1> USE DEF OrdersInv
<1>1. /\ status[c] = "pending" /\ status' = [status EXCEPT ![c] = "done"]
      /\ UNCHANGED <<ask, orders>>
      /\ told' = [told EXCEPT ![c] = IF outcome'[c] = "ok" THEN Result(ask[c].op, reply[c])
                                     ELSE Refusal("error")]
      /\ outcome'[c] = "ok" => reply[c].ok
      /\ reply' = [reply EXCEPT ![c] = NoReply]
      /\ DOMAIN status = Callers /\ DOMAIN told = Callers /\ DOMAIN reply = Callers
  BY DEF Return, Call!Finish, Shapes
<1>2. ASSUME NEW d \in Callers
      PROVE  /\ Asked(d)' /\ AnswersAsk(d)'
             /\ Rests(d, "DELETED")' = Rests(d, "DELETED")
             /\ Done(d)' = Done(d) /\ \A o : Answers(d, o)' = Answers(d, o)
  <2>1. /\ Asked(d)' /\ Rests(d, "DELETED")' = Rests(d, "DELETED")
        /\ Done(d)' = Done(d) /\ \A o : Answers(d, o)' = Answers(d, o)
    BY <1>1 DEF AnswersInv, Asked, Done, Made, Rests, Answers
  <2>2. CASE d = c
    BY <1>1, <2>1, <2>2 DEF AnswersAsk, NoReply
  <2>3. CASE d # c
    BY <1>1, <2>1, <2>3 DEF AnswersInv, AnswersAsk, Holds
  <2>4. QED
    BY <2>1, <2>2, <2>3
<1>3. ASSUME NEW d \in Callers, d # c
      PROVE  ToldAsAsked(d)'
  <2>1. told'[d] = told[d] /\ ask' = ask
    BY <1>1, <1>3
  <2>2. QED
    BY <1>2, <2>1 DEF AnswersInv, ToldAsAsked
<1>4. ToldAsAsked(c)'
  <2>1. CASE outcome'[c] # "ok"
    <3>1. told'[c] = Refusal("error")
      BY <1>1, <2>1
    <3>2. told'[c].number # "NONE" /\ told'[c].kind \notin {"order", "deleted"}
      BY <3>1, RefusalIsNoResult
    <3>3. QED
      BY <3>2 DEF ToldAsAsked
  <2>2. CASE outcome'[c] = "ok"
    <3> DEFINE op == ask[c].op  answer == reply[c]  result == told'[c]
    <3>1. result = Result(op, answer) /\ op \in Ops /\ answer.ok
      BY <1>1, <2>2 DEF AnswersInv, Asked
    <3>2. AnswersAsk(c)
      BY DEF AnswersInv
    <3> DEFINE Fits(order) == (IsBlank(order) /\ op # "byReference") \/ Answers(c, order)
               Right ==
                  /\ result.number # "NONE"
                  /\ result.kind = "order" => op # "delete" /\ Fits(result.order)
                  /\ result.kind = "deleted" => op = "delete"
    <3>4. SUFFICES Right
      BY <1>1, <1>2, <3>1, <3>2 DEF ToldAsAsked, AnswersAsk, Done, Ops
    <3> HIDE DEF op, answer, result
    <3>3. ASSUME NEW member, Holds(c, member), op \in {"create", "get", "cancel", "modify"},
                 result = Told("order", mapOrder(Decoded(member)), "")
          PROVE  Right
      <4>1. PICK o : Decoded(member) = o /\ (IsBlank(o) \/ Answers(c, o))
        <5>1. CASE member = {}
          <6>1. Decoded(member) = ZeroOrder /\ IsBlank(ZeroOrder)
            BY <5>1 DEF Decoded, IsBlank, ZeroOrder
          <6>2. QED
            BY <6>1
        <5>2. ASSUME NEW x, member = {x}, IsBlank(x) \/ Answers(c, x)
              PROVE  Decoded(member) = x
          BY <5>2 DEF Decoded
        <5>3. QED
          BY <3>3, <5>1, <5>2 DEF Holds
      <4>2. result.kind = "order" /\ result.number = "" /\ result.order = mapOrder(o)
        BY <3>3, <4>1 DEF Told
      <4>3. op \notin {"byReference", "delete"} /\ result.number # "NONE" /\ result.kind # "deleted"
        BY <3>3, <4>2
      <4>4. Fits(result.order)
        <5>1. CASE IsBlank(o)
          <6>1. IsBlank(mapOrder(o))
            BY <5>1 DEF IsBlank, mapOrder
          <6>2. QED
            BY <4>2, <4>3, <6>1
        <5>2. CASE Answers(c, o)
          <6>1. Answers(c, mapOrder(o))
            BY <5>2 DEF Answers, mapOrder, IsCancelled, HasTaken
          <6>2. QED
            BY <4>2, <6>1
        <5>3. QED
          BY <4>1, <5>1, <5>2
      <4> HIDE DEF Fits
      <4>5. QED
        BY <4>3, <4>4
    <3>5. CASE op \in {"create", "get", "cancel"}
      <4>1. result = Told("order", mapOrder(Decoded(answer.data)), "")
        BY <3>1, <3>5 DEF Result
      <4>2. Holds(c, answer.data)
        BY <3>1, <3>2, <3>5 DEF AnswersAsk, op, answer
      <4>3. QED
        BY <3>3, <3>5, <4>1, <4>2
    <3>6. CASE op = "byReference"
      <4>1. result = FoundByReference(answer.data)
        BY <3>1, <3>6 DEF Result
      <4>2. CASE answer.data = {} \/ Decoded(answer.data).id = 0
        <5>1. result = Refusal("notFound")
          BY <4>1, <4>2 DEF FoundByReference
        <5>2. result.number # "NONE" /\ result.kind \notin {"order", "deleted"}
          BY <5>1, RefusalIsNoResult
        <5>3. QED
          BY <5>2
      <4>3. CASE ~(answer.data = {} \/ Decoded(answer.data).id = 0)
        <5>1. PICK o : answer.data = {o} /\ (IsBlank(o) \/ Answers(c, o))
          BY <3>1, <3>2, <3>6, <4>3 DEF AnswersAsk, Holds, op, answer
        <5>2. Decoded(answer.data) = o /\ o.id # 0
          BY <4>3, <5>1 DEF Decoded
        <5>3. result = Told("order", mapOrder(o), "")
          BY <4>1, <4>3, <5>2 DEF FoundByReference
        <5>4. result.kind = "order" /\ result.number = "" /\ result.order = mapOrder(o)
          BY <5>3 DEF Told
        <5>5. Answers(c, mapOrder(o))
          BY <3>6, <5>1, <5>2 DEF Answers, IsBlank, mapOrder, op
        <5>6. QED
          BY <3>6, <5>4, <5>5
      <4>4. QED
        BY <4>2, <4>3
    <3>7. CASE op = "modify"
      <4>1. result = ModifyResult(answer)
        BY <3>1, <3>7 DEF Result
      <4>2. CASE answer.included = {}
        <5>1. result = Refusal("error")
          BY <4>1, <4>2 DEF ModifyResult
        <5>2. result.number # "NONE" /\ result.kind \notin {"order", "deleted"}
          BY <5>1, RefusalIsNoResult
        <5>3. QED
          BY <5>2
      <4>3. CASE answer.included # {}
        <5>1. Holds(c, answer.included)
          BY <3>1, <3>2, <3>7 DEF AnswersAsk, op, answer
        <5>2. result = Told("order", mapOrder(Decoded(answer.included)), "")
          BY <4>1, <4>3 DEF ModifyResult
        <5>3. QED
          BY <3>3, <3>7, <5>1, <5>2
      <4>4. QED
        BY <4>2, <4>3
    <3>8. CASE op = "delete"
      <4>1. result = DeleteResult(answer)
        BY <3>1, <3>8 DEF Result
      <4>3. result.number # "NONE" /\ result.kind # "order"
        <5>1. CASE answer.included = {}
          <6>1. result = Refusal("error")
            BY <4>1, <5>1 DEF DeleteResult
          <6>2. QED
            BY <6>1, RefusalIsNoResult
        <5>2. CASE answer.included # {}
          <6> DEFINE number == CHOOSE n \in answer.included : TRUE
          <6>1. result = Told("deleted", ZeroOrder, IF number = "NONE" THEN "" ELSE number)
            BY <4>1, <5>2 DEF DeleteResult
          <6> HIDE DEF number
          <6>2. QED
            BY <6>1 DEF Told
        <5>3. QED
          BY <5>1, <5>2
      <4>4. QED
        BY <3>8, <4>3
    <3>9. QED
      BY <3>1, <3>5, <3>6, <3>7, <3>8 DEF Ops
  <2>3. QED
    BY <2>1, <2>2
<1>5. QED
  BY <1>2, <1>3, <1>4 DEF AnswersInv

LEMMA AnswersInvariant == Spec => []AnswersInv
<1>1. Init => AnswersInv
  <2> SUFFICES ASSUME Init, NEW c \in Callers
               PROVE  Asked(c) /\ AnswersAsk(c) /\ ToldAsAsked(c)
    BY DEF AnswersInv
  <2>1. /\ status[c] = "idle" /\ ask[c].op = "none" /\ ~reply[c].ok /\ told[c] = Refusal("nothing")
    BY DEF Init, Call!Init, NoAsk, NoReply
  <2>2. told[c].number # "NONE" /\ told[c].kind \notin {"order", "deleted"}
    BY <2>1, RefusalIsNoResult
  <2>3. QED
    BY <2>1, <2>2 DEF Asked, AnswersAsk, ToldAsAsked
<1>2. ASSUME OrdersInv, OnTerms, AnswersInv, [Next]_vars
      PROVE  AnswersInv'
  <2>1. ASSUME NEW c \in Callers, Operation(c) PROVE AnswersInv'
    BY <1>2, <2>1, OperationAnswers DEF OrdersInv
  <2>2. ASSUME NEW c \in Callers, Execute(c) PROVE AnswersInv'
    BY <1>2, <2>2, ExecuteAnswers
  <2>3. ASSUME NEW c \in Callers, Return(c) PROVE AnswersInv'
    BY <1>2, <2>3, ReturnAnswers
  <2>4. CASE UNCHANGED vars
    <3>1. UNCHANGED <<ask, status, reply, told, orders>>
      BY <2>4 DEF vars, callVars
    <3>2. ASSUME NEW c \in Callers PROVE Asked(c)' /\ AnswersAsk(c)' /\ ToldAsAsked(c)'
      <4>1. Asked(c) /\ AnswersAsk(c) /\ ToldAsAsked(c)
        BY <1>2 DEF AnswersInv
      <4>2. /\ Asked(c)' = Asked(c) /\ Rests(c, "DELETED")' = Rests(c, "DELETED")
            /\ Done(c)' = Done(c) /\ \A o : Answers(c, o)' = Answers(c, o)
        BY <3>1 DEF Asked, Done, Made, Rests, Answers
      <4>3. AnswersAsk(c)' = AnswersAsk(c)
        BY <3>1, <4>2 DEF AnswersAsk, Holds
      <4>4. ToldAsAsked(c)' = ToldAsAsked(c)
        BY <3>1, <4>2 DEF ToldAsAsked
      <4>5. QED
        BY <4>1, <4>2, <4>3, <4>4
    <3>3. QED
      BY <3>2 DEF AnswersInv
  <2>5. QED
    BY <1>2, <2>1, <2>2, <2>3, <2>4 DEF Next
<1>3. OrdersInv /\ OnTerms /\ AnswersInv /\ [Next]_vars => AnswersInv'
  BY <1>2
<1>4. QED
  BY <1>1, <1>3, OrdersInvariant, TermsInvariant, PTL DEF Spec

\* What the service reports as done is done - the order of this Create exists, the
\* booking is cancelled, or gone - and the order it returns is the one asked
\* about, or blank where the answer did not hold it, however many goroutines
\* change the same booking.
THEOREM ReportedIsDone == Spec => []SuccessMeansDone
<1>1. AnswersInv => SuccessMeansDone
  <2> SUFFICES ASSUME AnswersInv
               PROVE  SuccessMeansDone
    OBVIOUS
  <2>1. \A c \in Callers : ToldAsAsked(c)
    BY DEF AnswersInv
  <2>2. QED
    BY <2>1 DEF SuccessMeansDone, ToldAsAsked, Done, Made, Rests, Answers, IsCancelled, HasTaken
<1>2. QED
  BY <1>1, AnswersInvariant, PTL

\* No placeholder of Amadeus's is passed on as a hotel's number.
THEOREM PlaceholdersAreAbsent == Spec => []NoPlaceholderEscapes
<1>1. AnswersInv => NoPlaceholderEscapes
  BY DEF AnswersInv, ToldAsAsked, NoPlaceholderEscapes, ConfirmationNumber, CancellationNumber
<1>2. QED
  BY <1>1, AnswersInvariant, PTL
=============================================================================
