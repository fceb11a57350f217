--------------------------- MODULE MCReservation ----------------------------
EXTENDS Reservation

\* Guests 0, 1 and 2, and every way guest 1 can be wrong one field at a time.
Guest(id) ==
    [id |-> id, firstName |-> "ok", lastName |-> "ok", nameLength |-> 2, email |-> "ok",
     childAge |-> {}, memberships |-> 0]

OddGuests ==
         {[Guest(1) EXCEPT !.firstName = x] : x \in {"", "bad"}}
    \cup {[Guest(1) EXCEPT !.lastName = x] : x \in {"", "bad"}}
    \cup {[Guest(1) EXCEPT !.email = x] : x \in {"", "bad"}}
    \cup {[Guest(1) EXCEPT !.nameLength = x] : x \in {MaxNameLength, MaxNameLength + 1}}
    \cup {[Guest(1) EXCEPT !.childAge = {x}] : x \in {-1, 0, 17, 18}}
    \cup {[Guest(1) EXCEPT !.memberships = x] : x \in {1, 2}}

GuestLists ==
         {<<>>, <<Guest(1)>>, <<Guest(2)>>, <<Guest(0), Guest(1)>>, <<Guest(1), Guest(2)>>,
          <<Guest(2), Guest(1)>>, <<Guest(1), Guest(1)>>, <<Guest(1), Guest(2), Guest(1)>>}
    \cup {<<g, Guest(2)>> : g \in OddGuests}

Room(ids, loyal) ==
    [offer |-> "ok", guestIDs |-> ids, loyaltyIDs |-> [id \in loyal |-> "member"],
     request |-> "", requestLength |-> 0]

Rooms ==
    {Room(ids, loyal) :
        ids \in {<<>>, <<0, 1>>, <<1>>, <<2>>, <<1, 2>>, <<2, 1>>, <<1, 1>>, <<3>>},
        loyal \in SUBSET {1, 2, 3}}

OddRooms ==
    {[Room(<<1>>, {}) EXCEPT !.offer = "", !.request = "ok"]}
    \cup {[Room(<<1>>, {}) EXCEPT !.request = "ok", !.requestLength = x] :
          x \in {MaxSpecialRequest, MaxSpecialRequest + 1}}

RoomLists ==
         {<<>>} \cup {<<a>> : a \in Rooms \cup OddRooms}
    \cup {<<a, b>> : a, b \in {Room(ids, loyal) : ids \in {<<1>>, <<2>>, <<1, 2>>, <<2, 1>>},
                                                 loyal \in SUBSET {1, 2}}}
    \cup {<<Room(<<1>>, {}), Room(<<2>>, {}), Room(<<3>>, {})>>}

Card == [vendor |-> "ok", number |-> "ok", expiry |-> "ok", securityCode |-> "ok", holder |-> "ok",
         threeDS |-> {}]

Cards ==
         {{}, {Card}}
    \cup {{[Card EXCEPT !.number = x]} : x \in {"", "malformed", "mistyped"}}
    \cup {{[Card EXCEPT !.vendor = "bad"]}, {[Card EXCEPT !.expiry = "bad"]},
          {[Card EXCEPT !.securityCode = "bad"]}, {[Card EXCEPT !.securityCode = ""]},
          {[Card EXCEPT !.holder = "bad"]}}
    \cup {{[Card EXCEPT !.threeDS = {[version |-> v, cryptogram |-> c]}]} :
          v, c \in {"", "ok"}}

Payments ==
    {[method |-> m, card |-> c, billBack |-> b] :
        m \in Methods \cup {"", "CASH"}, c \in Cards,
        b \in {{}} \cup {{[provider |-> p, account |-> a]} : p, a \in {"", "ok"}}}

Flights ==
    {[carrier |-> c, flight |-> "ok", departure |-> d, airport |-> a, terminal |-> t,
      arrivingAt |-> at] :
        c, d, a, t \in {"", "ok"}, at \in {{}, {"20:40"}}}

Base ==
    [guests |-> <<Guest(1), Guest(2)>>, rooms |-> <<Room(<<1, 2>>, {1})>>,
     payment |-> [method |-> "CREDIT_CARD", card |-> {Card}, billBack |-> {}],
     agentEmail |-> "ok", arrival |-> {}, addToPNR |-> {}]

AllDrafts ==
         {[Base EXCEPT !.guests = g, !.rooms = r] : g \in GuestLists, r \in RoomLists}
    \cup {[Base EXCEPT !.payment = p] : p \in Payments}
    \cup {[Base EXCEPT !.arrival = {f}, !.addToPNR = pnr] : f \in Flights,
          pnr \in {{}} \cup {{[reference |-> x, origin |-> y]} : x, y \in {"", "ok"}}}
    \cup {[Base EXCEPT !.agentEmail = e] : e \in {"", "bad"}}
=============================================================================
