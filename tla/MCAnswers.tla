---- MODULE MCAnswers ----
(* Two cards, with and without 3-D Secure, and orders of no, one and two      *)
(* bookings in every status, one of them with every optional block.           *)
EXTENDS Answers

TwoCards == { [number |-> "pan1", code |-> "cvv1", threeDS |-> {"cryptogram"}],
              [number |-> "pan2", code |-> "cvv2", threeDS |-> {}] }

PlainOffer ==
    [id |-> "a", checkIn |-> "a", checkOut |-> "a", quantity |-> 1, guests |-> {},
     rateFamily |-> {}, price |-> {}, policies |-> {}, room |-> {}, information |-> {},
     commission |-> {}, services |-> <<>>]
FullOffer ==
    [PlainOffer EXCEPT
        !.guests = {[adults |-> 1, ages |-> <<1>>]}, !.price = {[currency |-> "a", total |-> "a"]},
        !.room = {[type |-> "a", description |-> {[text |-> "a", lang |-> ""]},
                   estimated |-> {[category |-> "a", beds |-> 1, bedType |-> ""]}]},
        !.information = {[id |-> "a", type |-> "", name |-> {}, description |-> {},
                          category |-> "", bedType |-> "", beds |-> 0,
                          capacity |-> {[adults |-> 1, children |-> 0, total |-> 1]}]},
        !.commission = {[amount |-> "a", percentage |-> "", description |-> {}]},
        !.services = <<[code |-> "a", chargeable |-> TRUE, quantity |-> 1, price |-> {"a"}]>>]
InformationOnly == [FullOffer EXCEPT !.room = {}]

BookingOf(status, offer) ==
    [id |-> "a", status |-> status, offer |-> offer, agent |-> "", payment |-> {}, arrival |-> {},
     providers |-> <<[code |-> "a", confirmation |-> "......", cancellation |-> "NONE",
                      onRequest |-> ""]>>,
     rooms |-> <<[offer |-> "a", guests |-> <<[guest |-> "a", loyalty |-> ""]>>,
                  request |-> "", markup |-> {}]>>,
     hotel |-> [id |-> "a", name |-> "", chain |-> "", terms |-> ""]]
PaidBooking ==
    [BookingOf("CONFIRMED", FullOffer) EXCEPT
        !.payment = {[method |-> "a", instructions |-> "", iata |-> {"a"}, supplier |-> {},
                      card |-> {[vendor |-> "a", number |-> "a", expiry |-> "a", holder |-> ""]},
                      wallet |-> {}]},
        !.arrival = {{[carrier |-> "a", number |-> "a", departure |-> {},
                       arrival |-> {[iata |-> "a", terminal |-> "", at |-> 0]}]}}]

OrderOf(bookings) ==
    [id |-> "a", bookings |-> bookings,
     guests |-> <<[id |-> 1, tid |-> 1, first |-> "a", last |-> "", childAge |-> 0]>>,
     records |-> <<[reference |-> "", origin |-> "a"], [reference |-> "a", origin |-> ""]>>]

AllOrders ==
    { OrderOf(<<BookingOf(s, InformationOnly)>>) : s \in Statuses }
    \cup { OrderOf(<<PaidBooking, BookingOf(s, PlainOffer)>>) : s \in {"CONFIRMED", "PENDING"} }
    \cup { OrderOf(<<>>) }
====
