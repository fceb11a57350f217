------------------------------ MODULE MCOrders ------------------------------
EXTENDS Orders, TLC

Guest(id) ==
    [id |-> id, firstName |-> "ok", lastName |-> "ok", nameLength |-> 2, email |-> "ok",
     childAge |-> {}, memberships |-> 0]

Card(number) ==
    [vendor |-> "ok", number |-> number, expiry |-> "ok", securityCode |-> "ok", holder |-> "ok",
     threeDS |-> {}]

\* One room for two guests, and the same with one guest in it twice.
Draft(ids) ==
    [guests |-> <<Guest(1), Guest(2)>>,
     rooms |-> <<[offer |-> "o1", guestIDs |-> ids, loyaltyIDs |-> [id \in {1} |-> "member"],
                  request |-> "late", requestLength |-> 4]>>,
     payment |-> [method |-> "CREDIT_CARD", card |-> {Card("ok")}, billBack |-> {}],
     agentEmail |-> "ok", arrival |-> {}, addToPNR |-> {}]

SomeDrafts == {Draft(<<1, 2>>), Draft(<<1, 1>>)}

NoChange ==
    [specialRequest |-> {}, guestIDs |-> <<>>, loyaltyIDs |-> [id \in {} |-> ""], offerID |-> "",
     stay |-> {}, guests |-> {}, rateCode |-> "", card |-> {}]

\* Changes of one field and of two, one that clears the request, memberships of
\* guests that are listed and of some that are not, an empty change and two
\* faulty ones.
SomeModifications ==
    {NoChange,
     [NoChange EXCEPT !.specialRequest = {"quiet"}, !.loyaltyIDs = [id \in {1} |-> "joined"]],
     [NoChange EXCEPT !.specialRequest = {""}],
     [NoChange EXCEPT !.guestIDs = <<2>>, !.loyaltyIDs = [id \in {1, 2} |-> "joined"]],
     [NoChange EXCEPT !.guestIDs = <<2, 1>>, !.offerID = "o2"],
     [NoChange EXCEPT !.stay = {[checkIn |-> 0, checkOut |-> 3]}],
     [NoChange EXCEPT !.stay = {[checkIn |-> 3, checkOut |-> 3]}],
     [NoChange EXCEPT !.card = {Card("mistyped")}]}

Symmetry == Permutations(Callers)
=============================================================================
