----------------------------- MODULE MCGrouping -----------------------------
EXTENDS Grouping

Amount(units, scale) == [units |-> units, scale |-> scale]

\* A missing price, and prices in two currencies.
Totals ==
    {Money(Zero, "EUR"), Money(Amount(145, 2), "EUR"), Money(Amount(1, 0), "EUR"),
     Money(Amount(4, 1), "EUR"), Money(Amount(3, 0), "USD"), Money(Amount(12, 1), "USD")}

Room(type, category) == [type |-> type, category |-> category]

\* Two types of one category, one without a category, one without either.
RoomLists ==
    {<<Room(1, 11), Room(1, 11), Room(1, 11)>>, <<Room(1, 11), Room(2, 11), Room(1, 11)>>,
     <<Room(2, 0), Room(0, 0), Room(1, 12)>>}

OfferLists ==
    UNION {{[i \in 1..n |-> [id |-> ids[i], room |-> rooms[i], total |-> totals[i]]] :
            ids \in SetToSeqs(1..n), rooms \in RoomLists, totals \in [1..n -> Totals]} :
           n \in 0..3}

Rate(units, scale, places) == [to |-> "MNT", rate |-> Amount(units, scale), places |-> places]

\* No rates, one that covers one currency, two that cover both, and one that
\* makes small prices vanish.
RateTables ==
    {<<>>, [c \in {"EUR"} |-> Rate(21, 1, 0)],
     [c \in {"EUR", "USD"} |-> IF c = "EUR" THEN Rate(1, 0, 0) ELSE Rate(7, 1, 1)],
     [c \in {"EUR", "USD"} |-> IF c = "EUR" THEN Rate(31, 1, 1) ELSE Rate(25, 1, 1)]}

AllHotels == {[offers |-> o, rates |-> r] : o \in OfferLists, r \in RateTables}
=============================================================================
