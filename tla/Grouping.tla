------------------------------ MODULE Grouping ------------------------------
(***************************************************************************)
(* The offers of one hotel, grouped by room or by category and ordered by  *)
(* price (offers/grouping.go), and the hotel's cheapest offer              *)
(* (offers/offer.go).  Both compare converted prices.                      *)
(*                                                                         *)
(* Offer IDs, room types and categories are numbers in the order of the    *)
(* strings they stand for; 0 is the empty string.                          *)
(***************************************************************************)
EXTENDS Conversion, Lists, SequencesExt

CONSTANTS
    Hotels,    \* the hotels searches return, each with its offers and rates
    Other      \* the key "OTHER"

\* Amadeus gives every offer an ID of its own, and a rate is a positive number.
IsHotel(h) ==
    /\ h.offers \in Seq(ToSet(h.offers))
    /\ \A i, j \in DOMAIN h.offers : h.offers[i].id = h.offers[j].id => i = j
    /\ \A o \in ToSet(h.offers) :
          /\ o.id \in Nat /\ o.room.type \in Nat /\ o.room.category \in Nat
          /\ o.total.amount \in AmountSet
    /\ \A from \in DOMAIN h.rates :
          LET rate == h.rates[from]
          IN  rate.rate \in AmountSet /\ rate.rate.units > 0 /\ rate.places \in Int

ASSUME HotelsAssumption == Other \in Nat /\ \A h \in Hotels : IsHotel(h)

VARIABLES
    hotel,     \* HotelOffers: offers in Amadeus's order, and Rates
    groups,    \* what GroupByRoom or GroupByCategory last returned
    keyOf,     \* the rooms' key in groups: "type", "category", or "none" yet
    best       \* what Cheapest last returned: {} or {offer}

groupingVars == <<hotel, groups, keyOf, best>>

-----------------------------------------------------------------------------
(* Prices compared. *)

\* A missing price sorts last; prices of two currencies compare equal.
comparePrices(m, n) ==
    CASE IsZero(m.amount) /\ IsZero(n.amount) -> 0
      [] IsZero(m.amount) /\ ~IsZero(n.amount) -> 1
      [] ~IsZero(m.amount) /\ IsZero(n.amount) -> -1
      [] OTHER -> IF CompareMoney(m, n) = {} THEN 0 ELSE CHOOSE c \in CompareMoney(m, n) : TRUE

\* As if prices were compared as quoted.
ComparePrices_AsQuoted(rates, m, n) == comparePrices(m, n)

\* ConversionRates.comparePrices
ComparePrices(rates, m, n) ==
    comparePrices(ConvertOrOriginal(rates, m), ConvertOrOriginal(rates, n))

-----------------------------------------------------------------------------
(* Grouping. *)

categoryKey(room) ==
    IF room.category # 0 THEN room.category ELSE IF room.type # 0 THEN room.type ELSE Other

Key(by, room) == IF by = "type" THEN room.type ELSE categoryKey(room)

\* As if equal prices were left as they came.
OfferLess_NoTieBreak(rates, o, p) == ComparePrices(rates, o.total, p.total) < 0

OfferLess(rates, o, p) ==
    LET cmp == ComparePrices(rates, o.total, p.total)
    IN  cmp < 0 \/ (cmp = 0 /\ o.id < p.id)

\* The pairs of offers the comparator holds of.
Cheaper(h) ==
    LET all == ToSet(h.offers) IN {pair \in all \X all : OfferLess(h.rates, pair[1], pair[2])}

\* cheapest is offers[1]; room and priceFrom are copied from it.
Bucket(h, by, key) ==
    LET listed == Kept(h.offers, {o \in ToSet(h.offers) : Key(by, o.room) = key})
        offers == SliceStable(listed, Cheaper(h))
    IN  [key |-> key, priceFrom |-> offers[1].total, offers |-> offers]

\* As if offers of one key always came together.
KeysSeen_Consecutive(h, by) ==
    LET order[n \in 0..Len(h.offers)] ==
            IF n = 0 THEN <<>>
            ELSE LET key == Key(by, h.offers[n].room)  seen == order[n - 1] IN
                 IF seen # <<>> /\ Last(seen) = key THEN seen ELSE Append(seen, key)
    IN  order

\* The keys in the order they were first seen, after each offer.
KeysSeen(h, by) ==
    LET order[n \in 0..Len(h.offers)] ==
            IF n = 0 THEN <<>>
            ELSE LET key == Key(by, h.offers[n].room)  seen == order[n - 1] IN
                 IF key \in ToSet(seen) THEN seen ELSE Append(seen, key)
    IN  order

GroupLess(rates, a, b) ==
    LET cmp == ComparePrices(rates, a.priceFrom, b.priceFrom)
    IN  cmp < 0 \/ (cmp = 0 /\ a.key < b.key)

groupBy(h, by) ==
    LET keys    == KeysSeen(h, by)[Len(h.offers)]
        buckets == [i \in DOMAIN keys |-> Bucket(h, by, keys[i])]
        all     == ToSet(buckets)
    IN  SliceStable(buckets, {pair \in all \X all : GroupLess(h.rates, pair[1], pair[2])})

\* As if a missing price were zero money.
Lowest_CountsMissing(h) ==
    LET found[n \in 0..Len(h.offers)] ==
            IF n = 0 THEN {}
            ELSE LET o == h.offers[n]  lowest == found[n - 1] IN
                 IF \A b \in lowest : Compare(o.total.amount, b.total.amount) < 0
                 THEN {o} ELSE lowest
    IN  found

\* The first of the lowest priced, after each offer: {} before the first price.
Lowest(h) ==
    LET found[n \in 0..Len(h.offers)] ==
            IF n = 0 THEN {}
            ELSE LET o == h.offers[n]  lowest == found[n - 1] IN
                 IF ~IsZero(o.total.amount)
                    /\ \A b \in lowest : ComparePrices(h.rates, o.total, b.total) < 0
                 THEN {o} ELSE lowest
    IN  found

\* HotelOffers.Cheapest: failing a price, the first offer.
CheapestOf(h) ==
    LET found == Lowest(h)[Len(h.offers)]
    IN  IF found = {} /\ h.offers # <<>> THEN {h.offers[1]} ELSE found

-----------------------------------------------------------------------------
(* The application's calls on a search result. *)

GroupingInit ==
    /\ hotel \in Hotels
    /\ groups = <<>>
    /\ keyOf = "none"
    /\ best = {}

GroupByRoom ==
    /\ groups' = groupBy(hotel, "type")
    /\ keyOf' = "type"
    /\ UNCHANGED <<hotel, best>>

GroupByCategory ==
    /\ groups' = groupBy(hotel, "category")
    /\ keyOf' = "category"
    /\ UNCHANGED <<hotel, best>>

Cheapest ==
    /\ best' = CheapestOf(hotel)
    /\ UNCHANGED <<hotel, groups, keyOf>>

GroupingNext == GroupByRoom \/ GroupByCategory \/ Cheapest

GroupingSpec == GroupingInit /\ [][GroupingNext]_groupingVars

-----------------------------------------------------------------------------
(* Properties. *)

Priced(h) == {o \in ToSet(h.offers) : ~IsZero(o.total.amount)}

Shown(h, o) == ConvertOrOriginal(h.rates, o.total)

\* No price is rounded to nothing when it is converted.
NoneVanishes(h) == \A o \in Priced(h) : ~IsZero(Shown(h, o).amount)

\* The prices can be brought to one scale: align cuts none of them off.
NoneSaturates(h) ==
    \A o, p \in Priced(h) :
        LET a == Shown(h, o).amount  b == Shown(h, p).amount
        IN  a.scale < b.scale => rescale(a.units, b.scale - a.scale) # {}

\* Every price of the hotel can be told from every other: once converted, they
\* are all in one currency.
Comparable(h) ==
    /\ NoneVanishes(h) /\ NoneSaturates(h)
    /\ \A o, p \in Priced(h) : Shown(h, o).currency = Shown(h, p).currency

\* "Nothing may be lost or duplicated": each offer stands once, with the
\* offers of its key and no others, and no key has two groups.
EveryOfferOnce ==
    keyOf # "none" =>
        /\ \A o \in ToSet(hotel.offers) :
              \E i \in DOMAIN groups : \E k \in DOMAIN groups[i].offers :
                  /\ groups[i].offers[k] = o
                  /\ groups[i].key = Key(keyOf, o.room)
                  /\ \A j \in DOMAIN groups : \A l \in DOMAIN groups[j].offers :
                        groups[j].offers[l].id = o.id => i = j /\ k = l
        /\ \A i, j \in DOMAIN groups : groups[i].key = groups[j].key => i = j
        /\ \A i \in DOMAIN groups : ToSet(groups[i].offers) \subseteq ToSet(hotel.offers)

\* grouping.go: "Cheapest is the lowest-priced offer, which is Offers[0]".  No
\* offer of a group has a price that compares below the group's, and a missing
\* price is the group's only if there is no other.
LowestFirst(h) ==
    \A i \in DOMAIN groups : \A o \in ToSet(groups[i].offers) :
        ~IsZero(o.total.amount) =>
            /\ ~IsZero(groups[i].priceFrom.amount)
            /\ CompareMoney(Shown(h, o), ConvertOrOriginal(h.rates, groups[i].priceFrom))
                  \cap {-1} = {}

\* The from-price is the lowest wherever the prices can all be compared: the
\* comparison falls back to the offer ID when they cannot, and that is no order.
FromPriceIsLowestOfComparable == Comparable(hotel) => LowestFirst(hotel)

\* The hotel's cheapest offer costs what the first group starts at: the two
\* loops that look for the lowest price agree on it.
CheapestAgreesWithGroups ==
    Comparable(hotel) /\ groups # <<>> =>
        \A o \in best : ComparePrices(hotel.rates, o.total, groups[1].priceFrom) = 0

\* "The result is deterministic": the order in which Amadeus lists the offers
\* does not show in the groups.
Listings(h) ==
    {[offers |-> [i \in DOMAIN h.offers |-> h.offers[place[i]]], rates |-> h.rates] :
        place \in Bijection(DOMAIN h.offers, DOMAIN h.offers)}

ListingDoesNotMatter ==
    keyOf # "none" /\ Comparable(hotel) =>
        \A h \in Listings(hotel) : groupBy(h, keyOf) = groups

\* Converting never turns two prices of one currency round, so the guest who
\* reads converted prices and the hotel that charges the others agree on which
\* is dearer.
ConversionKeepsOrder ==
    \A o, p \in ToSet(hotel.offers) :
        LET m == o.total  n == p.total IN
        m.currency = n.currency /\ Compare(m.amount, n.amount) < 0 =>
            \A c \in Convert(hotel.rates, m), d \in Convert(hotel.rates, n) :
                Compare(c.amount, d.amount) <= 0

=============================================================================
