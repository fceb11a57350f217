-------------------------------- MODULE Bill --------------------------------
(***************************************************************************)
(* A caller adds up a bill: the price of an offer, once per room, its      *)
(* taxes, refunds, a share per night.  The booking comes back with the     *)
(* same price on the wire, read by the other context's mapper.  Every      *)
(* amount has its own scale, and the sums go on for as long as the caller  *)
(* wants, up to and beyond what the machine's integers hold.               *)
(***************************************************************************)
EXTENDS Prices

CONSTANTS
    WirePrices,    \* the prices offers come with
    RateTexts,     \* the exchange rates of a dictionary
    Counts         \* numbers of rooms and of nights

ASSUME BillAssumption ==
    /\ WirePrices \subseteq PriceResponse
    /\ \A t \in RateTexts : {t.whole, t.fraction} \subseteq Seq(0..9)
    /\ Counts \subseteq Int

VARIABLES
    wire,        \* the price as it arrived with the offer
    quoted,      \* Offer.Price
    booked,      \* Booking.Offer.Price, once there is a booking
    bill,        \* the caller's running Money
    exact,       \* what the bill should be, in units of the finest scale
    strained,    \* an operand or a result was outside the finest scale's range
    nightly,     \* the division just made: what it was of, the nights, the shares
    rate         \* the exchange rate just read, with its text

vars == <<wire, quoted, booked, bill, exact, strained, nightly, rate>>

Worth(a) == a.units * TenTo(MaxScale - a.scale)

\* The smallest integer is left out: it has no positive counterpart.
InRange(n) == n \in -MaxInt..MaxInt

Init ==
    /\ wire \in WirePrices
    /\ quoted = mapPrice(wire)
    /\ booked = {}
    /\ bill = NoMoney
    /\ exact = 0
    /\ strained = FALSE
    /\ nightly = {}
    /\ rate = {}

\* The bill becomes sum, which should be worth this much.
BillBecomes(sum, worth, operand) ==
    /\ bill' = sum
    /\ strained' = (strained \/ ~InRange(worth) \/ ~InRange(operand))
    /\ exact' = IF strained' THEN 0 ELSE worth
    /\ nightly' = {} /\ rate' = {}

\* Money.Add: another room, or what there is to pay beside it.
Charge ==
    /\ \E m \in {Payable(quoted)} \union TaxesTotal(quoted) \union PayableAtProperty(quoted) :
          \E sum \in AddMoney(bill, m) :
             BillBecomes(sum, exact + Worth(m.amount), Worth(m.amount))
    /\ UNCHANGED <<wire, quoted, booked>>

\* Money.Sub
Refund ==
    /\ \E m \in {Payable(quoted)} \union TaxesTotal(quoted) :
          \E sum \in SubMoney(bill, m) :
             BillBecomes(sum, exact - Worth(m.amount), Worth(m.amount))
    /\ UNCHANGED <<wire, quoted, booked>>

\* Money.Mul: the same for each of n rooms.
Times ==
    /\ \E n \in Counts : BillBecomes(MulMoney(bill, n), exact * n, Worth(bill.amount))
    /\ UNCHANGED <<wire, quoted, booked>>

\* Money.Split, of the bill, and Price.PerNight.
Share ==
    /\ \E n \in Counts :
          \/ \E s \in Split(bill, n) : nightly' = {[of |-> bill, nights |-> n, shares |-> s]}
          \/ \E s \in PerNight(quoted, n) :
                nightly' = {[of |-> quoted.total, nights |-> n, shares |-> s]}
    /\ rate' = {}
    /\ UNCHANGED <<wire, quoted, booked, bill, exact, strained>>

Confirm ==
    /\ booked' = {bookedPrice(wire)}
    /\ nightly' = {} /\ rate' = {}
    /\ UNCHANGED <<wire, quoted, bill, exact, strained>>

ReadRate ==
    /\ \E t \in RateTexts : rate' = {[text |-> t, answer |-> ParseRate(t)]}
    /\ nightly' = {}
    /\ UNCHANGED <<wire, quoted, booked, bill, exact, strained>>

Next == Charge \/ Refund \/ Times \/ Share \/ Confirm \/ ReadRate

Spec == Init /\ [][Next]_vars

-----------------------------------------------------------------------------
(* Properties. *)

\* However long a caller adds, subtracts and multiplies amounts of different
\* scales, the result is exact, for as long as every operand and every result
\* is in the range of the finest scale; and dividing loses nothing: the equal
\* shares and what could not be divided add up to what was divided, and that
\* rest is too small to be divided again.
BillIsExact ==
    /\ ~strained => Worth(bill.amount) = exact
    /\ \A d \in nightly :
          /\ d.shares.part.amount.units * d.nights + d.shares.remainder.amount.units
                = d.of.amount.units
          /\ Magnitude(d.shares.remainder.amount.units) < d.nights
          /\ d.shares.remainder.amount.units * d.of.amount.units >= 0

\* Every amount arithmetic can produce, the smallest integer apart, is written
\* as a text that reads back as the same value, and equal values are written
\* alike however they were arrived at.
TextKeepsValue ==
    bill.amount.units # MinInt =>
        LET again == ParseAmount(String(bill.amount))
        IN  /\ again.ok /\ Equal(again.amount, bill.amount)
            /\ String(again.amount) = String(bill.amount)

\* Tax lines arrive in any order and in several currencies: the order decides
\* neither their total nor whether there is one.
TaxOrderDoesNotMatter ==
    \A order \in {f \in [DOMAIN quoted.taxes -> DOMAIN quoted.taxes] :
                    \A i, j \in DOMAIN f : f[i] = f[j] => i = j} :
        TaxesTotal([quoted EXCEPT !.taxes = [i \in DOMAIN quoted.taxes |-> quoted.taxes[order[i]]]])
            = TaxesTotal(quoted)

\* The price a guest agreed to and the price his booking shows are read by two
\* mappers that share no code: they come to the same sum to pay, the same
\* taxes on top of it and the same price of each period.
QuoteAndBookingAgree ==
    \A b \in booked : /\ Payable(b) = Payable(quoted)
                      /\ HasMarkup(b) = HasMarkup(quoted)
                      /\ TaxesTotal(b) = TaxesTotal(quoted)
                      /\ b.changes = quoted.changes

\* A rate with more digits than an amount holds is read as the nearest value
\* it can hold, half away from zero; none with a digit in it is refused while
\* it is inside the range of the finest scale.
RateIsNearest ==
    \A r \in rate :
        LET digits == r.text.whole \o r.text.fraction
            finer  == IF Len(r.text.fraction) > MaxScale THEN Len(r.text.fraction) - MaxScale ELSE 0
            coarse == IF Len(r.text.fraction) < MaxScale THEN MaxScale - Len(r.text.fraction) ELSE 0
            said   == DigitsValue(digits) * TenTo(coarse)
        IN  digits # <<>> /\ said < MaxInt * TenTo(finer) =>
                /\ r.answer.ok
                /\ 2 * (Magnitude(Worth(r.answer.amount)) * TenTo(finer) - said)
                      \in (1 - TenTo(finer))..TenTo(finer)
                /\ r.answer.amount.units < 0 => r.text.sign = "-"
=============================================================================
