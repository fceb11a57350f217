----------------------------- MODULE Conversion -----------------------------
(***************************************************************************)
(* Prices in the currency a search asked for (offers/conversion.go).       *)
(* Rates is a function on the currencies that have a rate.                 *)
(***************************************************************************)
EXTENDS Money

Convert(rates, m) ==
    IF m.currency \notin DOMAIN rates THEN {}
    ELSE LET rate == rates[m.currency]
         IN  {Money(Round(product, rate.places), rate.to) :
              product \in MulAmount(m.amount, rate.rate)}

ConvertOrOriginal(rates, m) ==
    IF Convert(rates, m) = {} THEN m ELSE CHOOSE c \in Convert(rates, m) : TRUE

\* A price for the screen, beside the price the booking is charged in.
Display(rates, m) ==
    [amount |-> ConvertOrOriginal(rates, m), original |-> m, converted |-> Convert(rates, m) # {}]
=============================================================================
