------------------------------- MODULE Prices -------------------------------
(***************************************************************************)
(* The price of an offer (offers/price.go, offers/mapper.go) and of a      *)
(* booking (booking/price.go, booking/mapper.go).  Both arrive as decimal  *)
(* texts with one currency above them; a tax line and a period may have    *)
(* one of their own, "" when they inherit it.                              *)
(***************************************************************************)
EXTENDS Amounts, Lists

CONSTANTS
    AmountTexts,    \* what an amount can be on the wire
    Currencies      \* "" among them

ASSUME WireAssumption ==
    /\ \A t \in AmountTexts : t.sign \in {"", "+", "-", "?"}
                              /\ {t.whole, t.fraction} \subseteq Seq(0..9)
    /\ "" \in Currencies

TaxResponse ==
    [amount : AmountTexts, currency : Currencies, included : BOOLEAN, atProperty : BOOLEAN]

ChangeResponse == [total : AmountTexts, currency : Currencies]

\* What an offer and a booking have in common of their price.
PriceResponse ==
    [currency : Currencies, total : AmountTexts, sellingTotal : AmountTexts,
     taxes : Seq(TaxResponse), changes : Seq(ChangeResponse)]

-----------------------------------------------------------------------------
(* Mapping. *)

Or(value, fallback) == IF value = "" THEN fallback ELSE value

\* As if a line always inherited the price's currency.
mapTaxes_ParentCurrency(lines, currency) ==
    [i \in DOMAIN lines |-> [amount |-> ParseMoney(lines[i].amount, currency),
                             included |-> lines[i].included,
                             atProperty |-> lines[i].atProperty]]

mapTaxes(lines, currency) ==
    [i \in DOMAIN lines |-> [amount |-> ParseMoney(lines[i].amount, Or(lines[i].currency, currency)),
                             included |-> lines[i].included,
                             atProperty |-> lines[i].atProperty]]

\* A booking's taxes do not say where they are collected.
bookedTaxes(lines, currency) ==
    [i \in DOMAIN lines |-> [amount |-> ParseMoney(lines[i].amount, Or(lines[i].currency, currency)),
                             included |-> lines[i].included]]

mapVariations(changes, currency) ==
    [i \in DOMAIN changes |-> ParseMoney(changes[i].total, Or(changes[i].currency, currency))]

mapPrice(p) ==
    [total |-> ParseMoney(p.total, p.currency),
     sellingTotal |-> ParseMoney(p.sellingTotal, p.currency),
     taxes |-> mapTaxes(p.taxes, p.currency), changes |-> mapVariations(p.changes, p.currency)]

bookedVariations(changes, currency) ==
    [i \in DOMAIN changes |-> ParseMoney(changes[i].total, Or(changes[i].currency, currency))]

bookedPrice(p) ==
    [total |-> ParseMoney(p.total, p.currency),
     sellingTotal |-> ParseMoney(p.sellingTotal, p.currency),
     taxes |-> bookedTaxes(p.taxes, p.currency),
     changes |-> bookedVariations(p.changes, p.currency)]

-----------------------------------------------------------------------------
(* Answers, the same in both contexts but for PayableAtProperty and        *)
(* PerNight, which bookings do not give.                                   *)

Payable(p) == IF IsZero(p.sellingTotal.amount) THEN p.total ELSE p.sellingTotal

HasMarkup(p) ==
    ~IsZero(p.sellingTotal.amount) /\ ~Equal(p.sellingTotal.amount, p.total.amount)

AmountsOf(lines) == [i \in DOMAIN lines |-> lines[i].amount]

TaxesTotal(p) == Sum(AmountsOf(Kept(p.taxes, {t \in ToSet(p.taxes) : ~t.included})))

PayableAtProperty(p) == Sum(AmountsOf(Kept(p.taxes, {t \in ToSet(p.taxes) : t.atProperty})))

PerNight(p, nights) == IF IsZero(p.total.amount) THEN {} ELSE Split(p.total, nights)
=============================================================================
