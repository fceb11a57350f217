------------------------------- MODULE MCBill -------------------------------
(* Integers of a byte, two fraction digits, up to three tax lines.          *)
EXTENDS Bill

text(whole, fraction) == [sign |-> "", whole |-> whole, fraction |-> fraction]

OneTwenty   == text(<<1>>, <<2, 0>>)
FiveCents   == text(<<0>>, <<0, 5>>)
Half        == text(<<>>, <<5>>)
One         == text(<<0, 1>>, <<>>)
TooFine     == text(<<1>>, <<0, 0, 5>>)
None        == text(<<>>, <<>>)
SomeTexts   == {OneTwenty, FiveCents, Half, One, TooFine, None, Malformed}

Currencies2 == {"", "EUR", "MNT"}

tax(amount, currency, included) ==
    [amount |-> amount, currency |-> currency, included |-> included, atProperty |-> currency = "EUR"]

TaxLines ==
    {<<>>, <<tax(FiveCents, "", FALSE), tax(Half, "EUR", FALSE), tax(One, "", TRUE)>>,
     <<tax(Half, "EUR", FALSE), tax(FiveCents, "MNT", FALSE)>>,
     <<tax(Half, "MNT", FALSE), tax(FiveCents, "MNT", FALSE), tax(One, "EUR", TRUE)>>,
     <<tax(Malformed, "MNT", FALSE), tax(Half, "", FALSE)>>}

\* Total and selling total, with and without a markup, an unreadable one among them.
SomePrices ==
    {[currency |-> "EUR", total |-> p[1], sellingTotal |-> p[2], taxes |-> lines,
      changes |-> <<[total |-> Half, currency |-> ""], [total |-> One, currency |-> "MNT"]>>] :
        p \in {<<OneTwenty, None>>, <<Half, FiveCents>>, <<Malformed, OneTwenty>>},
        lines \in TaxLines}

SomeCounts  == {-1, 0, 2, 3}

SomeRates ==
    {[sign |-> sign, whole |-> r[1], fraction |-> r[2]] :
        sign \in {"", "-"},
        r \in {<<<<1>>, <<2, 7, 5>>>>, <<<<1>>, <<2, 6, 5>>>>, <<<<0>>, <<9, 9, 4, 9>>>>,
               <<<<>>, <<9, 9, 5>>>>, <<<<1>>, <<0, 0, 0, 0>>>>, <<<<9>>, <<1, 2, 3>>>>, <<<<1>>, <<1, 8, 7>>>>}}
=============================================================================
