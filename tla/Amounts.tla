------------------------------ MODULE Amounts -------------------------------
(***************************************************************************)
(* Arithmetic, reading and writing of amounts (money/amount.go,            *)
(* money/money.go).  Units are machine integers that wrap, as int64 does:  *)
(* the code's overflow tests are applied to what has wrapped.              *)
(*                                                                         *)
(* A decimal text is [sign, whole, fraction]: "", "+" or "-" and two       *)
(* sequences of digits; any other text is Malformed.                       *)
(***************************************************************************)
EXTENDS Money, SequencesExt

Wrapped(n) == ((n - MinInt) % (2 * (MaxInt + 1))) + MinInt

Magnitude(n) == IF n < 0 THEN -n ELSE n

\* Go's integer division and remainder: towards zero, with the sign of n.
Quotient(n, d) ==
    Wrapped(IF (n < 0) # (d < 0) THEN -(Magnitude(n) \div Magnitude(d))
            ELSE Magnitude(n) \div Magnitude(d))

Remainder(n, d) == n - d * Quotient(n, d)

saturated(positive) == [units |-> saturatedUnits(positive), scale |-> 0]

-----------------------------------------------------------------------------
(* Arithmetic. *)

\* As if two amounts of different scales were added as they are.
Add_Unaligned(a, b) == [units |-> Wrapped(a.units + b.units), scale |-> a.scale]

Add(a, b) ==
    LET at  == align(a, b)
        sum == Wrapped(at.x + at.y)
    IN  IF (at.x > 0 /\ at.y > 0 /\ sum < 0) \/ (at.x < 0 /\ at.y < 0 /\ sum > 0)
        THEN saturated(at.x > 0)
        ELSE [units |-> sum, scale |-> at.scale]

Sub(a, b) == Add(a, [b EXCEPT !.units = Wrapped(-b.units)])

Mul(a, n) ==
    LET product == Wrapped(a.units * n)
    IN  IF n = 0 \/ a.units = 0 THEN [units |-> 0, scale |-> a.scale]
        ELSE IF Quotient(product, n) # a.units THEN saturated((a.units > 0) = (n > 0))
        ELSE [units |-> product, scale |-> a.scale]

DivMod(a, n) ==
    IF n <= 0 THEN {}
    ELSE {[part |-> [a EXCEPT !.units = Quotient(a.units, n)],
           remainder |-> [a EXCEPT !.units = Remainder(a.units, n)]]}

Equal(a, b) == Compare(a, b) = 0

-----------------------------------------------------------------------------
(* Texts. *)

Malformed == [sign |-> "?", whole |-> <<>>, fraction |-> <<>>]

\* The number a sequence of digits stands for.
DigitsValue(digits) ==
    LET upTo[k \in 0..Len(digits)] == IF k = 0 THEN 0 ELSE 10 * upTo[k - 1] + digits[k]
    IN  upTo[Len(digits)]

\* strings.TrimRight(digits, "0")
TrimZeros(digits) ==
    LET kept == {k \in 1..Len(digits) : digits[k] # 0}
    IN  IF kept = {} THEN <<>> ELSE SubSeq(digits, 1, CHOOSE k \in kept : \A l \in kept : l <= k)

refused(reason) == [ok |-> FALSE, reason |-> reason, amount |-> Zero]

read(units, scale) == [ok |-> TRUE, reason |-> "", amount |-> [units |-> units, scale |-> scale]]

ParseAmount(text) ==
    LET fraction  == TrimZeros(text.fraction)
        magnitude == DigitsValue(text.whole \o fraction)
    IN  IF text = Malformed \/ text.whole \o text.fraction = <<>> THEN refused("malformed")
        ELSE IF Len(fraction) > MaxScale THEN refused("overflow")
        ELSE IF magnitude = 0 THEN read(0, 0)
        ELSE IF magnitude > MaxInt THEN refused("overflow")
        ELSE read(IF text.sign = "-" THEN -magnitude ELSE magnitude, Len(fraction))

\* As if the digits beyond the ninth place were cut off.
ParseRate_Cut(text) ==
    IF ParseAmount(text).reason # "overflow" \/ Len(text.fraction) <= MaxScale THEN ParseAmount(text)
    ELSE LET units == DigitsValue(text.whole \o SubSeq(text.fraction, 1, MaxScale))
         IN  IF units > MaxInt THEN refused("overflow")
             ELSE read(IF text.sign = "-" THEN -units ELSE units, MaxScale)

\* The digits that fit, rounded by the first that does not; the increment is not tested.
ParseRate(text) ==
    IF ParseAmount(text).reason # "overflow" \/ Len(text.fraction) <= MaxScale THEN ParseAmount(text)
    ELSE LET units   == DigitsValue(text.whole \o SubSeq(text.fraction, 1, MaxScale))
             rounded == Wrapped(IF text.fraction[MaxScale + 1] >= 5 THEN units + 1 ELSE units)
         IN  IF units > MaxInt THEN refused("overflow")
             ELSE read(IF text.sign = "-" THEN Wrapped(-rounded) ELSE rounded, MaxScale)

\* The decimal digits of n, at least this many of them.
Digits(n, atLeast) ==
    LET width == CHOOSE w \in 1..(n + atLeast + 1) :
                    /\ w >= atLeast /\ n < TenTo(w)
                    /\ w > 1 /\ w > atLeast => n >= TenTo(w - 1)
    IN  [i \in 1..width |-> (n \div TenTo(width - i)) % 10]

\* As if the fraction were not padded with zeros on its left.
String_Unpadded(a) ==
    LET digits == Digits(Magnitude(a.units), 1)
        split  == IF Len(digits) > a.scale THEN Len(digits) - a.scale ELSE 0
    IN  [sign |-> IF a.units < 0 THEN "-" ELSE "",
         whole |-> SubSeq(digits, 1, split),
         fraction |-> TrimZeros(SubSeq(digits, split + 1, Len(digits)))]

\* The smallest integer has no positive counterpart, and its minus is written twice.
String(a) ==
    LET digits == Digits(Magnitude(a.units), a.scale + 1)
        split  == Len(digits) - a.scale
    IN  IF a.units = MinInt /\ a.scale > 0 THEN Malformed
        ELSE [sign |-> IF a.units < 0 THEN "-" ELSE "",
              whole |-> SubSeq(digits, 1, split),
              fraction |-> IF a.units = 0 THEN <<>>
                           ELSE TrimZeros(SubSeq(digits, split + 1, Len(digits)))]

-----------------------------------------------------------------------------
(* Money. *)

NoMoney == Money(Zero, "")

combinedCurrency(m, n) == IF m.currency = "" THEN n.currency ELSE m.currency

AddMoney(m, n) ==
    IF SameCurrency(m, n) THEN {Money(Add(m.amount, n.amount), combinedCurrency(m, n))} ELSE {}

SubMoney(m, n) ==
    IF SameCurrency(m, n) THEN {Money(Sub(m.amount, n.amount), combinedCurrency(m, n))} ELSE {}

MulMoney(m, n) == Money(Mul(m.amount, n), m.currency)

Split(m, n) ==
    {[part |-> Money(s.part, m.currency), remainder |-> Money(s.remainder, m.currency)] :
        s \in DivMod(m.amount, n)}

\* As if a line in another currency were left out instead of refusing the sum.
Sum_SkipsOthers(values) ==
    LET upTo[k \in 0..Len(values)] ==
            IF k = 0 THEN {NoMoney}
            ELSE UNION {IF SameCurrency(t, values[k]) THEN AddMoney(t, values[k]) ELSE {t} :
                            t \in upTo[k - 1]}
    IN  upTo[Len(values)]

\* {} once two of the values disagree on their currency.
Sum(values) ==
    LET upTo[k \in 0..Len(values)] ==
            IF k = 0 THEN {NoMoney} ELSE UNION {AddMoney(t, values[k]) : t \in upTo[k - 1]}
    IN  upTo[Len(values)]

\* Parse, under mapping.Money: what cannot be read is zero, in the same currency.
ParseMoney(text, currency) ==
    LET parsed == ParseAmount(text)
    IN  Money(IF parsed.ok THEN parsed.amount ELSE Zero, currency)
=============================================================================
