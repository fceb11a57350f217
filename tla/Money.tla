------------------------------- MODULE Money --------------------------------
(***************************************************************************)
(* Amounts of money (money/amount.go, money/money.go) as far as offers are *)
(* compared and converted with them.  An Amount is units / 10^scale, its   *)
(* units a signed machine integer whose largest value is MaxInt.  A        *)
(* currency is "" for Go's zero Money.                                     *)
(*                                                                         *)
(* A result that an operation refuses is {}, one that it gives is {r}.     *)
(***************************************************************************)
EXTENDS Integers

CONSTANTS
    MaxInt,      \* math.MaxInt64
    MaxScale     \* maxScale

ASSUME WidthAssumption == MaxInt \in Nat /\ MaxScale \in Nat

MinInt == -MaxInt - 1

MachineInt == MinInt..MaxInt

Fits(n) == n \in MachineInt

AmountSet == [units : MachineInt, scale : 0..MaxScale]

Zero == [units |-> 0, scale |-> 0]

IsZero(a) == a.units = 0

-----------------------------------------------------------------------------
(* Amounts at a common scale. *)

\* A one with this many zeros.
TenTo(n) ==
    LET power[k \in 0..n] == IF k = 0 THEN 1 ELSE 10 * power[k - 1] IN power[n]

saturatedUnits(positive) == IF positive THEN MaxInt ELSE MinInt

\* Multiplying by ten, by times; Go's MinInt64/10 rounds towards zero.
rescale(units, by) ==
    IF \A i \in 0..(by - 1) : units * TenTo(i) \in -((MaxInt + 1) \div 10)..(MaxInt \div 10)
    THEN {units * TenTo(by)}
    ELSE {}

Raised(units, by) ==
    IF rescale(units, by) = {} THEN saturatedUnits(units > 0)
    ELSE CHOOSE n \in rescale(units, by) : TRUE

align(a, b) ==
    LET scale == IF a.scale < b.scale THEN b.scale ELSE a.scale
    IN  [x |-> Raised(a.units, scale - a.scale), y |-> Raised(b.units, scale - b.scale),
         scale |-> scale]

Compare(a, b) ==
    LET at == align(a, b) IN IF at.x < at.y THEN -1 ELSE IF at.x > at.y THEN 1 ELSE 0

-----------------------------------------------------------------------------
(* Rounding. *)

\* n/d to the nearest integer, half away from zero.
roundedDiv(n, d) ==
    IF n < 0 THEN -((2 * (-n) + d) \div (2 * d)) ELSE (2 * n + d) \div (2 * d)

\* The loops of MulAmount and Round: one digit at a time.
Shed(n, digits) ==
    LET after[k \in 0..digits] == IF k = 0 THEN n ELSE roundedDiv(after[k - 1], 10)
    IN  after[digits]

\* The product, of which digits beyond MaxScale are shed.
MulAmount(a, b) ==
    LET scale   == a.scale + b.scale
        excess  == IF scale > MaxScale THEN scale - MaxScale ELSE 0
        product == Shed(a.units * b.units, excess)
    IN  IF Fits(product) THEN {[units |-> product, scale |-> scale - excess]} ELSE {}

\* As if the loop went one digit further than the scale.
Round_OneTooMany(a, places) ==
    IF places < 0 \/ places >= a.scale THEN a
    ELSE [units |-> Shed(a.units, a.scale - places + 1), scale |-> places]

Round(a, places) ==
    IF places < 0 \/ places >= a.scale THEN a
    ELSE [units |-> Shed(a.units, a.scale - places), scale |-> places]

-----------------------------------------------------------------------------
(* Money. *)

Money(amount, currency) == [amount |-> amount, currency |-> currency]

SameCurrency(m, n) == m.currency = n.currency \/ m.currency = "" \/ n.currency = ""

CompareMoney(m, n) == IF SameCurrency(m, n) THEN {Compare(m.amount, n.amount)} ELSE {}
=============================================================================
