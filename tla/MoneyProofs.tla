----------------------------- MODULE MoneyProofs -----------------------------
(***************************************************************************)
(* What is proved of amounts of money, of the bills made of them, and of   *)
(* the offers of a hotel, grouped, ordered and converted: for any offers,  *)
(* rates, width of integers and number of decimal places.  What is known   *)
(* of sorted lists is in ListLemmas.                                       *)
(***************************************************************************)
EXTENDS Grouping, Bill, ListLemmas

-----------------------------------------------------------------------------
(* Powers of ten. *)

\* The loop that multiplies by ten, after each of its rounds.
Powers(n) == CHOOSE f : f = [k \in 0..n |-> IF k = 0 THEN 1 ELSE 10 * f[k - 1]]

LEMMA PowersStep ==
    ASSUME NEW n \in Nat
    PROVE  /\ TenTo(n) = Powers(n)[n] /\ Powers(n)[0] = 1
           /\ \A k \in 1..n : Powers(n)[k] = 10 * Powers(n)[k - 1]
           /\ \A k \in 0..n : Powers(n)[k] \in Nat /\ Powers(n)[k] >= 1
<1> DEFINE Step(f, k) == IF k = 0 THEN 1 ELSE 10 * f[k - 1]
           round == [k \in 1..n |-> [v \in Nat |-> 10 * v]]
<1>1. round \in Rounds(n, Nat) /\ 1 \in Nat
  BY DEF Rounds
<1>2. PICK f : IsRun(f, Nat, 1, n, round)
  <2> HIDE DEF round
  <2> QED
    BY <1>1, LoopExists
<1>3. \A k \in 0..n : f[k] = Step(f, k)
  <2> SUFFICES ASSUME NEW k \in 0..n, k # 0 PROVE f[k] = Step(f, k)
    BY <1>2 DEF IsRun
  <2>1. k \in 1..n /\ k - 1 \in 0..n /\ f[k - 1] \in Nat
    BY <1>2 DEF IsRun
  <2> QED
    BY <1>2, <2>1 DEF IsRun
<1>4. f = [k \in 0..n |-> Step(f, k)]
  <2> HIDE DEF Step
  <2> QED
    BY <1>2, <1>3 DEF IsRun
<1> DEFINE p == Powers(n)
<1>5. p = [k \in 0..n |-> Step(p, k)]
  <2>1. Powers(n) = CHOOSE g : g = [k \in 0..n |-> Step(g, k)]
    BY DEF Powers
  <2> HIDE DEF Step
  <2> QED
    BY <1>4, <2>1
<1>6. TenTo(n) = p[n]
  BY DEF TenTo, Powers
<1> HIDE DEF p
<1>7. p[0] = 1
  BY <1>5
<1>8. \A k \in 1..n : p[k] = 10 * p[k - 1]
  BY <1>5
<1> DEFINE Upto == {k \in Nat : k <= n => p[k] \in Nat /\ p[k] >= 1}
<1>9. 0 \in Upto
  BY <1>7
<1>10. \A k \in Nat : k \in Upto => k + 1 \in Upto
  <2> SUFFICES ASSUME NEW k \in Nat, k \in Upto, k + 1 <= n PROVE k + 1 \in Upto
    OBVIOUS
  <2>1. k + 1 \in 1..n /\ p[k] \in Nat /\ p[k] >= 1
    OBVIOUS
  <2>2. p[k + 1] = 10 * p[k]
    BY <1>8, <2>1
  <2> QED
    BY <2>1, <2>2
<1>11. \A k \in 0..n : p[k] \in Nat /\ p[k] >= 1
  <2>1. Nat \subseteq Upto
    <3> HIDE DEF Upto
    <3> QED
      BY <1>9, <1>10, SetInduction
  <2> QED
    BY <2>1
<1> QED
  BY <1>6, <1>7, <1>8, <1>11 DEF p

LEMMA TenToZero == TenTo(0) = 1
  BY PowersStep

LEMMA TenToPositive ==
    ASSUME NEW n \in Nat
    PROVE  TenTo(n) \in Nat /\ TenTo(n) >= 1
  BY PowersStep

\* One more zero.
LEMMA TenToNext ==
    ASSUME NEW n \in Nat
    PROVE  TenTo(n + 1) = 10 * TenTo(n)
<1> DEFINE p == Powers(n)
           q == Powers(n + 1)
           Upto == {k \in Nat : k <= n => p[k] = q[k]}
<1>1. /\ TenTo(n) = p[n] /\ p[0] = 1 /\ \A k \in 1..n : p[k] = 10 * p[k - 1]
  BY PowersStep
<1>2. n + 1 \in Nat
  OBVIOUS
<1>3. /\ TenTo(n + 1) = q[n + 1] /\ q[0] = 1 /\ \A k \in 1..(n + 1) : q[k] = 10 * q[k - 1]
  BY <1>2, PowersStep
<1> HIDE DEF p, q
<1>4. 0 \in Upto
  BY <1>1, <1>3
<1>5. \A k \in Nat : k \in Upto => k + 1 \in Upto
  <2> SUFFICES ASSUME NEW k \in Nat, k \in Upto, k + 1 <= n PROVE p[k + 1] = q[k + 1]
    OBVIOUS
  <2>1. k + 1 \in 1..n /\ k + 1 \in 1..(n + 1) /\ (k + 1) - 1 = k /\ p[k] = q[k]
    OBVIOUS
  <2> QED
    BY <1>1, <1>3, <2>1
<1>6. n \in Upto
  <2> HIDE DEF Upto
  <2> QED
    BY <1>4, <1>5, SetInduction
<1>7. n + 1 \in 1..(n + 1) /\ (n + 1) - 1 = n
  OBVIOUS
<1> QED
  BY <1>1, <1>3, <1>6, <1>7

LEMMA TenToSum ==
    ASSUME NEW m \in Nat, NEW n \in Nat
    PROVE  TenTo(m + n) = TenTo(m) * TenTo(n)
<1> DEFINE Upto == {k \in Nat : TenTo(m + k) = TenTo(m) * TenTo(k)}
<1>1. 0 \in Upto
  BY TenToZero, TenToPositive
<1>2. \A k \in Nat : k \in Upto => k + 1 \in Upto
  <2> SUFFICES ASSUME NEW k \in Nat, k \in Upto PROVE TenTo(m + (k + 1)) = TenTo(m) * TenTo(k + 1)
    OBVIOUS
  <2>1. TenTo(m + (k + 1)) = 10 * TenTo(m + k)
    <3>1. m + k \in Nat /\ m + (k + 1) = (m + k) + 1
      OBVIOUS
    <3> QED
      BY <3>1, TenToNext
  <2>2. TenTo(k + 1) = 10 * TenTo(k)
    BY TenToNext
  <2>3. TenTo(m + k) = TenTo(m) * TenTo(k)
    OBVIOUS
  <2>4. TenTo(m) \in Nat /\ TenTo(k) \in Nat
    BY TenToPositive
  <2> DEFINE a == TenTo(m)
             b == TenTo(k)
  <2> HIDE DEF a, b
  <2>5. a \in Nat /\ b \in Nat
    BY <2>4 DEF a, b
  <2>6. 10 * (a * b) = a * (10 * b)
    BY <2>5
  <2> QED
    BY <2>1, <2>2, <2>3, <2>6 DEF a, b
<1>3. n \in Upto
  <2> HIDE DEF Upto
  <2> QED
    BY <1>1, <1>2, SetInduction
<1> QED
  BY <1>3

\* Fewer zeros, a smaller number.
LEMMA TenToGrows ==
    ASSUME NEW m \in Nat, NEW n \in Nat, m <= n
    PROVE  TenTo(m) <= TenTo(n)
<1> DEFINE p == TenTo(m)
           q == TenTo(n - m)
<1>1. n - m \in Nat /\ m + (n - m) = n
  OBVIOUS
<1>2. TenTo(n) = p * q
  BY <1>1, TenToSum
<1>3. p \in Nat /\ q \in Nat /\ q >= 1
  BY <1>1, TenToPositive
<1> HIDE DEF p, q
<1>4. p <= p * q
  BY <1>3
<1> QED
  BY <1>2, <1>4 DEF p

\* A number is less than a one with that many zeros.
LEMMA TenToExceeds ==
    ASSUME NEW n \in Nat
    PROVE  n < TenTo(n)
<1> DEFINE Upto == {k \in Nat : k < TenTo(k)}
<1>1. 0 \in Upto
  BY TenToZero
<1>2. \A k \in Nat : k \in Upto => k + 1 \in Upto
  BY TenToNext, TenToPositive
<1>3. n \in Upto
  <2> HIDE DEF Upto
  <2> QED
    BY <1>1, <1>2, SetInduction
<1> QED
  BY <1>3

-----------------------------------------------------------------------------
(* Machine integers. *)

LEMMA WrappedFits ==
    ASSUME NEW n \in Int
    PROVE  /\ Wrapped(n) \in MachineInt
           /\ n \in MachineInt => Wrapped(n) = n
<1> DEFINE w == 2 * (MaxInt + 1)
<1>1. w \in Int /\ w > 0 /\ MinInt \in Int /\ MaxInt \in Int /\ MaxInt = MinInt + w - 1
  BY WidthAssumption DEF MinInt
<1>2. Wrapped(n) = ((n - MinInt) % w) + MinInt
  BY DEF Wrapped
<1> HIDE DEF w
<1>3. (n - MinInt) % w \in 0..(w - 1)
  BY <1>1
<1>4. n \in MachineInt => (n - MinInt) % w = n - MinInt
  <2> SUFFICES ASSUME n \in MachineInt PROVE (n - MinInt) % w = n - MinInt
    OBVIOUS
  <2>1. n - MinInt \in 0..(w - 1)
    BY <1>1 DEF MachineInt
  <2> DEFINE m == n - MinInt
  <2>2. m \in 0..(w - 1)
    BY <2>1
  <2> HIDE DEF m
  <2>3. m % w = m
    BY <1>1, <2>2
  <2> QED
    BY <2>3 DEF m
<1> QED
  BY <1>1, <1>2, <1>3, <1>4 DEF MachineInt

\* A factor of one or more does not bring a number into range that was outside.
LEMMA FactorInRange ==
    ASSUME NEW n \in Int, NEW k \in Nat, k >= 1, InRange(n * k)
    PROVE  InRange(n)
<1>1. n * k \in Int /\ -MaxInt <= n * k /\ n * k <= MaxInt /\ MaxInt \in Nat
  BY WidthAssumption DEF InRange
<1>2. n >= 0 => n <= n * k
  OBVIOUS
<1>3. n < 0 => n * k <= n
  OBVIOUS
<1>4. CASE n >= 0
  BY <1>1, <1>2, <1>4 DEF InRange
<1>5. CASE n < 0
  BY <1>1, <1>3, <1>5 DEF InRange
<1> QED
  BY <1>4, <1>5

\* Multiplying by ten in steps gives the product as long as it is in range,
\* and a machine integer in any case.
LEMMA RaisedIsExact ==
    ASSUME NEW units \in MachineInt, NEW by \in Nat
    PROVE  /\ Raised(units, by) \in MachineInt
           /\ InRange(units * TenTo(by)) => Raised(units, by) = units * TenTo(by)
<1> DEFINE low  == -((MaxInt + 1) \div 10)
           high == MaxInt \div 10
           fine == \A i \in 0..(by - 1) : units * TenTo(i) \in low..high
<1>1. /\ low \in Int /\ high \in Int /\ MaxInt \in Nat /\ MinInt = -MaxInt - 1
      /\ 10 * high <= MaxInt /\ 10 * low >= MinInt /\ 10 * high > MaxInt - 10
      /\ 10 * low < MinInt + 10
  BY WidthAssumption DEF MinInt
<1>2. rescale(units, by) = IF fine THEN {units * TenTo(by)} ELSE {}
  BY DEF rescale
<1>3. Raised(units, by) = IF fine THEN units * TenTo(by) ELSE saturatedUnits(units > 0)
  <2> HIDE DEF fine
  <2> QED
    BY <1>2 DEF Raised
<1>4. saturatedUnits(units > 0) \in MachineInt
  BY <1>1 DEF saturatedUnits, MachineInt
<1>5. ASSUME fine PROVE units * TenTo(by) \in MachineInt
  <2>1. CASE by = 0
    <3>1. TenTo(by) = 1
      BY <2>1, TenToZero
    <3> QED
      BY <3>1 DEF MachineInt
  <2>2. CASE by # 0
    <3>1. by - 1 \in Nat /\ by - 1 \in 0..(by - 1) /\ (by - 1) + 1 = by
      BY <2>2
    <3>2. units * TenTo(by - 1) \in low..high
      BY <1>5, <3>1
    <3>3. TenTo(by) = 10 * TenTo(by - 1) /\ TenTo(by - 1) \in Nat
      BY <3>1, TenToNext, TenToPositive
    <3> DEFINE p == TenTo(by - 1)
    <3> HIDE DEF p, low, high
    <3>4. p \in Nat /\ units \in Int
      BY <3>3, <1>1 DEF p, MachineInt
    <3>5. units * p \in low..high
      BY <3>2 DEF p
    <3>6. units * (10 * p) = 10 * (units * p)
      BY <3>4
    <3>7. units * (10 * p) \in MinInt..MaxInt
      BY <1>1, <3>4, <3>5, <3>6
    <3> QED
      BY <3>3, <3>7 DEF p, MachineInt
  <2> QED
    BY <2>1, <2>2
<1>6. ASSUME InRange(units * TenTo(by)) PROVE fine
  <2> SUFFICES ASSUME NEW i \in 0..(by - 1) PROVE units * TenTo(i) \in low..high
    OBVIOUS
  <2> DEFINE p == TenTo(i)
             q == TenTo(by - i - 1)
  <2>1. i \in Nat /\ by - i - 1 \in Nat /\ i + ((by - i - 1) + 1) = by
    OBVIOUS
  <2>2. TenTo(by) = p * (10 * q) /\ p \in Nat /\ q \in Nat /\ q >= 1
    BY <2>1, TenToSum, TenToNext, TenToPositive
  <2> HIDE DEF p, q, low, high, fine
  <2>3. units \in Int
    BY <1>1 DEF MachineInt
  <2>4. units * (p * (10 * q)) = (10 * (units * p)) * q
    BY <2>2, <2>3
  <2> DEFINE n == 10 * (units * p)
  <2>5. n \in Int /\ InRange(n * q)
    BY <1>6, <2>2, <2>3, <2>4
  <2> HIDE DEF n
  <2>6. InRange(n)
    BY <2>2, <2>5, FactorInRange
  <2> DEFINE u == units * p
  <2>7. u \in Int /\ -MaxInt <= 10 * u /\ 10 * u <= MaxInt
    BY <2>2, <2>3, <2>6, <1>1 DEF n, InRange
  <2> HIDE DEF u
  <2>8. u \in low..high
    BY <1>1, <2>7
  <2> QED
    BY <2>8 DEF u, p
<1> HIDE DEF fine
<1> QED
  BY <1>3, <1>4, <1>5, <1>6

-----------------------------------------------------------------------------
(* Arithmetic of amounts. *)

LEMMA WorthIsInt ==
    ASSUME NEW a \in AmountSet
    PROVE  Worth(a) \in Int
<1>1. a.units \in Int /\ MaxScale - a.scale \in Nat
  BY WidthAssumption DEF AmountSet, MachineInt, MinInt
<1>2. TenTo(MaxScale - a.scale) \in Int
  BY <1>1, TenToPositive
<1> QED
  BY <1>1, <1>2 DEF Worth

\* An amount whose worth is in range can be written at any finer scale, and the
\* units it is written with are in range too.
LEMMA AlignedIsExact ==
    ASSUME NEW a \in AmountSet, NEW scale \in a.scale..MaxScale, InRange(Worth(a))
    PROVE  /\ InRange(Raised(a.units, scale - a.scale))
           /\ Worth(a) = Raised(a.units, scale - a.scale) * TenTo(MaxScale - scale)
<1> DEFINE by   == scale - a.scale
           rest == MaxScale - scale
           p    == TenTo(by)
           q    == TenTo(rest)
           u    == a.units
<1>1. u \in MachineInt /\ u \in Int /\ by \in Nat /\ rest \in Nat /\ by + rest = MaxScale - a.scale
  BY WidthAssumption DEF AmountSet, MachineInt, MinInt
<1> HIDE DEF u, by, rest
<1>2. TenTo(by + rest) = p * q
  BY <1>1, TenToSum
<1>3. p \in Nat /\ p >= 1 /\ q \in Nat /\ q >= 1
  BY <1>1, TenToPositive
<1>4. Worth(a) = u * (p * q)
  BY <1>1, <1>2 DEF Worth, u
<1> HIDE DEF p, q
<1>5. u * (p * q) = (u * p) * q /\ u * p \in Int
  BY <1>1, <1>3
<1>6. InRange((u * p) * q)
  BY <1>4, <1>5
<1>7. InRange(u * p)
  <2> DEFINE n == u * p
  <2> HIDE DEF n
  <2>1. n \in Int /\ InRange(n * q)
    BY <1>5, <1>6 DEF n
  <2>2. InRange(n)
    BY <1>3, <2>1, FactorInRange
  <2> QED
    BY <2>2 DEF n
<1>8. Raised(u, by) = u * p
  BY <1>1, <1>7, RaisedIsExact DEF p
<1> QED
  BY <1>4, <1>5, <1>7, <1>8 DEF u, by, rest, q

\* The scale two amounts are added at.
Common(a, b) == IF a.scale < b.scale THEN b.scale ELSE a.scale

LEMMA AddIsAmount ==
    ASSUME NEW a \in AmountSet, NEW b \in AmountSet
    PROVE  Add(a, b) \in AmountSet
<1> DEFINE at == align(a, b)
<1>1. a.units \in MachineInt /\ b.units \in MachineInt /\ a.scale \in 0..MaxScale /\ b.scale \in 0..MaxScale
  BY DEF AmountSet
<1>2. Common(a, b) \in 0..MaxScale
  BY <1>1 DEF Common
<1>3. Common(a, b) - a.scale \in Nat /\ Common(a, b) - b.scale \in Nat
  BY <1>1, WidthAssumption DEF Common
<1>4. /\ at.x = Raised(a.units, Common(a, b) - a.scale)
      /\ at.y = Raised(b.units, Common(a, b) - b.scale)
      /\ at.scale = Common(a, b)
  BY DEF align, Common
<1>5. at.x \in MachineInt /\ at.y \in MachineInt
  BY <1>1, <1>3, <1>4, RaisedIsExact
<1> HIDE DEF at
<1>6. Wrapped(at.x + at.y) \in MachineInt
  <2>1. at.x + at.y \in Int
    BY <1>5, WidthAssumption DEF MachineInt, MinInt
  <2> QED
    BY <2>1, WrappedFits
<1>7. saturated(at.x > 0) \in AmountSet
  <2>1. MaxInt \in MachineInt /\ MinInt \in MachineInt /\ 0 \in 0..MaxScale
    BY WidthAssumption DEF MachineInt, MinInt
  <2> QED
    BY <2>1 DEF saturated, saturatedUnits, AmountSet
<1>8. [units |-> Wrapped(at.x + at.y), scale |-> at.scale] \in AmountSet
  BY <1>2, <1>4, <1>6 DEF AmountSet
<1> QED
  BY <1>7, <1>8 DEF Add, at

\* Amounts of different scales are added exactly, as long as both and their
\* sum are in range.
LEMMA AddIsExact ==
    ASSUME NEW a \in AmountSet, NEW b \in AmountSet,
           InRange(Worth(a)), InRange(Worth(b)), InRange(Worth(a) + Worth(b))
    PROVE  Worth(Add(a, b)) = Worth(a) + Worth(b) /\ Add(a, b).scale = Common(a, b)
<1> DEFINE s == Common(a, b)
           x == Raised(a.units, s - a.scale)
           y == Raised(b.units, s - b.scale)
           q == TenTo(MaxScale - s)
<1>1. a.scale \in 0..MaxScale /\ b.scale \in 0..MaxScale
  BY DEF AmountSet
<1>2. s \in a.scale..MaxScale /\ s \in b.scale..MaxScale /\ MaxScale - s \in Nat
  BY <1>1, WidthAssumption DEF Common
<1> HIDE DEF s
<1>3. InRange(x) /\ Worth(a) = x * q
  BY <1>2, AlignedIsExact
<1>4. InRange(y) /\ Worth(b) = y * q
  BY <1>2, AlignedIsExact
<1>5. q \in Nat /\ q >= 1
  BY <1>2, TenToPositive
<1>6. align(a, b) = [x |-> x, y |-> y, scale |-> s]
  BY DEF align, s, Common
<1> HIDE DEF x, y, q
<1>7. x \in Int /\ y \in Int /\ x + y \in Int
  BY <1>3, <1>4, WidthAssumption DEF InRange
<1>8. x * q + y * q = (x + y) * q
  BY <1>5, <1>7
<1>9. InRange(x + y)
  <2> DEFINE n == x + y
  <2>1. n \in Int /\ InRange(n * q)
    BY <1>3, <1>4, <1>7, <1>8
  <2> HIDE DEF n
  <2>2. InRange(n)
    BY <1>5, <2>1, FactorInRange
  <2> QED
    BY <2>2 DEF n
<1>10. Wrapped(x + y) = x + y
  <2>1. x + y \in MachineInt
    BY <1>9, WidthAssumption DEF InRange, MachineInt, MinInt
  <2> QED
    BY <1>7, <2>1, WrappedFits
<1>11. ~((x > 0 /\ y > 0 /\ x + y < 0) \/ (x < 0 /\ y < 0 /\ x + y > 0))
  BY <1>7
<1>12. Add(a, b) = [units |-> x + y, scale |-> s]
  BY <1>6, <1>10, <1>11 DEF Add
<1> QED
  BY <1>3, <1>4, <1>8, <1>12 DEF Worth, q, s

LEMMA NegatedIsAmount ==
    ASSUME NEW b \in AmountSet
    PROVE  /\ [b EXCEPT !.units = Wrapped(-b.units)] \in AmountSet
           /\ InRange(Worth(b)) => Worth([b EXCEPT !.units = Wrapped(-b.units)]) = -Worth(b)
<1> DEFINE c == [b EXCEPT !.units = Wrapped(-b.units)]
           q == TenTo(MaxScale - b.scale)
<1>1. b.units \in Int /\ b.scale \in 0..MaxScale /\ MaxScale - b.scale \in Nat
  BY WidthAssumption DEF AmountSet, MachineInt, MinInt
<1>2. -b.units \in Int /\ Wrapped(-b.units) \in MachineInt
  BY <1>1, WrappedFits
<1>3. c = [units |-> Wrapped(-b.units), scale |-> b.scale]
  BY DEF AmountSet
<1>4. c \in AmountSet
  BY <1>1, <1>2, <1>3 DEF AmountSet
<1>5. q \in Nat /\ q >= 1
  BY <1>1, TenToPositive
<1>6. ASSUME InRange(Worth(b)) PROVE Worth(c) = -Worth(b)
  <2> HIDE DEF q
  <2>1. Worth(b) = b.units * q
    BY DEF Worth, q
  <2>2. InRange(b.units)
    BY <1>1, <1>5, <1>6, <2>1, FactorInRange
  <2>3. -b.units \in MachineInt
    BY <1>1, <2>2, WidthAssumption DEF InRange, MachineInt, MinInt
  <2>4. Wrapped(-b.units) = -b.units
    BY <1>2, <2>3, WrappedFits
  <2>5. Worth(c) = (-b.units) * q
    BY <1>3, <2>4 DEF Worth, q
  <2>6. (-b.units) * q = -(b.units * q)
    BY <1>1, <1>5
  <2> QED
    BY <2>1, <2>5, <2>6
<1> QED
  BY <1>4, <1>6

LEMMA SubIsAmount ==
    ASSUME NEW a \in AmountSet, NEW b \in AmountSet
    PROVE  Sub(a, b) \in AmountSet
  BY NegatedIsAmount, AddIsAmount DEF Sub

\* Subtracting, likewise.
LEMMA SubIsExact ==
    ASSUME NEW a \in AmountSet, NEW b \in AmountSet,
           InRange(Worth(a)), InRange(Worth(b)), InRange(Worth(a) - Worth(b))
    PROVE  Worth(Sub(a, b)) = Worth(a) - Worth(b)
<1> DEFINE c == [b EXCEPT !.units = Wrapped(-b.units)]
<1>1. c \in AmountSet /\ Worth(c) = -Worth(b)
  BY NegatedIsAmount
<1>2. Sub(a, b) = Add(a, c)
  BY DEF Sub
<1> HIDE DEF c
<1>3. Worth(a) \in Int /\ Worth(b) \in Int
  BY WorthIsInt
<1>4. InRange(Worth(c))
  BY <1>1, <1>3, WidthAssumption DEF InRange
<1>5. Worth(a) + Worth(c) = Worth(a) - Worth(b)
  BY <1>1, <1>3
<1>6. Worth(Add(a, c)) = Worth(a) + Worth(c)
  BY <1>1, <1>4, <1>5, AddIsExact
<1> QED
  BY <1>2, <1>5, <1>6

LEMMA DivideProduct ==
    ASSUME NEW k \in Nat, NEW m \in Nat, m > 0
    PROVE  (k * m) \div m = k
<1> DEFINE q == (k * m) \div m
           r == (k * m) % m
<1>1. k * m \in Nat
  OBVIOUS
<1>2. q \in Int /\ r \in 0..(m - 1) /\ k * m = m * q + r
  BY <1>1
<1> HIDE DEF q, r
<1>3. m * (k - q) = r
  BY <1>2
<1>4. k - q < 1
  BY <1>2, <1>3
<1>5. k - q > -1
  BY <1>2, <1>3
<1>6. k = q
  BY <1>2, <1>4, <1>5
<1> QED
  BY <1>6 DEF q

LEMMA MulIsAmount ==
    ASSUME NEW a \in AmountSet, NEW n \in Int
    PROVE  Mul(a, n) \in AmountSet
<1>1. a.units \in Int /\ a.scale \in 0..MaxScale
  BY WidthAssumption DEF AmountSet, MachineInt, MinInt
<1>2. a.units * n \in Int
  BY <1>1
<1>3. Wrapped(a.units * n) \in MachineInt
  BY <1>2, WrappedFits
<1>4. /\ [units |-> 0, scale |-> a.scale] \in AmountSet
      /\ [units |-> Wrapped(a.units * n), scale |-> a.scale] \in AmountSet
  BY <1>1, <1>3, WidthAssumption DEF AmountSet, MachineInt, MinInt
<1>5. \A p \in BOOLEAN : saturated(p) \in AmountSet
  BY WidthAssumption DEF saturated, saturatedUnits, AmountSet, MachineInt, MinInt
<1>6. saturated((a.units > 0) = (n > 0)) \in AmountSet
  BY <1>1, <1>5
<1> QED
  BY <1>4, <1>6 DEF Mul

\* A product in range is exact: the test by division finds nothing.
LEMMA MulIsExact ==
    ASSUME NEW a \in AmountSet, NEW n \in Int, InRange(Worth(a)), InRange(Worth(a) * n)
    PROVE  Worth(Mul(a, n)) = Worth(a) * n
<1> DEFINE u == a.units
           q == TenTo(MaxScale - a.scale)
<1>1. u \in Int /\ MaxScale - a.scale \in Nat
  BY WidthAssumption DEF AmountSet, MachineInt, MinInt
<1>2. q \in Nat /\ q >= 1
  BY <1>1, TenToPositive
<1>3. Worth(a) = u * q
  BY DEF Worth
<1> HIDE DEF u, q
<1>4. CASE n = 0 \/ u = 0
  <2>1. Mul(a, n) = [units |-> 0, scale |-> a.scale]
    BY <1>4 DEF Mul, u
  <2>2. Worth(Mul(a, n)) = 0 * q
    BY <2>1 DEF Worth, q
  <2>3. CASE n = 0
    BY <1>1, <1>2, <1>3, <2>2, <2>3
  <2>4. CASE u = 0
    BY <1>1, <1>2, <1>3, <2>2, <2>4
  <2> QED
    BY <1>4, <2>3, <2>4
<1>5. CASE ~(n = 0 \/ u = 0)
  <2> DEFINE p == u * n
  <2>1. p \in Int /\ (u * q) * n = p * q
    BY <1>1, <1>2
  <2>2. InRange(p * q)
    BY <1>3, <2>1
  <2>3. Quotient(p, n) = Wrapped(u)
    <3>1. CASE u > 0 /\ n > 0
      <4>1. p = u * n /\ ~(p < 0) /\ u \in Nat /\ n \in Nat
        BY <1>1, <3>1
      <4>2. p \div n = u
        BY <3>1, <4>1, DivideProduct
      <4> HIDE DEF p
      <4> QED
        BY <3>1, <4>1, <4>2 DEF Quotient, Magnitude
    <3>2. CASE u > 0 /\ n < 0
      <4>1. -p = u * (-n) /\ p < 0 /\ u \in Nat /\ -n \in Nat
        BY <1>1, <3>2
      <4>2. (-p) \div (-n) = u
        BY <3>2, <4>1, DivideProduct
      <4> HIDE DEF p
      <4> QED
        BY <3>2, <4>1, <4>2 DEF Quotient, Magnitude
    <3>3. CASE u < 0 /\ n > 0
      <4>1. -p = (-u) * n /\ p < 0 /\ -u \in Nat /\ n \in Nat
        BY <1>1, <3>3
      <4>2. (-p) \div n = -u
        BY <3>3, <4>1, DivideProduct
      <4> HIDE DEF p
      <4>3. Quotient(p, n) = Wrapped(-((-p) \div n))
        BY <3>3, <4>1 DEF Quotient, Magnitude
      <4> QED
        BY <1>1, <4>2, <4>3
    <3>4. CASE u < 0 /\ n < 0
      <4>1. p = (-u) * (-n) /\ ~(p < 0) /\ -u \in Nat /\ -n \in Nat
        BY <1>1, <3>4
      <4>2. p \div (-n) = -u
        BY <3>4, <4>1, DivideProduct
      <4> HIDE DEF p
      <4>3. Quotient(p, n) = Wrapped(-(p \div (-n)))
        BY <3>4, <4>1 DEF Quotient, Magnitude
      <4> QED
        BY <1>1, <4>2, <4>3
    <3> QED
      BY <1>1, <1>5, <3>1, <3>2, <3>3, <3>4
  <2> HIDE DEF p
  <2>4. InRange(p)
    BY <1>2, <2>1, <2>2, FactorInRange
  <2>5. Wrapped(p) = p
    BY <2>1, <2>4, WrappedFits, WidthAssumption DEF InRange, MachineInt, MinInt
  <2>6. u \in MachineInt
    BY DEF u, AmountSet
  <2>7. Wrapped(u) = u
    BY <1>1, <2>6, WrappedFits
  <2>8. Mul(a, n) = [units |-> p, scale |-> a.scale]
    BY <1>5, <2>3, <2>5, <2>7 DEF Mul, u, p
  <2>9. Worth(Mul(a, n)) = p * q
    BY <2>8 DEF Worth, q
  <2> QED
    BY <1>3, <2>1, <2>9
<1> QED
  BY <1>4, <1>5

\* Equal shares and what is left over: nothing is lost, and what is left is
\* less than one unit for each.
LEMMA DivModIsExact ==
    ASSUME NEW a \in AmountSet, NEW n \in Int, NEW d \in DivMod(a, n)
    PROVE  /\ d.part.units * n + d.remainder.units = a.units
           /\ Magnitude(d.remainder.units) < n
           /\ d.remainder.units * a.units >= 0
<1> DEFINE u == a.units
           q == Quotient(u, n)
           r == Remainder(u, n)
           k == Magnitude(u)
<1>1. u \in MachineInt /\ u \in Int /\ MaxInt \in Nat /\ MinInt = -MaxInt - 1
  BY WidthAssumption DEF AmountSet, MachineInt, MinInt
<1>2. n > 0
  BY DEF DivMod
<1>3. d = [part |-> [a EXCEPT !.units = q], remainder |-> [a EXCEPT !.units = r]]
  BY <1>2 DEF DivMod
<1>4. d.part.units = q /\ d.remainder.units = r
  BY <1>3 DEF AmountSet
<1> HIDE DEF u
<1>5. k \in Nat /\ (u >= 0 => k = u) /\ (u < 0 => k = -u)
  BY <1>1 DEF Magnitude
<1> DEFINE s == k \div n
           z == k % n
<1>6. s \in Nat /\ z \in 0..(n - 1) /\ k = n * s + z
  BY <1>2, <1>5
<1>7. s <= k
  <2> HIDE DEF s, z, k
  <2>1. n * s >= s
    BY <1>2, <1>6
  <2> QED
    BY <1>2, <1>6, <2>1
<1>8. q = Wrapped(IF u < 0 THEN -s ELSE s)
  BY <1>1, <1>2 DEF Quotient, Magnitude
<1> HIDE DEF q, s, z, k
<1>9. q = IF u < 0 THEN -s ELSE s
  <2> DEFINE v == IF u < 0 THEN -s ELSE s
  <2>1. v \in Int /\ v \in MachineInt
    BY <1>1, <1>5, <1>6, <1>7 DEF MachineInt
  <2> HIDE DEF v
  <2>2. Wrapped(v) = v
    BY <2>1, WrappedFits
  <2> QED
    BY <1>8, <2>2 DEF v
<1>10. r = u - n * q
  BY DEF Remainder, q
<1>11. r = IF u < 0 THEN -z ELSE z
  <2>1. n * s \in Int /\ n * (-s) = -(n * s)
    BY <1>6
  <2> QED
    BY <1>1, <1>5, <1>6, <1>9, <1>10, <2>1
<1> HIDE DEF r
<1>12. q * n + r = u
  BY <1>1, <1>6, <1>9, <1>10
<1>13. Magnitude(r) < n
  BY <1>2, <1>6, <1>11 DEF Magnitude
<1>14. r * u >= 0
  BY <1>1, <1>6, <1>11
<1> QED
  BY <1>4, <1>12, <1>13, <1>14 DEF u

-----------------------------------------------------------------------------
(* Reading amounts. *)

\* What the digits read so far stand for, after each of them.
Readings(digits) ==
    CHOOSE f : f = [k \in 0..Len(digits) |-> IF k = 0 THEN 0 ELSE 10 * f[k - 1] + digits[k]]

LEMMA ReadingsStep ==
    ASSUME NEW digits \in Seq(0..9)
    PROVE  /\ DigitsValue(digits) = Readings(digits)[Len(digits)]
           /\ Readings(digits)[0] = 0
           /\ \A k \in 1..Len(digits) :
                 Readings(digits)[k] = 10 * Readings(digits)[k - 1] + digits[k]
           /\ \A k \in 0..Len(digits) : Readings(digits)[k] \in Nat
<1> DEFINE n == Len(digits)
           Step(f, k) == IF k = 0 THEN 0 ELSE 10 * f[k - 1] + digits[k]
           round == [k \in 1..n |-> [v \in Nat |-> 10 * v + digits[k]]]
<1>1. n \in Nat /\ \A k \in 1..n : digits[k] \in 0..9
  OBVIOUS
<1> HIDE DEF n
<1>2. round \in Rounds(n, Nat) /\ 0 \in Nat
  BY <1>1 DEF Rounds
<1>3. PICK f : IsRun(f, Nat, 0, n, round)
  <2> HIDE DEF round
  <2> QED
    BY <1>1, <1>2, LoopExists
<1>4. \A k \in 0..n : f[k] = Step(f, k)
  <2> SUFFICES ASSUME NEW k \in 0..n, k # 0 PROVE f[k] = Step(f, k)
    BY <1>3 DEF IsRun
  <2>1. k \in 1..n /\ k - 1 \in 0..n /\ f[k - 1] \in Nat
    BY <1>1, <1>3 DEF IsRun
  <2> QED
    BY <1>3, <2>1 DEF IsRun
<1>5. f = [k \in 0..n |-> Step(f, k)]
  <2> HIDE DEF Step
  <2> QED
    BY <1>3, <1>4 DEF IsRun
<1> DEFINE r == Readings(digits)
<1>6. r = [k \in 0..n |-> Step(r, k)]
  <2>1. Readings(digits) = CHOOSE g : g = [k \in 0..n |-> Step(g, k)]
    BY DEF Readings, n
  <2> HIDE DEF Step
  <2> QED
    BY <1>5, <2>1
<1>7. DigitsValue(digits) = r[n]
  BY DEF DigitsValue, Readings, n
<1> HIDE DEF r
<1>8. r[0] = 0
  BY <1>1, <1>6
<1>9. \A k \in 1..n : r[k] = 10 * r[k - 1] + digits[k]
  BY <1>1, <1>6
<1> DEFINE Upto == {k \in Nat : k <= n => r[k] \in Nat}
<1>10. 0 \in Upto
  BY <1>8
<1>11. \A k \in Nat : k \in Upto => k + 1 \in Upto
  <2> SUFFICES ASSUME NEW k \in Nat, k \in Upto, k + 1 <= n PROVE r[k + 1] \in Nat
    OBVIOUS
  <2>1. k + 1 \in 1..n /\ (k + 1) - 1 = k /\ r[k] \in Nat
    BY <1>1
  <2>2. r[k + 1] = 10 * r[k] + digits[k + 1] /\ digits[k + 1] \in 0..9
    BY <1>1, <1>9, <2>1
  <2> QED
    BY <2>1, <2>2, SMTT(30)
<1>12. Nat \subseteq Upto
  <2> HIDE DEF Upto
  <2> QED
    BY <1>10, <1>11, SetInduction
<1> QED
  BY <1>1, <1>7, <1>8, <1>9, <1>12 DEF n, r

\* Trimming cuts off zeros and nothing else.
LEMMA TrimCutsZeros ==
    ASSUME NEW s \in Seq(0..9)
    PROVE  \E t \in 0..Len(s) : /\ TrimZeros(s) = SubSeq(s, 1, t)
                                /\ \A i \in (t + 1)..Len(s) : s[i] = 0
                                /\ t > 0 => s[t] # 0
<1> DEFINE kept == {k \in 1..Len(s) : s[k] # 0}
<1>1. Len(s) \in Nat
  OBVIOUS
<1>2. CASE kept = {}
  <2>1. TrimZeros(s) = SubSeq(s, 1, 0)
    BY <1>2 DEF TrimZeros
  <2>2. \A i \in (0 + 1)..Len(s) : s[i] = 0
    BY <1>2
  <2> QED
    BY <1>1, <2>1, <2>2
<1>3. CASE kept # {}
  <2> DEFINE last == CHOOSE k \in kept : \A l \in kept : l <= k
  <2>1. \E k \in kept : \A l \in kept : l <= k
    BY <1>1, <1>3, LastPlace
  <2>2. last \in kept /\ \A l \in kept : l <= last
    <3> HIDE DEF kept
    <3> QED
      BY <2>1
  <2>3. TrimZeros(s) = SubSeq(s, 1, last)
    BY <1>3 DEF TrimZeros
  <2> HIDE DEF last
  <2>4. last \in 0..Len(s) /\ s[last] # 0
    BY <2>2
  <2>5. \A i \in (last + 1)..Len(s) : s[i] = 0
    BY <1>1, <2>2
  <2> QED
    BY <2>3, <2>4, <2>5
<1> QED
  BY <1>2, <1>3

\* Whatever a text says, it is read as an amount, and never as the smallest integer.
LEMMA ParsedIsAmount ==
    ASSUME NEW text, text.whole \in Seq(0..9), text.fraction \in Seq(0..9)
    PROVE  ParseAmount(text).amount \in AmountSet /\ InRange(ParseAmount(text).amount.units)
<1> DEFINE fraction  == TrimZeros(text.fraction)
           digits    == text.whole \o fraction
           magnitude == DigitsValue(digits)
<1>1. PICK t \in 0..Len(text.fraction) : fraction = SubSeq(text.fraction, 1, t)
  BY TrimCutsZeros
<1>2. fraction \in Seq(0..9) /\ Len(fraction) \in Nat
  BY <1>1
<1> HIDE DEF fraction
<1>3. digits \in Seq(0..9) /\ Len(digits) \in Nat
  BY <1>2
<1> HIDE DEF digits
<1>4. magnitude \in Nat
  BY <1>3, ReadingsStep
<1>5. Zero \in AmountSet /\ InRange(Zero.units)
  BY WidthAssumption DEF Zero, AmountSet, MachineInt, MinInt, InRange
<1> HIDE DEF magnitude
<1>6. ParseAmount(text) =
        IF text = Malformed \/ text.whole \o text.fraction = <<>> THEN refused("malformed")
        ELSE IF Len(fraction) > MaxScale THEN refused("overflow")
        ELSE IF magnitude = 0 THEN read(0, 0)
        ELSE IF magnitude > MaxInt THEN refused("overflow")
        ELSE read(IF text.sign = "-" THEN -magnitude ELSE magnitude, Len(fraction))
  BY DEF ParseAmount, magnitude, digits, fraction
<1>7. \A reason : refused(reason).amount = Zero
  BY DEF refused
<1>8. read(0, 0).amount = Zero
  BY DEF read, Zero
<1>9. CASE ~(Len(fraction) > MaxScale) /\ ~(magnitude > MaxInt)
  <2> DEFINE units == IF text.sign = "-" THEN -magnitude ELSE magnitude
  <2>1. InRange(units) /\ units \in MachineInt
    BY <1>4, <1>9, WidthAssumption DEF InRange, MachineInt, MinInt
  <2>2. Len(fraction) \in 0..MaxScale
    BY <1>2, <1>9, WidthAssumption
  <2> HIDE DEF units
  <2>3. read(units, Len(fraction)).amount \in AmountSet
    BY <2>1, <2>2 DEF read, AmountSet
  <2>4. read(units, Len(fraction)).amount.units = units
    BY DEF read
  <2> QED
    BY <1>5, <1>6, <1>7, <1>8, <2>1, <2>3, <2>4 DEF units
<1>10. CASE Len(fraction) > MaxScale \/ magnitude > MaxInt
  BY <1>5, <1>6, <1>7, <1>8, <1>10
<1> QED
  BY <1>9, <1>10

-----------------------------------------------------------------------------
(* Reading rates. *)

\* What digits stand for depends on those read so far and no others.
LEMMA SameDigitsSoFar ==
    ASSUME NEW d \in Seq(0..9), NEW e \in Seq(0..9), NEW n \in Nat,
           n <= Len(d), n <= Len(e), \A i \in 1..n : d[i] = e[i]
    PROVE  Readings(d)[n] = Readings(e)[n]
<1> DEFINE x == Readings(d)
           y == Readings(e)
           Upto == {k \in Nat : k <= n => x[k] = y[k]}
<1>1. /\ x[0] = 0 /\ \A k \in 1..n : x[k] = 10 * x[k - 1] + d[k]
      /\ y[0] = 0 /\ \A k \in 1..n : y[k] = 10 * y[k - 1] + e[k]
  BY ReadingsStep
<1> HIDE DEF x, y
<1>2. 0 \in Upto
  BY <1>1
<1>3. \A k \in Nat : k \in Upto => k + 1 \in Upto
  <2> SUFFICES ASSUME NEW k \in Nat, k \in Upto, k + 1 <= n PROVE x[k + 1] = y[k + 1]
    OBVIOUS
  <2>1. k + 1 \in 1..n /\ (k + 1) - 1 = k /\ x[k] = y[k]
    OBVIOUS
  <2>2. x[k + 1] = 10 * x[k] + d[k + 1] /\ y[k + 1] = 10 * y[k] + e[k + 1]
    BY <1>1, <2>1
  <2> QED
    BY <2>1, <2>2
<1>4. n \in Upto
  <2> HIDE DEF Upto
  <2> QED
    BY <1>2, <1>3, SetInduction
<1> QED
  BY <1>4 DEF x, y

\* Reading j more digits shifts what was read by j places and adds less than
\* one of the last of these; zeros add nothing.
LEMMA MoreDigits ==
    ASSUME NEW d \in Seq(0..9), NEW m \in Nat, NEW j \in Nat, m + j <= Len(d)
    PROVE  /\ Readings(d)[m + j] - Readings(d)[m] * TenTo(j) \in 0..(TenTo(j) - 1)
           /\ (\A i \in (m + 1)..(m + j) : d[i] = 0)
                 => Readings(d)[m + j] = Readings(d)[m] * TenTo(j)
<1> DEFINE r == Readings(d)
           a == r[m]
           Zeros(k) == \A i \in (m + 1)..(m + k) : d[i] = 0
           Upto == {k \in Nat : m + k <= Len(d) =>
                       /\ r[m + k] - a * TenTo(k) \in 0..(TenTo(k) - 1)
                       /\ Zeros(k) => r[m + k] = a * TenTo(k)}
<1>1. /\ \A k \in 1..Len(d) : r[k] = 10 * r[k - 1] + d[k]
      /\ \A k \in 0..Len(d) : r[k] \in Nat
  BY ReadingsStep
<1>2. Len(d) \in Nat /\ \A k \in 1..Len(d) : d[k] \in 0..9
  OBVIOUS
<1>3. a \in Nat
  BY <1>1, <1>2
<1> HIDE DEF r, a
<1>4. 0 \in Upto
  BY <1>3, TenToZero DEF a
<1>5. \A k \in Nat : k \in Upto => k + 1 \in Upto
  <2> SUFFICES ASSUME NEW k \in Nat, k \in Upto, m + (k + 1) <= Len(d)
               PROVE  /\ r[m + (k + 1)] - a * TenTo(k + 1) \in 0..(TenTo(k + 1) - 1)
                      /\ Zeros(k + 1) => r[m + (k + 1)] = a * TenTo(k + 1)
    <3> HIDE DEF Zeros
    <3> QED
      OBVIOUS
  <2> DEFINE p == TenTo(k)
             u == r[m + k]
             v == r[m + (k + 1)]
             c == d[m + (k + 1)]
  <2>1. m + k <= Len(d) /\ m + k \in 0..Len(d) /\ m + (k + 1) \in 1..Len(d) /\ (m + (k + 1)) - 1 = m + k
    BY <1>2
  <2>2. u - a * p \in 0..(p - 1) /\ (Zeros(k) => u = a * p)
    BY <2>1
  <2>3. v = 10 * u + c /\ c \in 0..9 /\ u \in Nat
    BY <1>1, <1>2, <2>1
  <2>4. TenTo(k + 1) = 10 * p /\ p \in Nat
    BY TenToNext, TenToPositive
  <2>5. Zeros(k + 1) => Zeros(k) /\ c = 0
    OBVIOUS
  <2> HIDE DEF p, u, v, c, Zeros
  <2> DEFINE w == a * p
  <2>6. a * (10 * p) = 10 * w /\ w \in Int
    BY <1>3, <2>4
  <2> HIDE DEF w
  <2>7. u - w \in 0..(p - 1)
    BY <2>2 DEF w
  <2>8. v - 10 * w \in 0..(10 * p - 1)
    BY <2>3, <2>4, <2>6, <2>7
  <2>9. Zeros(k + 1) => v = 10 * w
    BY <2>2, <2>3, <2>5, <2>6 DEF w
  <2> QED
    BY <2>4, <2>6, <2>8, <2>9 DEF v
<1>6. j \in Upto
  <2> HIDE DEF Upto
  <2> QED
    BY <1>4, <1>5, SetInduction
<1> QED
  BY <1>6 DEF r, a

\* One list of digits behind another.
LEMMA DigitsBehind ==
    ASSUME NEW d \in Seq(0..9), NEW e \in Seq(0..9)
    PROVE  /\ d \o e \in Seq(0..9) /\ Len(d \o e) = Len(d) + Len(e)
           /\ \A i \in 1..Len(d) : (d \o e)[i] = d[i]
           /\ \A i \in 1..Len(e) : (d \o e)[Len(d) + i] = e[i]
  OBVIOUS

\* The digits of a text up to a place of its fraction.
LEMMA PrefixValue ==
    ASSUME NEW whole \in Seq(0..9), NEW fraction \in Seq(0..9), NEW n \in 0..Len(fraction)
    PROVE  /\ whole \o fraction \in Seq(0..9)
           /\ Len(whole \o fraction) = Len(whole) + Len(fraction)
           /\ \A i \in 1..Len(fraction) : (whole \o fraction)[Len(whole) + i] = fraction[i]
           /\ DigitsValue(whole \o SubSeq(fraction, 1, n)) = Readings(whole \o fraction)[Len(whole) + n]
<1> DEFINE d == whole \o fraction
           part == SubSeq(fraction, 1, n)
           e == whole \o part
           w == Len(whole)
<1>1. w \in Nat /\ Len(fraction) \in Nat /\ n \in Nat
  OBVIOUS
<1>2. part \in Seq(0..9) /\ Len(part) = n /\ \A i \in 1..n : part[i] = fraction[i]
  OBVIOUS
<1> HIDE DEF part
<1>3. /\ d \in Seq(0..9) /\ Len(d) = w + Len(fraction)
      /\ \A i \in 1..w : d[i] = whole[i]
      /\ \A i \in 1..Len(fraction) : d[w + i] = fraction[i]
  BY DigitsBehind
<1>4. /\ e \in Seq(0..9) /\ Len(e) = w + n
      /\ \A i \in 1..w : e[i] = whole[i]
      /\ \A i \in 1..n : e[w + i] = fraction[i]
  <2>1. /\ e \in Seq(0..9) /\ Len(e) = w + Len(part)
        /\ \A i \in 1..w : e[i] = whole[i]
        /\ \A i \in 1..Len(part) : e[w + i] = part[i]
    BY <1>2, DigitsBehind
  <2> HIDE DEF e, w
  <2> QED
    BY <1>2, <2>1
<1> HIDE DEF d, e, w
<1>5. \A i \in 1..(w + n) : d[i] = e[i]
  <2> SUFFICES ASSUME NEW i \in 1..(w + n) PROVE d[i] = e[i]
    OBVIOUS
  <2>1. CASE i <= w
    BY <1>1, <1>3, <1>4, <2>1
  <2>2. CASE ~(i <= w)
    <3>1. i - w \in 1..n /\ i - w \in 1..Len(fraction) /\ w + (i - w) = i
      BY <1>1, <2>2
    <3> QED
      BY <1>3, <1>4, <3>1
  <2> QED
    BY <2>1, <2>2
<1>6. w + n \in Nat /\ w + n <= Len(d) /\ w + n <= Len(e)
  BY <1>1, <1>3, <1>4
<1>7. Readings(d)[w + n] = Readings(e)[w + n]
  BY <1>3, <1>4, <1>5, <1>6, SameDigitsSoFar
<1>8. DigitsValue(e) = Readings(e)[w + n]
  BY <1>4, ReadingsStep
<1> QED
  BY <1>3, <1>7, <1>8 DEF d, e, w, part

\* The worth of an answer with these units, whatever its sign.
LEMMA MagnitudeOfWorth ==
    ASSUME NEW m \in Nat, NEW scale \in 0..MaxScale, NEW units \in {m, -m}
    PROVE  /\ read(units, scale).ok
           /\ read(units, scale).amount.units = units
           /\ Magnitude(Worth(read(units, scale).amount)) = m * TenTo(MaxScale - scale)
<1> DEFINE p == TenTo(MaxScale - scale)
<1>1. p \in Nat
  <2>1. MaxScale - scale \in Nat
    BY WidthAssumption
  <2> QED
    BY <2>1, TenToPositive
<1>2. Worth(read(units, scale).amount) = units * p
  BY DEF Worth, read
<1> HIDE DEF p
<1>3. m * p \in Nat /\ (-m) * p = -(m * p)
  BY <1>1
<1> DEFINE n == m * p
<1>4. n \in Nat /\ Worth(read(units, scale).amount) \in {n, -n}
  BY <1>2, <1>3
<1> HIDE DEF n
<1>5. Magnitude(Worth(read(units, scale).amount)) = n
  BY <1>4 DEF Magnitude
<1> QED
  BY <1>5 DEF n, p, read

\* RateIsNearest, of one text and its answer.
Nearest(text, answer) ==
    LET digits == text.whole \o text.fraction
        finer  == IF Len(text.fraction) > MaxScale THEN Len(text.fraction) - MaxScale ELSE 0
        coarse == IF Len(text.fraction) < MaxScale THEN MaxScale - Len(text.fraction) ELSE 0
        said   == DigitsValue(digits) * TenTo(coarse)
    IN  digits # <<>> /\ said < MaxInt * TenTo(finer) =>
            /\ answer.ok
            /\ 2 * (Magnitude(Worth(answer.amount)) * TenTo(finer) - said)
                  \in (1 - TenTo(finer))..TenTo(finer)
            /\ answer.amount.units < 0 => text.sign = "-"

\* A text that is read without rounding stands for exactly what it says.
LEMMA PlainRateIsNearest ==
    ASSUME NEW text, text.whole \in Seq(0..9), text.fraction \in Seq(0..9),
           ParseAmount(text).reason # "overflow" \/ Len(text.fraction) <= MaxScale
    PROVE  Nearest(text, ParseAmount(text))
<1> DEFINE fraction  == TrimZeros(text.fraction)
           digits    == text.whole \o text.fraction
           magnitude == DigitsValue(text.whole \o fraction)
           w         == Len(text.whole)
           f         == Len(text.fraction)
           finer     == IF f > MaxScale THEN f - MaxScale ELSE 0
           coarse    == IF f < MaxScale THEN MaxScale - f ELSE 0
           said      == DigitsValue(digits) * TenTo(coarse)
<1> SUFFICES ASSUME digits # <<>>, said < MaxInt * TenTo(finer)
             PROVE  /\ ParseAmount(text).ok
                    /\ 2 * (Magnitude(Worth(ParseAmount(text).amount)) * TenTo(finer) - said)
                          \in (1 - TenTo(finer))..TenTo(finer)
                    /\ ParseAmount(text).amount.units < 0 => text.sign = "-"
  BY DEF Nearest
<1>1. /\ w \in Nat /\ f \in Nat /\ finer \in Nat /\ coarse \in Nat /\ MaxScale \in Nat /\ MaxInt \in Nat
      /\ MaxScale + finer = f + coarse /\ (f <= MaxScale => finer = 0)
      /\ ParseAmount(text).reason # "overflow" \/ f <= MaxScale
  <2>1. w \in Nat /\ f \in Nat
    OBVIOUS
  <2>2. ParseAmount(text).reason # "overflow" \/ f <= MaxScale
    OBVIOUS
  <2> HIDE DEF w, f
  <2> QED
    BY <2>1, <2>2, WidthAssumption
<1>2. PICK t \in 0..f : /\ fraction = SubSeq(text.fraction, 1, t)
                        /\ \A i \in (t + 1)..f : text.fraction[i] = 0
  BY TrimCutsZeros
<1>3. Len(fraction) = t
  BY <1>2
<1>4. /\ digits \in Seq(0..9) /\ Len(digits) = w + f
      /\ \A i \in 1..f : digits[w + i] = text.fraction[i]
      /\ magnitude = Readings(digits)[w + t]
  <2> DEFINE whole == text.whole
             behind == text.fraction
  <2>1. whole \in Seq(0..9) /\ behind \in Seq(0..9) /\ t \in 0..Len(behind)
    OBVIOUS
  <2> HIDE DEF whole, behind
  <2>2. /\ whole \o behind \in Seq(0..9)
        /\ Len(whole \o behind) = Len(whole) + Len(behind)
        /\ \A i \in 1..Len(behind) : (whole \o behind)[Len(whole) + i] = behind[i]
        /\ DigitsValue(whole \o SubSeq(behind, 1, t)) = Readings(whole \o behind)[Len(whole) + t]
    BY <2>1, PrefixValue
  <2>3. fraction = SubSeq(behind, 1, t)
    BY <1>2 DEF behind
  <2> HIDE DEF fraction
  <2> QED
    BY <2>2, <2>3 DEF whole, behind
<1> HIDE DEF digits, fraction, w, f, finer, coarse
<1>5. /\ magnitude \in Nat
      /\ DigitsValue(digits) = magnitude * TenTo(f - t)
  <2> HIDE DEF magnitude
  <2>1. w + t \in Nat /\ f - t \in Nat /\ (w + t) + (f - t) = w + f /\ w + t \in 0..(w + f)
    BY <1>1
  <2>2. \A i \in ((w + t) + 1)..(w + f) : digits[i] = 0
    <3> SUFFICES ASSUME NEW i \in ((w + t) + 1)..(w + f) PROVE digits[i] = 0
      OBVIOUS
    <3>1. i - w \in (t + 1)..f /\ i - w \in 1..f /\ w + (i - w) = i
      BY <1>1
    <3> QED
      BY <1>2, <1>4, <3>1
  <2>3. DigitsValue(digits) = Readings(digits)[w + f] /\ Readings(digits)[w + t] \in Nat
    BY <1>4, <2>1, ReadingsStep
  <2> DEFINE m == w + t
             j == f - t
  <2>4. m \in Nat /\ j \in Nat /\ m + j <= Len(digits) /\ m + j = w + f
    BY <1>1, <1>4, <2>1
  <2>5. \A i \in (m + 1)..(m + j) : digits[i] = 0
    BY <2>2, <2>4
  <2> HIDE DEF m, j
  <2>6. Readings(digits)[m + j] = Readings(digits)[m] * TenTo(j)
    BY <1>4, <2>4, <2>5, MoreDigits
  <2> QED
    BY <1>4, <2>3, <2>4, <2>6 DEF m, j
<1> HIDE DEF magnitude
<1>6. ParseAmount(text) =
        IF text = Malformed \/ text.whole \o text.fraction = <<>> THEN refused("malformed")
        ELSE IF Len(fraction) > MaxScale THEN refused("overflow")
        ELSE IF magnitude = 0 THEN read(0, 0)
        ELSE IF magnitude > MaxInt THEN refused("overflow")
        ELSE read(IF text.sign = "-" THEN -magnitude ELSE magnitude, Len(fraction))
  BY DEF ParseAmount, magnitude, fraction
<1>7. text # Malformed /\ text.whole \o text.fraction # <<>>
  BY DEF Malformed, digits
<1>8. refused("overflow").reason = "overflow"
  BY DEF refused
<1>9. t <= MaxScale
  BY <1>1, <1>3, <1>6, <1>7, <1>8
<1> DEFINE p == TenTo(MaxScale - t)
           q == TenTo(finer)
           n == magnitude * p
<1>10. p \in Nat /\ q \in Nat /\ p >= 1 /\ q >= 1 /\ TenTo(f - t) \in Nat /\ TenTo(coarse) \in Nat
  <2>1. MaxScale - t \in Nat /\ f - t \in Nat
    BY <1>1, <1>9
  <2> QED
    BY <1>1, <2>1, TenToPositive
<1>11. said = n * q
  <2> DEFINE k == MaxScale - t
             j == f - t
  <2>1. k \in Nat /\ j \in Nat /\ k + finer = j + coarse
    BY <1>1, <1>9
  <2> HIDE DEF k, j
  <2>2. TenTo(j) * TenTo(coarse) = TenTo(k) * TenTo(finer)
    <3>1. TenTo(k + finer) = TenTo(k) * TenTo(finer)
      BY <1>1, <2>1, TenToSum
    <3>2. TenTo(j + coarse) = TenTo(j) * TenTo(coarse)
      BY <1>1, <2>1, TenToSum
    <3> QED
      BY <2>1, <3>1, <3>2
  <2>3. said = (magnitude * TenTo(f - t)) * TenTo(coarse)
    BY <1>5
  <2> DEFINE x == TenTo(f - t)
             y == TenTo(coarse)
  <2>4. x \in Nat /\ y \in Nat /\ x * y = p * q /\ said = (magnitude * x) * y
    BY <1>10, <2>2, <2>3 DEF k, j
  <2> HIDE DEF x, y, p, q, said
  <2> QED
    BY <1>5, <1>10, <2>4
<1> HIDE DEF p, q, said
<1>12. n \in Nat
  BY <1>5, <1>10
<1>13. ~(magnitude > MaxInt)
  <2>1. CASE f > MaxScale
    BY <1>1, <1>3, <1>5, <1>6, <1>7, <1>8, <1>9, <2>1
  <2>2. CASE ~(f > MaxScale)
    <3>1. finer = 0
      BY <1>1, <2>2
    <3>2. q = 1
      BY <3>1, TenToZero DEF q
    <3>3. MaxInt * TenTo(finer) = MaxInt
      BY <1>1, <3>1, TenToZero
    <3>4. n < MaxInt
      BY <1>11, <1>12, <3>2, <3>3
    <3>5. magnitude <= n
      BY <1>5, <1>10
    <3> QED
      BY <1>1, <1>5, <1>12, <3>4, <3>5
  <2> QED
    BY <2>1, <2>2
<1>14. /\ ParseAmount(text).ok
       /\ Magnitude(Worth(ParseAmount(text).amount)) = n
       /\ ParseAmount(text).amount.units < 0 => text.sign = "-"
  <2>1. CASE magnitude = 0
    <3>1. ParseAmount(text) = read(0, 0)
      BY <1>1, <1>3, <1>6, <1>7, <1>9, <2>1
    <3>2. n = 0
      BY <1>10, <2>1
    <3>3. MaxScale - 0 = MaxScale
      BY <1>1
    <3>4. TenTo(MaxScale) \in Nat
      BY <1>1, TenToPositive
    <3>5. 0 \in 0..MaxScale /\ 0 \in {0, -0} /\ 0 * TenTo(MaxScale - 0) = 0
      BY <1>1, <3>3, <3>4
    <3>6. /\ read(0, 0).ok /\ read(0, 0).amount.units = 0
          /\ Magnitude(Worth(read(0, 0).amount)) = 0
      BY <3>5, MagnitudeOfWorth
    <3> QED
      BY <3>1, <3>2, <3>6
  <2>2. CASE magnitude # 0
    <3> DEFINE units == IF text.sign = "-" THEN -magnitude ELSE magnitude
    <3>1. ParseAmount(text) = read(units, t)
      BY <1>1, <1>3, <1>6, <1>7, <1>9, <1>13, <2>2
    <3>2. units \in {magnitude, -magnitude} /\ t \in 0..MaxScale
      BY <1>1, <1>9
    <3> HIDE DEF units
    <3>3. /\ read(units, t).ok /\ read(units, t).amount.units = units
          /\ Magnitude(Worth(read(units, t).amount)) = n
      BY <1>5, <3>2, MagnitudeOfWorth DEF p
    <3>4. units < 0 => text.sign = "-"
      BY <1>5 DEF units
    <3> QED
      BY <3>1, <3>3, <3>4
  <2> QED
    BY <2>1, <2>2
<1> DEFINE m == Magnitude(Worth(ParseAmount(text).amount))
<1>15. 2 * (m * q - said) = 0
  <2>1. m = n
    BY <1>14
  <2> HIDE DEF m, n
  <2>2. n * q \in Int
    BY <1>10, <1>12
  <2> QED
    BY <1>11, <2>1, <2>2
<1>16. 0 \in (1 - q)..q
  BY <1>10
<1> QED
  BY <1>14, <1>15, <1>16 DEF m, q

\* A number of which n digits are cut off, rounded by the first of them.
LEMMA HalfAwayFromZero ==
    ASSUME NEW units \in Nat, NEW said \in Nat, NEW n \in Nat, n >= 1, NEW digit \in 0..9,
           NEW rest \in 0..(TenTo(n - 1) - 1),
           said = units * TenTo(n) + digit * TenTo(n - 1) + rest
    PROVE  2 * ((IF digit >= 5 THEN units + 1 ELSE units) * TenTo(n) - said)
              \in (1 - TenTo(n))..TenTo(n)
<1> DEFINE p == TenTo(n - 1)
           q == TenTo(n)
           u == units * q
           x == digit * p
           rounded == IF digit >= 5 THEN units + 1 ELSE units
<1>1. p \in Nat /\ p >= 1 /\ q = 10 * p
  <2>1. n - 1 \in Nat /\ (n - 1) + 1 = n
    OBVIOUS
  <2> QED
    BY <2>1, TenToPositive, TenToNext
<1>2. said = u + x + rest /\ rest \in 0..(p - 1)
  OBVIOUS
<1> HIDE DEF p, q
<1>3. x \in Nat /\ u \in Nat /\ q \in Nat
  BY <1>1
<1>4. digit >= 5 => x >= 5 * p /\ x <= 9 * p
  BY <1>1
<1>5. digit < 5 => x <= 4 * p
  BY <1>1
<1>6. rounded * q = IF digit >= 5 THEN u + q ELSE u
  BY <1>1
<1> DEFINE z == rounded * q
<1> HIDE DEF u, x, z
<1>7. 2 * (z - said) \in (1 - q)..q
  <2>1. CASE digit >= 5
    <3>1. z = u + q
      BY <1>6, <2>1 DEF z
    <3> QED
      BY <1>1, <1>2, <1>3, <1>4, <2>1, <3>1
  <2>2. CASE ~(digit >= 5)
    <3>1. z = u
      BY <1>6, <2>2 DEF z
    <3> QED
      BY <1>1, <1>2, <1>3, <1>5, <2>2, <3>1
  <2> QED
    BY <2>1, <2>2
<1> QED
  BY <1>7 DEF q, z

\* A text that is rounded.
LEMMA RoundedRateIsNearest ==
    ASSUME NEW text, text.whole \in Seq(0..9), text.fraction \in Seq(0..9),
           ~(ParseAmount(text).reason # "overflow" \/ Len(text.fraction) <= MaxScale)
    PROVE  Nearest(text, ParseRate(text))
<1> DEFINE digits  == text.whole \o text.fraction
           w       == Len(text.whole)
           f       == Len(text.fraction)
           finer   == IF f > MaxScale THEN f - MaxScale ELSE 0
           coarse  == IF f < MaxScale THEN MaxScale - f ELSE 0
           said    == DigitsValue(digits) * TenTo(coarse)
           units   == DigitsValue(text.whole \o SubSeq(text.fraction, 1, MaxScale))
           digit   == text.fraction[MaxScale + 1]
           rounded == IF digit >= 5 THEN units + 1 ELSE units
           q       == TenTo(finer)
<1> SUFFICES ASSUME said < MaxInt * q
             PROVE  /\ ParseRate(text).ok
                    /\ 2 * (Magnitude(Worth(ParseRate(text).amount)) * q - said) \in (1 - q)..q
                    /\ ParseRate(text).amount.units < 0 => text.sign = "-"
  BY DEF Nearest
<1>1. /\ w \in Nat /\ f \in Nat /\ MaxScale \in Nat /\ MaxInt \in Nat
      /\ f > MaxScale /\ finer = f - MaxScale /\ coarse = 0 /\ finer \in Nat /\ finer >= 1
  <2>1. w \in Nat /\ f \in Nat /\ ~(f <= MaxScale)
    OBVIOUS
  <2> HIDE DEF w, f
  <2> QED
    BY <2>1, WidthAssumption
<1>2. /\ digits \in Seq(0..9) /\ Len(digits) = w + f
      /\ \A i \in 1..f : digits[w + i] = text.fraction[i]
      /\ units = Readings(digits)[w + MaxScale]
  <2> DEFINE whole == text.whole
             behind == text.fraction
  <2>1. whole \in Seq(0..9) /\ behind \in Seq(0..9) /\ MaxScale \in 0..Len(behind)
    BY <1>1
  <2> HIDE DEF whole, behind
  <2>2. /\ whole \o behind \in Seq(0..9)
        /\ Len(whole \o behind) = Len(whole) + Len(behind)
        /\ \A i \in 1..Len(behind) : (whole \o behind)[Len(whole) + i] = behind[i]
        /\ DigitsValue(whole \o SubSeq(behind, 1, MaxScale)) = Readings(whole \o behind)[Len(whole) + MaxScale]
    BY <2>1, PrefixValue
  <2> QED
    BY <2>2 DEF whole, behind
<1>3. ParseRate(text) =
        IF units > MaxInt THEN refused("overflow")
        ELSE read(IF text.sign = "-" THEN Wrapped(-Wrapped(rounded)) ELSE Wrapped(rounded), MaxScale)
  BY DEF ParseRate
<1> HIDE DEF digits, w, f, finer, coarse, units, digit
<1>4. digit \in 0..9 /\ digits[w + (MaxScale + 1)] = digit
  <2>1. MaxScale + 1 \in 1..f /\ w + (MaxScale + 1) \in 1..Len(digits)
    BY <1>1, <1>2
  <2>2. digits[w + (MaxScale + 1)] = digit
    BY <1>2, <2>1 DEF digit
  <2> QED
    BY <1>2, <2>1, <2>2
<1> DEFINE r == Readings(digits)
           m == w + MaxScale
           j == finer - 1
           p == TenTo(j)
           rest == r[w + f] - r[m + 1] * p
<1>5. /\ m \in Nat /\ j \in Nat /\ (m + 1) + j = w + f /\ m + 1 \in 1..Len(digits) /\ (m + 1) - 1 = m
      /\ w + f \in 0..Len(digits) /\ m \in 0..Len(digits) /\ finer = j + 1 /\ w + (MaxScale + 1) = m + 1
  BY <1>1, <1>2
<1>6. /\ r[m + 1] = 10 * units + digit /\ units \in Nat
      /\ r[w + f] \in Nat /\ DigitsValue(digits) = r[w + f]
  BY <1>2, <1>4, <1>5, ReadingsStep
<1>7. rest \in 0..(p - 1)
  <2> DEFINE k == m + 1
  <2>1. k \in Nat /\ k + j <= Len(digits) /\ k + j = w + f
    BY <1>2, <1>5
  <2> HIDE DEF k, j
  <2>2. Readings(digits)[k + j] - Readings(digits)[k] * TenTo(j) \in 0..(TenTo(j) - 1)
    BY <1>2, <1>5, <2>1, MoreDigits
  <2> QED
    BY <2>1, <2>2 DEF k
<1>8. said = r[w + f]
  <2>1. TenTo(coarse) = 1
    BY <1>1, TenToZero
  <2> QED
    BY <1>6, <2>1
<1>9. p \in Nat /\ p >= 1 /\ q = 10 * p
  BY <1>5, TenToPositive, TenToNext
<1> HIDE DEF said, rest, p, q, m, r
<1>10. said = units * q + digit * p + rest /\ said \in Nat
  <2>1. (10 * units + digit) * p = units * (10 * p) + digit * p
    BY <1>4, <1>6, <1>9
  <2> DEFINE x == units * (10 * p)
             y == digit * p
             z == r[w + f]
  <2>2. x \in Nat /\ y \in Nat /\ z \in Nat /\ said = z
    BY <1>4, <1>6, <1>8, <1>9
  <2>3. rest = z - (10 * units + digit) * p
    BY <1>6 DEF rest
  <2> HIDE DEF x, y, z
  <2>4. rest = z - (x + y)
    BY <2>1, <2>3 DEF x, y
  <2>5. said = x + y + rest
    BY <2>2, <2>4
  <2> QED
    BY <1>9, <2>2, <2>5 DEF x, y
<1>11. 2 * (rounded * q - said) \in (1 - q)..q
  <2>1. rest \in 0..(TenTo(finer - 1) - 1) /\ said = units * TenTo(finer) + digit * TenTo(finer - 1) + rest
    BY <1>7, <1>10 DEF p, q
  <2> HIDE DEF rounded, j
  <2> QED
    BY <1>1, <1>4, <1>6, <1>10, <2>1, HalfAwayFromZero DEF rounded, q
<1>12. units < MaxInt
  <2> SUFFICES ASSUME units >= MaxInt PROVE FALSE
    BY <1>1, <1>6
  <2>1. units * q >= MaxInt * q
    BY <1>1, <1>6, <1>9
  <2> DEFINE x == units * q
             y == digit * p
             z == MaxInt * q
  <2>2. x \in Nat /\ y \in Nat /\ z \in Nat /\ x >= z
    BY <1>1, <1>4, <1>6, <1>9, <2>1
  <2>3. said = x + y + rest /\ said < z
    BY <1>10
  <2> HIDE DEF x, y, z
  <2> QED
    BY <1>7, <1>9, <2>2, <2>3
<1>13. rounded \in 0..MaxInt
  BY <1>1, <1>6, <1>12
<1> HIDE DEF rounded
<1>14. Wrapped(rounded) = rounded /\ Wrapped(-rounded) = -rounded
  <2>1. rounded \in MachineInt /\ -rounded \in MachineInt /\ rounded \in Int /\ -rounded \in Int
    BY <1>1, <1>13 DEF MachineInt, MinInt
  <2> QED
    BY <2>1, WrappedFits
<1> DEFINE signed == IF text.sign = "-" THEN -rounded ELSE rounded
<1>15. ParseRate(text) = read(signed, MaxScale)
  BY <1>1, <1>3, <1>6, <1>12, <1>14
<1>16. signed \in {rounded, -rounded} /\ (signed < 0 => text.sign = "-")
  BY <1>13
<1> HIDE DEF signed
<1>17. /\ ParseRate(text).ok /\ ParseRate(text).amount.units = signed
       /\ Magnitude(Worth(ParseRate(text).amount)) = rounded * TenTo(MaxScale - MaxScale)
  <2> DEFINE top == MaxScale
             n   == rounded
  <2>1. n \in Nat /\ top \in 0..MaxScale /\ signed \in {n, -n}
    BY <1>1, <1>13, <1>16
  <2> HIDE DEF top, n
  <2>2. /\ read(signed, top).ok /\ read(signed, top).amount.units = signed
        /\ Magnitude(Worth(read(signed, top).amount)) = n * TenTo(MaxScale - top)
    BY <2>1, MagnitudeOfWorth, ZenonT(60)
  <2> QED
    BY <1>15, <2>2 DEF top, n
<1>18. rounded * TenTo(MaxScale - MaxScale) = rounded
  <2>1. MaxScale - MaxScale = 0
    BY <1>1
  <2> QED
    BY <1>13, <2>1, TenToZero
<1> QED
  BY <1>11, <1>16, <1>17, <1>18

\* Either way the answer is the nearest there is.
LEMMA ParsedRateIsNearest ==
    ASSUME NEW text, text.whole \in Seq(0..9), text.fraction \in Seq(0..9)
    PROVE  Nearest(text, ParseRate(text))
<1>1. CASE ParseAmount(text).reason # "overflow" \/ Len(text.fraction) <= MaxScale
  <2>1. ParseRate(text) = ParseAmount(text)
    BY <1>1 DEF ParseRate
  <2> QED
    BY <1>1, <2>1, PlainRateIsNearest
<1> QED
  BY <1>1, RoundedRateIsNearest

-----------------------------------------------------------------------------
(* Writing amounts. *)

\* The first n digits.
LEMMA FirstDigits ==
    ASSUME NEW d \in Seq(0..9), NEW n \in Nat, n <= Len(d)
    PROVE  /\ SubSeq(d, 1, n) \in Seq(0..9) /\ Len(SubSeq(d, 1, n)) = n
           /\ \A i \in 1..n : SubSeq(d, 1, n)[i] = d[i]
  OBVIOUS

\* The n digits behind the first o.
LEMMA LaterDigits ==
    ASSUME NEW d \in Seq(0..9), NEW o \in Nat, NEW n \in Nat, o + n <= Len(d)
    PROVE  /\ SubSeq(d, o + 1, o + n) \in Seq(0..9) /\ Len(SubSeq(d, o + 1, o + n)) = n
           /\ \A i \in 1..n : SubSeq(d, o + 1, o + n)[i] = d[o + i]
  OBVIOUS

\* A number of digits that is enough for n, and no more than least unless it must.
Wide(n, least, w) ==
    /\ w \in Nat /\ w >= least /\ n < TenTo(w)
    /\ w > least => n >= TenTo(w - 1)

LEMMA OneWidth ==
    ASSUME NEW n \in Nat, NEW least \in Nat, NEW v, NEW w, Wide(n, least, v), Wide(n, least, w)
    PROVE  v = w
<1>1. ASSUME NEW x \in Nat, NEW y \in Nat, Wide(n, least, x), Wide(n, least, y), x < y PROVE FALSE
  <2>1. y > least /\ y - 1 \in Nat /\ x <= y - 1
    BY <1>1 DEF Wide
  <2>2. TenTo(x) <= TenTo(y - 1) /\ TenTo(x) \in Nat /\ TenTo(y - 1) \in Nat
    BY <2>1, TenToGrows, TenToPositive
  <2>3. n < TenTo(x) /\ n >= TenTo(y - 1)
    BY <1>1, <2>1 DEF Wide
  <2> QED
    BY <2>2, <2>3
<1>2. v \in Nat /\ w \in Nat
  BY DEF Wide
<1>3. ~(v < w) /\ ~(w < v)
  BY <1>1, <1>2
<1> QED
  BY <1>2, <1>3

\* The last w digits of n.
LastDigits(n, w) == [i \in 1..w |-> (n \div TenTo(w - i)) % 10]

\* Digits finds a width, and what it writes is as long.
LEMMA DigitsWidth ==
    ASSUME NEW n \in Nat, NEW least \in Nat, least >= 1
    PROVE  \E w \in Nat : /\ Wide(n, least, w)
                          /\ Digits(n, least) = LastDigits(n, w)
<1> DEFINE T == {w \in Nat : w >= least /\ n < TenTo(w)}
           P(w) == /\ w >= least /\ n < TenTo(w)
                   /\ w > 1 /\ w > least => n >= TenTo(w - 1)
           width == CHOOSE w \in 1..(n + least + 1) : P(w)
<1>1. n + least \in T
  <2>1. n + least \in Nat /\ n <= n + least
    OBVIOUS
  <2>2. TenTo(n) <= TenTo(n + least) /\ n < TenTo(n) /\ TenTo(n) \in Nat /\ TenTo(n + least) \in Nat
    BY <2>1, TenToGrows, TenToExceeds, TenToPositive
  <2> QED
    BY <2>1, <2>2
<1>2. PICK x \in T : \A y \in T : x <= y
  <2>1. T \in SUBSET Nat
    OBVIOUS
  <2> HIDE DEF T
  <2> QED
    BY <1>1, <2>1, LeastNatural
<1>3. x \in Nat /\ x >= least /\ n < TenTo(x) /\ x <= n + least
  BY <1>1, <1>2
<1>4. ASSUME x > least PROVE n >= TenTo(x - 1)
  <2>1. x - 1 \in Nat /\ x - 1 >= least /\ ~(x <= x - 1)
    BY <1>3, <1>4
  <2>2. x - 1 \notin T
    BY <1>2, <2>1
  <2>3. TenTo(x - 1) \in Nat
    BY <2>1, TenToPositive
  <2> QED
    BY <2>1, <2>2, <2>3
<1>5. x \in 1..(n + least + 1) /\ P(x)
  BY <1>3, <1>4
<1> HIDE DEF P
<1>6. width \in 1..(n + least + 1) /\ P(width)
  BY <1>5
<1>7. Digits(n, least) = LastDigits(n, width)
  BY DEF Digits, P, LastDigits
<1> HIDE DEF width
<1>8. Wide(n, least, width)
  BY <1>6 DEF P, Wide
<1> QED
  BY <1>6, <1>7, <1>8

\* Dividing twice.
Over(n, d) == n \div d

LEMMA DivideTwice ==
    ASSUME NEW n \in Nat, NEW p \in Nat, p >= 1, NEW q \in Nat, q >= 1, NEW m \in Nat, m = p * q
    PROVE  Over(n, m) = Over(Over(n, p), q)
<1> DEFINE a == n \div p
           r == n % p
           b == a \div q
           s == a % q
           e == n \div m
           t == n % m
<1>1. a \in Nat /\ r \in 0..(p - 1) /\ n = p * a + r
  OBVIOUS
<1>2. b \in Nat /\ s \in 0..(q - 1) /\ a = q * b + s
  BY <1>1
<1> HIDE DEF b, s
<1>3. m \in Nat /\ m >= 1
  OBVIOUS
<1>4. p * (q * b + s) = m * b + p * s
  BY <1>2
<1>5. p * s <= p * (q - 1) /\ p * s \in Nat /\ p * (q - 1) = m - p
  BY <1>2
<1> HIDE DEF a, r
<1> DEFINE o == p * s + r
<1>6. o \in 0..(m - 1) /\ n = m * b + o
  BY <1>1, <1>2, <1>3, <1>4, <1>5
<1>7. e \in Nat /\ t \in 0..(m - 1) /\ n = m * e + t
  BY <1>3
<1> HIDE DEF e, t, o
<1>8. ASSUME NEW x \in Nat, NEW y \in Nat, NEW u \in 0..(m - 1), NEW v \in 0..(m - 1),
             m * x + u = m * y + v
      PROVE  ~(x < y)
  <2> SUFFICES ASSUME x < y PROVE FALSE
    OBVIOUS
  <2>1. m * (x + 1) <= m * y
    BY <1>3
  <2>2. m * (x + 1) = m * x + m /\ m * x \in Nat /\ m * y \in Nat
    BY <1>3
  <2> QED
    BY <1>3, <1>8, <2>1, <2>2
<1>9. ~(e < b) /\ ~(b < e)
  BY <1>2, <1>6, <1>7, <1>8
<1>10. e = b
  BY <1>2, <1>7, <1>9
<1> QED
  BY <1>10 DEF e, b, a, Over

LEMMA ShiftRight ==
    ASSUME NEW n \in Nat, NEW p \in Nat, p >= 1
    PROVE  n \div (10 * p) = (n \div p) \div 10
<1> DEFINE ten == 10
           more == 10 * p
<1>1. ten \in Nat /\ ten >= 1 /\ more \in Nat /\ more = p * ten
  OBVIOUS
<1> HIDE DEF ten, more
<1>2. Over(n, more) = Over(Over(n, p), ten)
  BY <1>1, DivideTwice
<1> QED
  BY <1>2 DEF ten, more, Over

\* Reading the digits written for n from the left gives n without its last digits.
LEMMA DigitsAreRead ==
    ASSUME NEW n \in Nat, NEW w \in Nat, n < TenTo(w)
    PROVE  /\ LastDigits(n, w) \in Seq(0..9) /\ Len(LastDigits(n, w)) = w
           /\ \A j \in 0..w : Readings(LastDigits(n, w))[j] = n \div TenTo(w - j)
<1> DEFINE d == LastDigits(n, w)
<1>0. d = [i \in 1..w |-> (n \div TenTo(w - i)) % 10]
  BY DEF LastDigits
<1> HIDE DEF d
<1>1. \A i \in 1..w : n \div TenTo(w - i) \in Nat
  <2> SUFFICES ASSUME NEW i \in 1..w PROVE n \div TenTo(w - i) \in Nat
    OBVIOUS
  <2>1. w - i \in Nat
    OBVIOUS
  <2>2. TenTo(w - i) \in Nat /\ TenTo(w - i) >= 1
    BY <2>1, TenToPositive
  <2> QED
    BY <2>2
<1>2. \A i \in 1..w : d[i] \in 0..9
  <2> SUFFICES ASSUME NEW i \in 1..w PROVE d[i] \in 0..9
    OBVIOUS
  <2> DEFINE v == n \div TenTo(w - i)
  <2>1. v \in Nat /\ d[i] = v % 10
    BY <1>0, <1>1
  <2> HIDE DEF v
  <2>2. v % 10 \in 0..9
    BY <2>1
  <2> QED
    BY <2>1, <2>2
<1>3. DOMAIN d = 1..w /\ d \in [1..w -> 0..9]
  BY <1>0, <1>2
<1>4. d \in Seq(0..9) /\ Len(d) = w
  BY <1>3
<1> DEFINE r == Readings(d)
           Upto == {j \in Nat : j <= w => r[j] = n \div TenTo(w - j)}
<1>5. r[0] = 0 /\ \A k \in 1..w : r[k] = 10 * r[k - 1] + d[k]
  BY <1>4, ReadingsStep
<1> HIDE DEF r
<1>6. 0 \in Upto
  <2> DEFINE p == TenTo(w)
  <2>1. p \in Nat /\ p >= 1 /\ n < p /\ w - 0 = w
    BY TenToPositive
  <2> HIDE DEF p
  <2>2. n \div p = 0
    BY <2>1
  <2> QED
    BY <1>5, <2>1, <2>2 DEF p
<1>7. \A j \in Nat : j \in Upto => j + 1 \in Upto
  <2> SUFFICES ASSUME NEW j \in Nat, j \in Upto, j + 1 <= w PROVE r[j + 1] = n \div TenTo(w - (j + 1))
    OBVIOUS
  <2> DEFINE p == TenTo(w - (j + 1))
             v == n \div p
  <2>1. j + 1 \in 1..w /\ (j + 1) - 1 = j /\ w - (j + 1) \in Nat /\ (w - (j + 1)) + 1 = w - j
    OBVIOUS
  <2>2. r[j + 1] = 10 * r[j] + d[j + 1] /\ r[j] = n \div TenTo(w - j)
    BY <1>5, <2>1
  <2>3. p \in Nat /\ p >= 1 /\ TenTo(w - j) = 10 * p
    BY <2>1, TenToPositive, TenToNext
  <2>4. d[j + 1] = v % 10 /\ v \in Nat
    BY <1>0, <1>1, <2>1
  <2> HIDE DEF p
  <2>5. n \div (10 * p) = v \div 10
    BY <2>3, ShiftRight
  <2> HIDE DEF v
  <2>6. 10 * (v \div 10) + (v % 10) = v
    BY <2>4
  <2> QED
    BY <2>2, <2>3, <2>4, <2>5, <2>6 DEF v, p
<1>8. Nat \subseteq Upto
  <2> HIDE DEF Upto
  <2> QED
    BY <1>6, <1>7, SetInduction
<1>9. \A j \in 0..w : r[j] = n \div TenTo(w - j)
  BY <1>8
<1> QED
  BY <1>4, <1>9 DEF r, d

\* Trimming what is trimmed cuts nothing off.
LEMMA TrimOnce ==
    ASSUME NEW s \in Seq(0..9)
    PROVE  TrimZeros(TrimZeros(s)) = TrimZeros(s)
<1>1. PICK t \in 0..Len(s) : /\ TrimZeros(s) = SubSeq(s, 1, t)
                             /\ \A i \in (t + 1)..Len(s) : s[i] = 0
                             /\ t > 0 => s[t] # 0
  BY TrimCutsZeros
<1> DEFINE z == TrimZeros(s)
<1>2. z \in Seq(0..9) /\ Len(z) = t /\ \A i \in 1..t : z[i] = s[i]
  BY <1>1
<1> HIDE DEF z
<1>3. PICK u \in 0..Len(z) : /\ TrimZeros(z) = SubSeq(z, 1, u)
                             /\ \A i \in (u + 1)..Len(z) : z[i] = 0
  BY <1>2, TrimCutsZeros
<1>4. u = t
  <2> SUFFICES ASSUME u # t PROVE FALSE
    OBVIOUS
  <2>1. t \in (u + 1)..Len(z) /\ t > 0 /\ t \in 1..t
    BY <1>2, <1>3
  <2> QED
    BY <1>1, <1>2, <1>3, <2>1
<1>5. SubSeq(z, 1, t) = z
  BY <1>2
<1> QED
  BY <1>3, <1>4, <1>5 DEF z

\* What is written and how much of it: w digits of a's magnitude, of whose
\* fraction the first t are kept, and these and the whole part stand for k.
Written(a, w, t, k) ==
    LET m    == Magnitude(a.units)
        d    == Digits(m, a.scale + 1)
        rest == SubSeq(d, w - a.scale + 1, w)
    IN  /\ Wide(m, a.scale + 1, w) /\ d \in Seq(0..9) /\ Len(d) = w
        /\ d = LastDigits(m, w)
        /\ rest \in Seq(0..9) /\ Len(rest) = a.scale
        /\ t \in 0..a.scale /\ TrimZeros(rest) = SubSeq(rest, 1, t)
        /\ k \in Nat /\ m = k * TenTo(a.scale - t)
        /\ DigitsValue(SubSeq(d, 1, w - a.scale) \o SubSeq(rest, 1, t)) = k

LEMMA AmountIsWritten ==
    ASSUME NEW a \in AmountSet
    PROVE  \E w, t, k : Written(a, w, t, k)
<1> DEFINE m == Magnitude(a.units)
           s == a.scale
           d == Digits(m, s + 1)
<1>1. m \in Nat /\ s \in Nat /\ s + 1 \in Nat /\ s + 1 >= 1
  <2>1. a.units \in Int /\ s \in Nat
    BY WidthAssumption DEF AmountSet, MachineInt, MinInt
  <2> QED
    BY <2>1 DEF Magnitude
<1> HIDE DEF m, s
<1>2. PICK w \in Nat : Wide(m, s + 1, w) /\ d = LastDigits(m, w)
  BY <1>1, DigitsWidth
<1> HIDE DEF d
<1>3. w >= s + 1 /\ m < TenTo(w)
  BY <1>2 DEF Wide
<1>4. d \in Seq(0..9) /\ Len(d) = w /\ \A j \in 0..w : Readings(d)[j] = m \div TenTo(w - j)
  BY <1>1, <1>2, <1>3, DigitsAreRead
<1> DEFINE whole == SubSeq(d, 1, w - s)
           rest == SubSeq(d, w - s + 1, w)
<1> DEFINE o == w - s
<1>17. o \in Nat /\ o + s = w /\ o <= Len(d)
  BY <1>1, <1>3, <1>4
<1>5. /\ whole \in Seq(0..9) /\ Len(whole) = w - s /\ w - s \in Nat
      /\ \A i \in 1..(w - s) : whole[i] = d[i]
  <2> HIDE DEF o
  <2>1. SubSeq(d, 1, o) \in Seq(0..9) /\ Len(SubSeq(d, 1, o)) = o /\ \A i \in 1..o : SubSeq(d, 1, o)[i] = d[i]
    BY <1>4, <1>17, FirstDigits
  <2> QED
    BY <1>17, <2>1 DEF o
<1>6. rest \in Seq(0..9) /\ Len(rest) = s /\ \A i \in 1..s : rest[i] = d[w - s + i]
  <2> HIDE DEF o
  <2>1. /\ SubSeq(d, o + 1, o + s) \in Seq(0..9) /\ Len(SubSeq(d, o + 1, o + s)) = s
        /\ \A i \in 1..s : SubSeq(d, o + 1, o + s)[i] = d[o + i]
    BY <1>1, <1>4, <1>17, LaterDigits
  <2> QED
    BY <1>17, <2>1 DEF o
<1> HIDE DEF o
<1>7. whole \o rest = d
  BY <1>1, <1>3, <1>4, <1>5, <1>6
<1> HIDE DEF whole, rest
<1>8. PICK t \in 0..s : /\ TrimZeros(rest) = SubSeq(rest, 1, t)
                        /\ \A i \in (t + 1)..s : rest[i] = 0
  BY <1>6, TrimCutsZeros
<1> DEFINE n == w - s + t
           k == Readings(d)[n]
<1>9. DigitsValue(whole \o SubSeq(rest, 1, t)) = k
  <2>1. t \in 0..Len(rest)
    BY <1>6, <1>8
  <2>2. DigitsValue(whole \o SubSeq(rest, 1, t)) = Readings(whole \o rest)[Len(whole) + t]
    BY <1>5, <1>6, <2>1, PrefixValue
  <2>3. Len(whole) = w - s
    BY <1>5
  <2> QED
    BY <1>7, <2>2, <2>3
<1>10. n \in Nat /\ s - t \in Nat /\ n + (s - t) = w /\ n \in 0..w
  BY <1>1, <1>3, <1>8
<1>11. k \in Nat
  BY <1>4, <1>10, ReadingsStep
<1>12. \A i \in (n + 1)..(n + (s - t)) : d[i] = 0
  <2> SUFFICES ASSUME NEW i \in (n + 1)..w PROVE d[i] = 0
    BY <1>10
  <2>1. i - (w - s) \in (t + 1)..s /\ i - (w - s) \in 1..s /\ w - s + (i - (w - s)) = i
    BY <1>1, <1>3, <1>8
  <2> QED
    BY <1>6, <1>8, <2>1
<1> HIDE DEF n
<1>13. Readings(d)[n + (s - t)] = k * TenTo(s - t)
  <2> DEFINE j == s - t
  <2>1. j \in Nat /\ n + j <= Len(d) /\ n \in Nat /\ d \in Seq(0..9) /\ \A i \in (n + 1)..(n + j) : d[i] = 0
    BY <1>4, <1>10, <1>12
  <2> HIDE DEF j
  <2>2. Readings(d)[n + j] = Readings(d)[n] * TenTo(j)
    BY <2>1, MoreDigits
  <2> QED
    BY <2>2 DEF j
<1>14. m = k * TenTo(s - t)
  <2>1. w \in 0..w /\ w - w = 0
    OBVIOUS
  <2>2. Readings(d)[w] = m \div 1
    BY <1>4, <2>1, TenToZero
  <2>3. m \div 1 = m
    BY <1>1
  <2> QED
    BY <1>10, <1>13, <2>2, <2>3
<1> HIDE DEF k
<1> DEFINE Holds(v, u) ==
             /\ Wide(m, s + 1, w) /\ d \in Seq(0..9) /\ Len(d) = w
             /\ d = LastDigits(m, w)
             /\ rest \in Seq(0..9) /\ Len(rest) = s
             /\ u \in 0..s /\ TrimZeros(rest) = SubSeq(rest, 1, u)
             /\ v \in Nat /\ m = v * TenTo(s - u)
             /\ DigitsValue(whole \o SubSeq(rest, 1, u)) = v
<1>15. Holds(k, t)
  BY <1>2, <1>4, <1>6, <1>8, <1>9, <1>11, <1>14
<1>16. Holds(k, t) = Written(a, w, t, k)
  BY DEF Written, m, s, d, whole, rest
<1> QED
  BY <1>15, <1>16

\* The sign and the two parts of a text, and what is read from it.
LEMMA WrittenText ==
    ASSUME NEW a \in AmountSet, a.units # MinInt, a.units # 0, NEW w, NEW t, NEW k, Written(a, w, t, k)
    PROVE  LET d    == Digits(Magnitude(a.units), a.scale + 1)
               rest == SubSeq(d, w - a.scale + 1, w)
           IN  /\ String(a) = [sign |-> IF a.units < 0 THEN "-" ELSE "",
                               whole |-> SubSeq(d, 1, w - a.scale), fraction |-> SubSeq(rest, 1, t)]
               /\ ParseAmount(String(a)) = read(IF a.units < 0 THEN -k ELSE k, t)
               /\ k # 0 /\ k <= Magnitude(a.units) /\ Magnitude(a.units) <= MaxInt
<1> DEFINE m == Magnitude(a.units)
           s == a.scale
           d == Digits(m, s + 1)
           rest == SubSeq(d, w - s + 1, w)
           whole == SubSeq(d, 1, w - s)
           text == String(a)
<1>1. /\ Wide(m, s + 1, w) /\ d \in Seq(0..9) /\ Len(d) = w
      /\ rest \in Seq(0..9) /\ Len(rest) = s
      /\ t \in 0..s /\ TrimZeros(rest) = SubSeq(rest, 1, t)
      /\ k \in Nat /\ m = k * TenTo(s - t)
      /\ DigitsValue(whole \o SubSeq(rest, 1, t)) = k
  BY DEF Written
<1>2. text = [sign |-> IF a.units < 0 THEN "-" ELSE "", whole |-> whole, fraction |-> SubSeq(rest, 1, t)]
  BY <1>1 DEF String
<1>3. m \in Nat /\ m # 0 /\ m <= MaxInt /\ s \in 0..MaxScale /\ s \in Nat
  <2>1. a.units \in MinInt..MaxInt /\ a.units \in Int /\ s \in 0..MaxScale /\ MinInt = -MaxInt - 1
    BY WidthAssumption DEF AmountSet, MachineInt, MinInt
  <2> QED
    BY <2>1, WidthAssumption DEF Magnitude
<1>4. w \in Nat /\ w >= s + 1
  BY <1>1 DEF Wide
<1> HIDE DEF m, s, d
<1>5. whole \in Seq(0..9) /\ Len(whole) = w - s /\ w - s >= 1
  <2> DEFINE o == w - s
  <2>1. o \in Nat /\ o >= 1 /\ o <= Len(d)
    BY <1>1, <1>3, <1>4
  <2> HIDE DEF o
  <2>2. SubSeq(d, 1, o) \in Seq(0..9) /\ Len(SubSeq(d, 1, o)) = o
    BY <1>1, <2>1, FirstDigits
  <2> QED
    BY <2>1, <2>2 DEF o
<1>6. SubSeq(rest, 1, t) \in Seq(0..9) /\ Len(SubSeq(rest, 1, t)) = t
  <2> HIDE DEF rest
  <2>1. t \in Nat /\ t <= Len(rest)
    BY <1>1, <1>3
  <2> QED
    BY <1>1, <2>1, FirstDigits
<1>7. TrimZeros(SubSeq(rest, 1, t)) = SubSeq(rest, 1, t)
  <2> HIDE DEF rest
  <2> QED
    BY <1>1, TrimOnce
<1>8. k # 0 /\ k <= m
  <2> DEFINE p == TenTo(s - t)
  <2>1. s - t \in Nat
    BY <1>1, <1>3
  <2>2. p \in Nat /\ p >= 1
    BY <2>1, TenToPositive
  <2> HIDE DEF p
  <2>3. k <= k * p /\ (k = 0 => k * p = 0)
    BY <1>1, <2>2
  <2> QED
    BY <1>1, <1>3, <2>3 DEF p
<1> HIDE DEF rest, whole, text
<1>9. text # Malformed
  BY <1>2 DEF Malformed
<1> DEFINE kept == SubSeq(rest, 1, t)
<1>10. whole \o kept # <<>>
  <2> HIDE DEF kept
  <2>1. Len(whole \o kept) = (w - s) + t /\ Len(<<>>) = 0
    BY <1>5, <1>6 DEF kept
  <2> QED
    BY <1>1, <1>3, <1>5, <2>1
<1>11. ~(Len(kept) > MaxScale) /\ Len(kept) = t
  BY <1>1, <1>3, <1>6, WidthAssumption
<1>12. k \in Nat /\ ~(k > MaxInt)
  BY <1>1, <1>3, <1>8, WidthAssumption
<1> HIDE DEF kept
<1>13. ParseAmount(text) = read(IF text.sign = "-" THEN -k ELSE k, t)
  <2>1. text.fraction = kept /\ text.whole = whole /\ TrimZeros(kept) = kept /\ DigitsValue(whole \o kept) = k
    BY <1>1, <1>2, <1>7 DEF kept
  <2> QED
    BY <1>8, <1>9, <1>10, <1>11, <1>12, <2>1 DEF ParseAmount
<1>14. (text.sign = "-") <=> (a.units < 0)
  BY <1>2
<1>15. ParseAmount(text) = read(IF a.units < 0 THEN -k ELSE k, t)
  BY <1>13, <1>14
<1> QED
  BY <1>2, <1>3, <1>8, <1>15 DEF m, s, d, rest, whole, text, kept

\* What is read back from a text is written with the digits of the text.
LEMMA SameDigitsAgain ==
    ASSUME NEW m \in Nat, NEW k \in Nat, NEW s \in Nat, NEW t \in 0..s, NEW w,
           Wide(m, s + 1, w), m = k * TenTo(s - t)
    PROVE  Digits(k, t + 1) = SubSeq(LastDigits(m, w), 1, w - (s - t))
<1> DEFINE j == s - t
           p == TenTo(j)
           v == w - j
           d == LastDigits(m, w)
<1>1. w \in Nat /\ w >= s + 1 /\ m < TenTo(w) /\ (w > s + 1 => m >= TenTo(w - 1))
  BY DEF Wide
<1>2. j \in Nat /\ v \in Nat /\ v >= t + 1 /\ t \in Nat /\ t + 1 \in Nat /\ j + v = w
  BY <1>1
<1>3. p \in Nat /\ p >= 1
  BY <1>2, TenToPositive
<1>4. \A i \in Nat : i <= v => TenTo(w - i) = p * TenTo(v - i) /\ TenTo(v - i) \in Nat /\ TenTo(v - i) >= 1
  <2> SUFFICES ASSUME NEW i \in Nat, i <= v
               PROVE  TenTo(w - i) = p * TenTo(v - i) /\ TenTo(v - i) \in Nat /\ TenTo(v - i) >= 1
    OBVIOUS
  <2>1. v - i \in Nat /\ j + (v - i) = w - i
    BY <1>1, <1>2
  <2> HIDE DEF j, v
  <2> QED
    BY <1>2, <2>1, TenToSum, TenToPositive
<1>5. m = k * p
  OBVIOUS
<1> HIDE DEF j, p, v
<1>6. Wide(k, t + 1, v)
  <2>1. k < TenTo(v)
    <3> DEFINE q == TenTo(v)
    <3>1. w - 0 = w /\ v - 0 = v
      BY <1>1, <1>2
    <3>2. TenTo(w) = p * q /\ q \in Nat
      BY <1>2, <1>4, <3>1
    <3> HIDE DEF q
    <3>3. k * p < p * q
      BY <1>1, <1>5, <3>2
    <3>4. ~(k >= q)
      <4>1. k >= q => k * p >= q * p
        BY <1>3, <3>2
      <4>2. q * p = p * q /\ k * p \in Nat /\ q * p \in Nat
        BY <1>3, <3>2
      <4> QED
        BY <3>3, <4>1, <4>2
    <3> QED
      BY <3>2, <3>4 DEF q
  <2>2. ASSUME v > t + 1 PROVE k >= TenTo(v - 1)
    <3> DEFINE q == TenTo(v - 1)
    <3>1. w > s + 1
      BY <1>1, <1>2, <2>2 DEF j, v
    <3>2. TenTo(w - 1) = p * q /\ q \in Nat
      <4>1. 1 \in Nat /\ 1 <= v
        BY <1>2
      <4> QED
        BY <1>4, <4>1
    <3> HIDE DEF q
    <3>3. k * p >= p * q
      BY <1>1, <1>5, <3>1, <3>2
    <3>4. ~(k < q)
      <4>1. k < q => (k + 1) * p <= q * p
        BY <1>3, <3>2
      <4>2. q * p = p * q /\ (k + 1) * p = k * p + p /\ k * p \in Nat /\ q * p \in Nat
        BY <1>3, <3>2
      <4> QED
        BY <1>3, <3>3, <4>1, <4>2
    <3> QED
      BY <3>2, <3>4 DEF q
  <2> QED
    BY <1>2, <2>1, <2>2 DEF Wide
<1>7. PICK x \in Nat : Wide(k, t + 1, x) /\ Digits(k, t + 1) = LastDigits(k, x)
  <2>1. t + 1 >= 1
    BY <1>2
  <2> QED
    BY <1>2, <2>1, DigitsWidth
<1>8. x = v
  BY <1>2, <1>6, <1>7, OneWidth
<1>9. \A i \in 1..v : LastDigits(k, v)[i] = d[i]
  <2> SUFFICES ASSUME NEW i \in 1..v PROVE LastDigits(k, v)[i] = d[i]
    OBVIOUS
  <2> DEFINE q == TenTo(v - i)
  <2>1. i \in Nat /\ i <= v /\ i \in 1..w
    BY <1>1, <1>2
  <2>2. TenTo(w - i) = p * q /\ q \in Nat /\ q >= 1
    BY <1>4, <2>1
  <2>3. LastDigits(k, v)[i] = (k \div q) % 10
    BY DEF LastDigits
  <2>4. d[i] = (m \div TenTo(w - i)) % 10
    BY <2>1 DEF LastDigits
  <2> HIDE DEF q, d
  <2>5. m \div (p * q) = (m \div p) \div q
    <3> DEFINE more == p * q
    <3>1. more \in Nat /\ more = p * q
      BY <1>3, <2>2
    <3> HIDE DEF more
    <3>2. Over(m, more) = Over(Over(m, p), q)
      BY <1>3, <2>2, <3>1, DivideTwice
    <3> QED
      BY <3>2 DEF more, Over
  <2>6. m \div p = k
    <3>1. k * p = p * k + 0 /\ p * k \in Nat
      BY <1>3
    <3> DEFINE e == m \div p
               z == m % p
    <3>2. e \in Nat /\ z \in 0..(p - 1) /\ m = p * e + z
      BY <1>3
    <3> HIDE DEF e, z
    <3>3. p * e + z = p * k
      BY <1>5, <3>1, <3>2
    <3>4. ~(e < k)
      <4>1. e < k => p * (e + 1) <= p * k
        BY <1>3, <3>2
      <4>2. p * (e + 1) = p * e + p /\ p * e \in Nat
        BY <1>3, <3>2
      <4> QED
        BY <1>3, <3>1, <3>2, <3>3, <4>1, <4>2
    <3>5. ~(k < e)
      <4>1. k < e => p * (k + 1) <= p * e
        BY <1>3, <3>2
      <4>2. p * (k + 1) = p * k + p /\ p * e \in Nat
        BY <1>3, <3>2
      <4> QED
        BY <1>3, <3>1, <3>2, <3>3, <4>1, <4>2
    <3> QED
      BY <3>2, <3>4, <3>5 DEF e
  <2> QED
    BY <2>2, <2>3, <2>4, <2>5, <2>6
<1>10. SubSeq(d, 1, v) = [i \in 1..v |-> d[i]]
  <2>1. d \in Seq(0..9) /\ Len(d) = w /\ v <= w
    BY <1>1, <1>2, DigitsAreRead
  <2> HIDE DEF d
  <2> QED
    BY <1>2, <2>1
<1>11. LastDigits(k, v) = [i \in 1..v |-> LastDigits(k, v)[i]]
  BY DEF LastDigits
<1> HIDE DEF d
<1>12. LastDigits(k, v) = SubSeq(d, 1, v)
  BY <1>9, <1>10, <1>11
<1> QED
  BY <1>7, <1>8, <1>12 DEF d, v, j

\* TextKeepsValue, of one amount.
ReadsBack(a) ==
    LET again == ParseAmount(String(a))
    IN  /\ again.ok /\ Equal(again.amount, a)
        /\ String(again.amount) = String(a)

\* An amount raised to the scale of another that has fewer trailing zeros.
LEMMA EqualOnceRaised ==
    ASSUME NEW a \in AmountSet, NEW b \in AmountSet, b.scale <= a.scale, InRange(a.units),
           a.units = b.units * TenTo(a.scale - b.scale)
    PROVE  Equal(b, a)
<1> DEFINE by == a.scale - b.scale
<1>1. /\ a.scale \in Nat /\ b.scale \in Nat /\ by \in Nat /\ a.units \in Int
      /\ a.units \in MachineInt /\ b.units \in MachineInt
  BY WidthAssumption DEF AmountSet, MachineInt, MinInt
<1>2. a.scale - a.scale = 0 /\ a.units * 1 = a.units
  BY <1>1
<1>3. Raised(a.units, 0) = a.units
  <2>1. 0 \in Nat /\ InRange(a.units * TenTo(0))
    BY <1>2, TenToZero
  <2>2. Raised(a.units, 0) = a.units * TenTo(0)
    BY <1>1, <2>1, RaisedIsExact
  <2> QED
    BY <1>2, <2>2, TenToZero
<1>4. Raised(b.units, by) = a.units
  <2>1. InRange(b.units * TenTo(by))
    OBVIOUS
  <2> HIDE DEF by
  <2>2. Raised(b.units, by) = b.units * TenTo(by)
    BY <1>1, <2>1, RaisedIsExact
  <2> QED
    BY <2>2 DEF by
<1>5. align(b, a) = [x |-> a.units, y |-> a.units, scale |-> a.scale]
  <2>1. (IF b.scale < a.scale THEN a.scale ELSE b.scale) = a.scale
    BY <1>1
  <2> QED
    BY <1>2, <1>3, <1>4, <2>1 DEF align
<1>6. Compare(b, a) = 0
  BY <1>1, <1>5 DEF Compare
<1> QED
  BY <1>6 DEF Equal

LEMMA NothingIsKept ==
    ASSUME NEW a \in AmountSet, a.units = 0
    PROVE  ReadsBack(a)
<1> DEFINE s == a.scale
           text == [sign |-> "", whole |-> <<0>>, fraction |-> <<>>]
<1>1. s \in Nat /\ s + 1 \in Nat /\ s + 1 >= 1 /\ a.units # MinInt /\ Magnitude(a.units) = 0
  BY WidthAssumption DEF AmountSet, Magnitude, MinInt
<1>2. \A n \in Nat : \A b : b.units = 0 /\ b.scale = n => String(b) = text
  <2> SUFFICES ASSUME NEW n \in Nat, NEW b, b.units = 0, b.scale = n PROVE String(b) = text
    OBVIOUS
  <2>1. n + 1 \in Nat /\ n + 1 >= 1
    OBVIOUS
  <2>2. PICK w \in Nat : Wide(0, n + 1, w) /\ Digits(0, n + 1) = LastDigits(0, w)
    BY <2>1, DigitsWidth
  <2>3. w = n + 1
    <3>1. n + 1 - 1 \in Nat /\ w >= n + 1
      BY <2>2 DEF Wide
    <3>2. w > n + 1 => w - 1 \in Nat /\ 0 >= TenTo(w - 1)
      BY <2>2, <3>1 DEF Wide
    <3>3. w > n + 1 => FALSE
      BY <3>2, TenToPositive
    <3> QED
      BY <3>1, <3>3
  <2> DEFINE d == LastDigits(0, w)
  <2>4. d \in Seq(0..9) /\ Len(d) = w
    <3>1. 0 < TenTo(w)
      BY TenToPositive
    <3> QED
      BY <3>1, DigitsAreRead
  <2>5. d[1] = 0
    <3>1. d[1] = (0 \div TenTo(w - 1)) % 10
      BY <2>3 DEF LastDigits
    <3>2. w - 1 \in Nat
      BY <2>3
    <3> DEFINE p == TenTo(w - 1)
    <3>3. p \in Nat /\ p >= 1
      BY <3>2, TenToPositive
    <3> HIDE DEF p
    <3>4. 0 \div p = 0
      BY <3>3
    <3>5. 0 % 10 = 0
      OBVIOUS
    <3> QED
      BY <3>1, <3>4, <3>5 DEF p
  <2> HIDE DEF d
  <2>6. SubSeq(d, 1, w - n) = <<0>>
    <3>1. w - n = 1
      BY <2>3
    <3> DEFINE x == SubSeq(d, 1, 1)
               y == <<0>>
    <3>2. x \in Seq(0..9) /\ Len(x) = 1 /\ x[1] = 0
      BY <2>3, <2>4, <2>5
    <3>3. y \in Seq(0..9) /\ Len(y) = 1 /\ y[1] = 0
      OBVIOUS
    <3>4. x = SubSeq(d, 1, w - n)
      BY <3>1
    <3> HIDE DEF x, y
    <3>5. x = y
      BY <3>2, <3>3
    <3> QED
      BY <3>4, <3>5 DEF y
  <2>7. b.units # MinInt /\ Magnitude(b.units) = 0 /\ ~(b.units < 0)
    BY WidthAssumption DEF MinInt, Magnitude
  <2> QED
    BY <2>2, <2>4, <2>6, <2>7 DEF String, d
<1>3. String(a) = text
  BY <1>1, <1>2
<1>4. ParseAmount(text) = read(0, 0)
  <2>1. <<>> \in Seq(0..9) /\ Len(<<>>) = 0
    OBVIOUS
  <2>2. TrimZeros(<<>>) = <<>>
    BY DEF TrimZeros
  <2>3. <<0>> \o <<>> = <<0>> /\ <<0>> # <<>>
    OBVIOUS
  <2>4. DigitsValue(<<0>>) = 0
    <3> DEFINE z == <<0>>
    <3>1. z \in Seq(0..9) /\ Len(z) = 1 /\ z[1] = 0 /\ 1 \in 1..1 /\ 1 - 1 = 0
      OBVIOUS
    <3> HIDE DEF z
    <3>2. DigitsValue(z) = Readings(z)[1] /\ Readings(z)[0] = 0 /\ Readings(z)[1] = 10 * Readings(z)[1 - 1] + z[1]
      BY <3>1, ReadingsStep
    <3> QED
      BY <3>1, <3>2 DEF z
  <2>5. text # Malformed
    BY DEF Malformed
  <2>6. text.whole = <<0>> /\ text.fraction = <<>> /\ ~(0 > MaxScale)
    BY WidthAssumption
  <2> QED
    BY <2>1, <2>2, <2>3, <2>4, <2>5, <2>6 DEF ParseAmount
<1>5. read(0, 0).ok /\ read(0, 0).amount = Zero
  BY DEF read, Zero
<1>6. Zero \in AmountSet /\ Zero.units = 0 /\ Zero.scale = 0 /\ InRange(a.units)
  BY WidthAssumption DEF Zero, AmountSet, MachineInt, MinInt, InRange
<1>7. Equal(Zero, a)
  <2> DEFINE p == TenTo(a.scale - Zero.scale)
  <2>1. a.scale - Zero.scale \in Nat /\ Zero.scale <= a.scale
    BY <1>1, <1>6
  <2>2. p \in Nat
    BY <2>1, TenToPositive
  <2> HIDE DEF p
  <2>3. a.units = Zero.units * p
    BY <1>6, <2>2
  <2> QED
    BY <1>6, <2>1, <2>3, EqualOnceRaised DEF p
<1>8. String(Zero) = text
  BY <1>2, <1>6
<1> QED
  BY <1>3, <1>4, <1>5, <1>7, <1>8 DEF ReadsBack

\* What is read from a text that was written is what was written, and is
\* written the same way again: no digit is lost but trailing zeros of the fraction.
LEMMA AmountIsKept ==
    ASSUME NEW a \in AmountSet, a.units # MinInt
    PROVE  ReadsBack(a)
<1>1. CASE a.units = 0
  BY <1>1, NothingIsKept
<1>2. CASE a.units # 0
  <2> DEFINE s == a.scale
             m == Magnitude(a.units)
             d == Digits(m, s + 1)
  <2>1. PICK w, t, k : Written(a, w, t, k)
    BY AmountIsWritten
  <2> DEFINE rest == SubSeq(d, w - s + 1, w)
             kept == SubSeq(rest, 1, t)
             units == IF a.units < 0 THEN -k ELSE k
             b == [units |-> units, scale |-> t]
  <2>2. String(a) = [sign |-> IF a.units < 0 THEN "-" ELSE "",
                     whole |-> SubSeq(d, 1, w - s), fraction |-> kept]
    BY <1>2, <2>1, WrittenText
  <2>22. ParseAmount(String(a)) = read(units, t)
    BY <1>2, <2>1, WrittenText
  <2>18. k # 0 /\ k <= m /\ m <= MaxInt
    BY <1>2, <2>1, WrittenText
  <2>3. t \in 0..s /\ k \in Nat
    BY <2>1 DEF Written
  <2>19. Wide(m, s + 1, w) /\ d = LastDigits(m, w) /\ m = k * TenTo(s - t)
    BY <2>1 DEF Written
  <2>20. d \in Seq(0..9) /\ Len(d) = w /\ rest \in Seq(0..9) /\ Len(rest) = s
    BY <2>1 DEF Written
  <2>21. TrimZeros(rest) = kept
    BY <2>1 DEF Written
  <2>4. a.units \in Int /\ s \in Nat /\ s <= MaxScale /\ m \in Nat /\ MinInt = -MaxInt - 1 /\ MaxInt \in Nat
    BY WidthAssumption DEF AmountSet, MachineInt, MinInt, Magnitude
  <2>5. a.units = IF a.units < 0 THEN -m ELSE m
    BY <2>4 DEF Magnitude
  <2>6. w \in Nat /\ w >= s + 1 /\ s - t \in Nat
    BY <2>3, <2>4, <2>19 DEF Wide
  <2> HIDE DEF m, s, d, rest
  <2>7. b \in AmountSet /\ b.units # MinInt /\ b.units # 0 /\ Magnitude(b.units) = k
    <3>1. units \in MachineInt /\ units # MinInt /\ units # 0 /\ Magnitude(units) = k
      BY <2>3, <2>4, <2>18 DEF MachineInt, Magnitude
    <3>2. t \in 0..MaxScale
      BY <2>3, <2>4, WidthAssumption
    <3> HIDE DEF units
    <3> QED
      BY <3>1, <3>2 DEF AmountSet
  <2>8. Equal(b, a)
    <3> DEFINE p == TenTo(s - t)
    <3>1. p \in Nat
      BY <2>6, TenToPositive
    <3> HIDE DEF p
    <3>2. (-k) * p = -(k * p) /\ k * p = m
      BY <2>3, <2>19, <3>1 DEF p
    <3>3. a.units = units * p
      BY <2>5, <3>2
    <3>4. InRange(a.units)
      BY <2>4, <2>5, <2>18 DEF InRange
    <3>5. b.scale = t /\ b.units = units /\ b.scale <= a.scale
      BY <2>3, <2>4 DEF s
    <3> HIDE DEF b, units
    <3>6. a.units = b.units * TenTo(a.scale - b.scale)
      BY <3>3, <3>5 DEF p, s
    <3> QED
      BY <2>7, <3>4, <3>5, <3>6, EqualOnceRaised
  <2> DEFINE v == w - (s - t)
             e == Digits(k, t + 1)
  <2>9. e = SubSeq(d, 1, v)
    BY <2>3, <2>4, <2>19, SameDigitsAgain
  <2>10. v \in Nat /\ v <= w /\ v - t = w - s /\ v >= t + 1
    BY <2>3, <2>4, <2>6
  <2> HIDE DEF v, e
  <2>11. Len(e) = v /\ e \in Seq(0..9) /\ \A i \in 1..v : e[i] = d[i]
    BY <2>6, <2>9, <2>10, <2>20
  <2>12. SubSeq(e, 1, v - t) = SubSeq(d, 1, w - s)
    <3>1. w - s \in Nat /\ w - s <= v /\ w - s <= w
      BY <2>3, <2>4, <2>6, <2>10
    <3>2. SubSeq(e, 1, w - s) = [i \in 1..(w - s) |-> e[i]]
      BY <2>11, <3>1
    <3>3. SubSeq(d, 1, w - s) = [i \in 1..(w - s) |-> d[i]]
      BY <2>20, <3>1
    <3>4. \A i \in 1..(w - s) : e[i] = d[i]
      BY <2>11, <3>1, <2>10
    <3> QED
      BY <2>10, <3>2, <3>3, <3>4
  <2>13. SubSeq(e, v - t + 1, v) = kept
    <3>1. Len(SubSeq(e, v - t + 1, v)) = t /\ \A i \in 1..t : SubSeq(e, v - t + 1, v)[i] = e[w - s + i]
      BY <2>3, <2>4, <2>10, <2>11
    <3>2. Len(kept) = t /\ \A i \in 1..t : kept[i] = d[w - s + i]
      <4>1. \A i \in 1..s : rest[i] = d[w - s + i]
        <5> DEFINE o == w - s
        <5>1. o \in Nat /\ o + s = w /\ s \in Nat
          BY <2>4, <2>6
        <5>2. rest = SubSeq(d, o + 1, w) /\ d \in Seq(0..9) /\ Len(d) = w
          BY <2>20 DEF rest
        <5> HIDE DEF o
        <5>3. \A i \in 1..s : rest[i] = d[o + i]
          BY <5>1, <5>2
        <5> QED
          BY <5>3 DEF o
      <4>2. t \in Nat /\ s \in Nat /\ t <= s
        BY <2>3, <2>4
      <4>3. Len(kept) = t /\ \A i \in 1..t : kept[i] = rest[i]
        BY <2>20, <4>2
      <4> HIDE DEF kept
      <4> QED
        BY <4>1, <4>2, <4>3
    <3>3. \A i \in 1..t : e[w - s + i] = d[w - s + i]
      BY <2>3, <2>4, <2>6, <2>10, <2>11
    <3>4. SubSeq(e, v - t + 1, v) \in Seq(0..9) /\ kept \in Seq(0..9)
      <4>1. t \in Nat /\ t <= Len(rest)
        BY <2>3, <2>4, <2>20
      <4>2. kept \in Seq(0..9)
        BY <2>20, <4>1, FirstDigits
      <4> DEFINE o == v - t
      <4>3. o \in Nat /\ o + t = v /\ o + t <= Len(e) /\ e \in Seq(0..9)
        BY <2>10, <2>11, <4>1
      <4> HIDE DEF o, kept
      <4>4. SubSeq(e, o + 1, o + t) \in Seq(0..9)
        BY <4>1, <4>3, LaterDigits
      <4> QED
        BY <4>2, <4>3, <4>4 DEF o
    <3> DEFINE x == SubSeq(e, v - t + 1, v)
    <3> HIDE DEF x, kept
    <3>5. Len(x) = t /\ Len(kept) = t /\ \A i \in 1..t : x[i] = kept[i]
      BY <3>1, <3>2, <3>3 DEF x
    <3>6. x \in Seq(0..9)
      BY <3>4 DEF x
    <3>7. x = kept
      BY <3>4, <3>5, <3>6
    <3> QED
      BY <3>7 DEF x
  <2>14. TrimZeros(kept) = kept
    BY <2>20, <2>21, TrimOnce
  <2>15. (b.units < 0) <=> (a.units < 0)
    BY <2>3, <2>4, <2>18
  <2>16. String(b) = String(a)
    <3>1. b.scale = t
      OBVIOUS
    <3> HIDE DEF b, kept
    <3>2. String(b) = [sign |-> IF b.units < 0 THEN "-" ELSE "",
                       whole |-> SubSeq(e, 1, v - t), fraction |-> TrimZeros(SubSeq(e, v - t + 1, v))]
      BY <2>7, <2>11, <3>1 DEF String, e
    <3>3. (IF b.units < 0 THEN "-" ELSE "") = (IF a.units < 0 THEN "-" ELSE "")
      BY <2>15
    <3> DEFINE x == String(a)
               y == String(b)
               z == IF a.units < 0 THEN "-" ELSE ""
    <3>4. x = [sign |-> z, whole |-> SubSeq(d, 1, w - s), fraction |-> kept]
      BY <2>2
    <3>5. y = [sign |-> z, whole |-> SubSeq(d, 1, w - s), fraction |-> kept]
      BY <2>12, <2>13, <2>14, <3>2, <3>3
    <3> HIDE DEF x, y, z
    <3> QED
      BY <3>4, <3>5 DEF x, y
  <2>17. ParseAmount(String(a)).ok /\ ParseAmount(String(a)).amount = b
    <3> DEFINE again == ParseAmount(String(a))
    <3>1. again = read(units, t)
      BY <2>22
    <3> HIDE DEF units, again
    <3>2. again.ok /\ again.amount = b
      BY <3>1 DEF read
    <3> QED
      BY <3>2 DEF again
  <2> HIDE DEF b
  <2> QED
    BY <2>8, <2>16, <2>17 DEF ReadsBack
<1> QED
  BY <1>1, <1>2

-----------------------------------------------------------------------------
(* Money, prices and their sums. *)

Moneys == [amount : AmountSet, currency : Currencies]

LEMMA NoMoneyIsMoney == NoMoney \in Moneys /\ Worth(NoMoney.amount) = 0
<1>1. Zero \in AmountSet
  BY WidthAssumption DEF Zero, AmountSet, MachineInt, MinInt
<1>2. NoMoney = [amount |-> Zero, currency |-> ""]
  BY DEF NoMoney, Money
<1>3. NoMoney \in Moneys
  BY <1>1, <1>2, WireAssumption DEF Moneys
<1>4. MaxScale - 0 \in Nat
  BY WidthAssumption
<1>5. TenTo(MaxScale - 0) \in Nat
  BY <1>4, TenToPositive
<1>6. Worth(Zero) = 0 * TenTo(MaxScale - 0)
  BY DEF Worth, Zero
<1>7. Worth(Zero) = 0
  BY <1>5, <1>6
<1> QED
  BY <1>2, <1>3, <1>7

LEMMA AddMoneyIsMoney ==
    ASSUME NEW m \in Moneys, NEW n \in Moneys
    PROVE  AddMoney(m, n) \subseteq Moneys
<1>1. Add(m.amount, n.amount) \in AmountSet
  BY AddIsAmount DEF Moneys
<1>2. combinedCurrency(m, n) \in Currencies
  BY DEF combinedCurrency, Moneys
<1>3. Money(Add(m.amount, n.amount), combinedCurrency(m, n)) \in Moneys
  BY <1>1, <1>2 DEF Money, Moneys
<1> QED
  BY <1>3 DEF AddMoney

LEMMA SubMoneyIsMoney ==
    ASSUME NEW m \in Moneys, NEW n \in Moneys
    PROVE  SubMoney(m, n) \subseteq Moneys
<1>1. Sub(m.amount, n.amount) \in AmountSet
  BY SubIsAmount DEF Moneys
<1>2. combinedCurrency(m, n) \in Currencies
  BY DEF combinedCurrency, Moneys
<1>3. Money(Sub(m.amount, n.amount), combinedCurrency(m, n)) \in Moneys
  BY <1>1, <1>2 DEF Money, Moneys
<1> QED
  BY <1>3 DEF SubMoney

\* The totals of ever more of a list's values.
Totals(values) ==
    CHOOSE f : f = [k \in 0..Len(values) |->
                      IF k = 0 THEN {NoMoney} ELSE UNION {AddMoney(t, values[k]) : t \in f[k - 1]}]

LEMMA TotalsRounds ==
    ASSUME NEW values \in Seq(Moneys)
    PROVE  /\ Sum(values) = Totals(values)[Len(values)]
           /\ Totals(values)[0] = {NoMoney}
           /\ \A k \in 1..Len(values) :
                 Totals(values)[k] = UNION {AddMoney(t, values[k]) : t \in Totals(values)[k - 1]}
           /\ \A k \in 0..Len(values) : Totals(values)[k] \subseteq Moneys
<1> DEFINE n == Len(values)
           S == SUBSET Moneys
           Step(f, k) == IF k = 0 THEN {NoMoney} ELSE UNION {AddMoney(t, values[k]) : t \in f[k - 1]}
           round == [k \in 1..n |-> [v \in S |-> UNION {AddMoney(t, values[k]) : t \in v}]]
<1>1. n \in Nat /\ \A k \in 1..n : values[k] \in Moneys
  OBVIOUS
<1> HIDE DEF n
<1>2. \A k \in 1..n : \A v \in S : UNION {AddMoney(t, values[k]) : t \in v} \in S
  BY <1>1, AddMoneyIsMoney
<1>3. round \in Rounds(n, S)
  <2> HIDE DEF S
  <2> QED
    BY <1>2 DEF Rounds
<1>4. {NoMoney} \in S
  BY NoMoneyIsMoney
<1>5. PICK f : IsRun(f, S, {NoMoney}, n, round)
  <2> DEFINE x == {NoMoney}
  <2> HIDE DEF round, S, x
  <2>1. x \in S
    BY <1>4 DEF x
  <2>2. \E f : IsRun(f, S, x, n, round)
    BY <1>1, <1>3, <2>1, LoopExists
  <2> QED
    BY <2>2 DEF x
<1>6. \A k \in 0..n : f[k] = Step(f, k)
  <2> SUFFICES ASSUME NEW k \in 0..n, k # 0 PROVE f[k] = Step(f, k)
    BY <1>5 DEF IsRun
  <2> HIDE DEF S
  <2>1. k \in 1..n /\ k - 1 \in 0..n /\ f[k - 1] \in S
    BY <1>1, <1>5 DEF IsRun
  <2>2. f[k] = round[k][f[k - 1]]
    BY <1>5, <2>1 DEF IsRun
  <2> QED
    BY <2>1, <2>2
<1>7. f = [k \in 0..n |-> Step(f, k)]
  <2> HIDE DEF Step, S
  <2> QED
    BY <1>5, <1>6 DEF IsRun
<1> DEFINE r == Totals(values)
<1>8. r = [k \in 0..n |-> Step(r, k)]
  <2>1. Totals(values) = CHOOSE g : g = [k \in 0..n |-> Step(g, k)]
    BY DEF Totals, n
  <2> HIDE DEF Step
  <2> QED
    BY <1>7, <2>1
<1>9. Sum(values) = r[n]
  BY DEF Sum, Totals, n
<1> HIDE DEF r
<1>10. r[0] = {NoMoney} /\ \A k \in 1..n : r[k] = UNION {AddMoney(t, values[k]) : t \in r[k - 1]}
  <2>1. \A k \in 0..n : r[k] = Step(r, k)
    <3> HIDE DEF Step
    <3> QED
      BY <1>8
  <2>2. 0 \in 0..n /\ \A k \in 1..n : k \in 0..n /\ k # 0
    BY <1>1
  <2> QED
    BY <2>1, <2>2
<1> DEFINE Upto == {k \in Nat : k <= n => r[k] \in S}
<1>11. 0 \in Upto
  BY <1>4, <1>10
<1>12. \A k \in Nat : k \in Upto => k + 1 \in Upto
  <2> SUFFICES ASSUME NEW k \in Nat, k \in Upto, k + 1 <= n PROVE r[k + 1] \in S
    OBVIOUS
  <2> HIDE DEF S
  <2>1. k + 1 \in 1..n /\ (k + 1) - 1 = k /\ r[k] \in S
    BY <1>1
  <2> QED
    BY <1>2, <1>10, <2>1
<1>13. \A k \in 0..n : r[k] \in S
  <2>1. Nat \subseteq Upto
    <3> HIDE DEF Upto
    <3> QED
      BY <1>11, <1>12, SetInduction
  <2> HIDE DEF S
  <2> QED
    BY <1>1, <2>1
<1> QED
  BY <1>9, <1>10, <1>13 DEF r, n

LEMMA SumIsMoney ==
    ASSUME NEW values \in Seq(Moneys)
    PROVE  Sum(values) \subseteq Moneys
<1>1. Len(values) \in 0..Len(values)
  OBVIOUS
<1> QED
  BY <1>1, TotalsRounds

\* A tax line as offers.mapTaxes leaves it.
TaxLine == [amount : Moneys, included : BOOLEAN, atProperty : BOOLEAN]

LEMMA ParsedIsMoney ==
    ASSUME NEW text \in AmountTexts, NEW currency \in Currencies
    PROVE  ParseMoney(text, currency) \in Moneys
<1>1. text.whole \in Seq(0..9) /\ text.fraction \in Seq(0..9)
  BY WireAssumption
<1>2. ParseAmount(text).amount \in AmountSet /\ Zero \in AmountSet
  BY <1>1, ParsedIsAmount, WidthAssumption DEF Zero, AmountSet, MachineInt, MinInt
<1> QED
  BY <1>2 DEF ParseMoney, Money, Moneys

\* Every line of the response becomes one.
LEMMA TaxesAreLines ==
    ASSUME NEW p \in PriceResponse
    PROVE  mapPrice(p).taxes \in Seq(TaxLine)
<1> DEFINE q == mapPrice(p)
           n == Len(p.taxes)
<1>1. /\ p.currency \in Currencies /\ p.taxes \in Seq(TaxResponse)
  BY DEF PriceResponse
<1>2. q.taxes = mapTaxes(p.taxes, p.currency)
  BY DEF mapPrice
<1>3. n \in Nat /\ DOMAIN p.taxes = 1..n /\ \A i \in 1..n : p.taxes[i] \in TaxResponse
  BY <1>1
<1> HIDE DEF n
<1>4. q.taxes = [i \in 1..n |-> [amount |-> ParseMoney(p.taxes[i].amount, Or(p.taxes[i].currency, p.currency)),
                                 included |-> p.taxes[i].included,
                                 atProperty |-> p.taxes[i].atProperty]]
  BY <1>2, <1>3 DEF mapTaxes
<1> HIDE DEF q
<1>5. ASSUME NEW i \in 1..n PROVE q.taxes[i] \in TaxLine
  <2>1. /\ p.taxes[i].amount \in AmountTexts /\ p.taxes[i].currency \in Currencies
        /\ p.taxes[i].included \in BOOLEAN /\ p.taxes[i].atProperty \in BOOLEAN
    BY <1>3 DEF TaxResponse
  <2>2. Or(p.taxes[i].currency, p.currency) \in Currencies
    BY <1>1, <2>1 DEF Or
  <2>3. ParseMoney(p.taxes[i].amount, Or(p.taxes[i].currency, p.currency)) \in Moneys
    BY <2>1, <2>2, ParsedIsMoney
  <2> QED
    BY <1>4, <2>1, <2>3 DEF TaxLine
<1>6. q.taxes \in [1..n -> TaxLine]
  BY <1>4, <1>5
<1> QED
  BY <1>3, <1>6 DEF q

LEMMA PriceIsMoney ==
    ASSUME NEW p \in PriceResponse
    PROVE  /\ mapPrice(p).total \in Moneys /\ Payable(mapPrice(p)) \in Moneys
           /\ TaxesTotal(mapPrice(p)) \subseteq Moneys
           /\ PayableAtProperty(mapPrice(p)) \subseteq Moneys
<1> DEFINE q == mapPrice(p)
<1>1. /\ p.currency \in Currencies /\ p.total \in AmountTexts /\ p.sellingTotal \in AmountTexts
  BY DEF PriceResponse
<1>2. q.total \in Moneys /\ q.sellingTotal \in Moneys
  BY <1>1, ParsedIsMoney DEF mapPrice
<1>3. q.taxes \in Seq(TaxLine)
  BY TaxesAreLines
<1>4. \A wanted : Sum(AmountsOf(Kept(q.taxes, wanted))) \subseteq Moneys
  <2> SUFFICES ASSUME NEW wanted PROVE Sum(AmountsOf(Kept(q.taxes, wanted))) \subseteq Moneys
    OBVIOUS
  <2> DEFINE k == Kept(q.taxes, wanted)
  <2>1. k \in Seq(TaxLine)
    BY <1>3, KeptElements
  <2> HIDE DEF k
  <2>2. AmountsOf(k) \in Seq(Moneys)
    <3>1. DOMAIN k = 1..Len(k) /\ Len(k) \in Nat /\ \A i \in 1..Len(k) : k[i] \in TaxLine
      BY <2>1
    <3>2. AmountsOf(k) \in [1..Len(k) -> Moneys]
      BY <3>1 DEF AmountsOf, TaxLine
    <3> QED
      BY <3>1, <3>2
  <2> QED
    BY <2>2, SumIsMoney DEF k
<1> QED
  BY <1>2, <1>4 DEF q, Payable, TaxesTotal, PayableAtProperty

\* Lists of tax lines that say the same of each line, but for where it is
\* collected.
SameLines(s, t) ==
    /\ Len(s) = Len(t)
    /\ \A i \in 1..Len(s) : s[i].amount = t[i].amount /\ (s[i].included <=> t[i].included)

\* They have the same sum.
LEMMA SameTaxesSameTotal ==
    ASSUME NEW A, NEW B, NEW p, NEW q, p.taxes \in Seq(A), q.taxes \in Seq(B),
           SameLines(p.taxes, q.taxes)
    PROVE  TaxesTotal(p) = TaxesTotal(q)
<1> DEFINE s == p.taxes
           t == q.taxes
           n == Len(s)
           own  == {l \in ToSet(s) : ~l.included}
           theirs == {l \in ToSet(t) : ~l.included}
           x == Keeping(s, own)
           y == Keeping(t, theirs)
<1>1. /\ n \in Nat /\ Len(t) = n /\ s \in Seq(A) /\ t \in Seq(B)
      /\ \A i \in 1..n : s[i] \in A /\ t[i] \in B /\ s[i].amount = t[i].amount
                         /\ (s[i].included <=> t[i].included)
  BY DEF SameLines
<1>2. \A i \in 1..n : s[i] \in own <=> t[i] \in theirs
  BY <1>1 DEF ToSet
<1>3. /\ x[0] = <<>> /\ y[0] = <<>>
      /\ \A k \in 1..n : x[k] = IF s[k] \in own THEN Append(x[k - 1], s[k]) ELSE x[k - 1]
      /\ \A k \in 1..n : y[k] = IF t[k] \in theirs THEN Append(y[k - 1], t[k]) ELSE y[k - 1]
  <2> HIDE DEF own, theirs
  <2>1. /\ x[0] = <<>>
        /\ \A k \in 1..n : x[k] = IF s[k] \in own THEN Append(x[k - 1], s[k]) ELSE x[k - 1]
    BY <1>1, KeepingRounds
  <2>2. /\ y[0] = <<>>
        /\ \A k \in 1..n : y[k] = IF t[k] \in theirs THEN Append(y[k - 1], t[k]) ELSE y[k - 1]
    BY <1>1, KeepingRounds
  <2> QED
    BY <2>1, <2>2
<1>4. Kept(s, own) = x[n] /\ Kept(t, theirs) = y[n]
  BY <1>1 DEF Kept
<1> HIDE DEF s, t, n, own, theirs, x, y
<1> DEFINE Alike(k) == /\ x[k] \in Seq(A) /\ y[k] \in Seq(B) /\ Len(x[k]) = Len(y[k])
                       /\ \A i \in 1..Len(x[k]) : x[k][i].amount = y[k][i].amount
           Upto == {k \in Nat : k <= n => Alike(k)}
<1>5. 0 \in Upto
  <2>1. Alike(0)
    BY <1>3
  <2> HIDE DEF Alike
  <2> QED
    BY <2>1
<1>6. \A k \in Nat : k \in Upto => k + 1 \in Upto
  <2> SUFFICES ASSUME NEW k \in Nat, k \in Upto, k + 1 <= n PROVE Alike(k + 1)
    <3> HIDE DEF Alike
    <3> QED
      OBVIOUS
  <2>1. Alike(k)
    <3> HIDE DEF Alike
    <3> QED
      BY <1>1
  <2>2. k + 1 \in 0..n /\ k + 1 # 0 /\ (k + 1) - 1 = k /\ k + 1 \in 1..n
    BY <1>1
  <2>3. /\ x[k + 1] = IF s[k + 1] \in own THEN Append(x[k], s[k + 1]) ELSE x[k]
        /\ y[k + 1] = IF t[k + 1] \in theirs THEN Append(y[k], t[k + 1]) ELSE y[k]
    BY <1>3, <2>2
  <2>4. CASE s[k + 1] \in own
    <3>1. x[k + 1] = Append(x[k], s[k + 1]) /\ y[k + 1] = Append(y[k], t[k + 1])
      BY <1>2, <2>2, <2>3, <2>4
    <3>2. s[k + 1] \in A /\ t[k + 1] \in B /\ s[k + 1].amount = t[k + 1].amount
      BY <1>1, <2>2
    <3>3. /\ x[k + 1] \in Seq(A) /\ Len(x[k + 1]) = Len(x[k]) + 1
          /\ x[k + 1][Len(x[k]) + 1] = s[k + 1]
          /\ \A i \in 1..Len(x[k]) : x[k + 1][i] = x[k][i]
      BY <2>1, <3>1, <3>2
    <3>4. /\ y[k + 1] \in Seq(B) /\ Len(y[k + 1]) = Len(y[k]) + 1
          /\ y[k + 1][Len(y[k]) + 1] = t[k + 1]
          /\ \A i \in 1..Len(y[k]) : y[k + 1][i] = y[k][i]
      BY <2>1, <3>1, <3>2
    <3>5. Len(x[k]) \in Nat /\ Len(x[k]) = Len(y[k])
      BY <2>1
    <3>6. ASSUME NEW i \in 1..(Len(x[k]) + 1) PROVE x[k + 1][i].amount = y[k + 1][i].amount
      <4>1. CASE i = Len(x[k]) + 1
        BY <3>2, <3>3, <3>4, <3>5, <4>1
      <4>2. CASE i # Len(x[k]) + 1
        <5>1. i \in 1..Len(x[k])
          BY <3>5, <4>2
        <5> QED
          BY <2>1, <3>3, <3>4, <3>5, <5>1
      <4> QED
        BY <4>1, <4>2
    <3> QED
      BY <3>3, <3>4, <3>5, <3>6
  <2>5. CASE s[k + 1] \notin own
    <3>1. x[k + 1] = x[k] /\ y[k + 1] = y[k]
      BY <1>2, <2>2, <2>3, <2>5
    <3> QED
      BY <2>1, <3>1
  <2> QED
    BY <2>4, <2>5
<1>7. Alike(n)
  <2>1. Nat \subseteq Upto
    <3> HIDE DEF Upto
    <3> QED
      BY <1>5, <1>6, SetInduction
  <2> HIDE DEF Alike
  <2> QED
    BY <1>1, <2>1
<1>8. AmountsOf(x[n]) = AmountsOf(y[n])
  <2>1. DOMAIN x[n] = 1..Len(x[n]) /\ DOMAIN y[n] = 1..Len(x[n])
    BY <1>7
  <2> QED
    BY <1>7, <2>1 DEF AmountsOf
<1> QED
  BY <1>4, <1>8 DEF TaxesTotal, s, t, own, theirs

\* The two mappers read the same bill.
LEMMA SameBill ==
    ASSUME NEW p \in PriceResponse
    PROVE  /\ Payable(bookedPrice(p)) = Payable(mapPrice(p))
           /\ HasMarkup(bookedPrice(p)) = HasMarkup(mapPrice(p))
           /\ TaxesTotal(bookedPrice(p)) = TaxesTotal(mapPrice(p))
           /\ bookedPrice(p).changes = mapPrice(p).changes
<1> DEFINE a == bookedPrice(p)
           b == mapPrice(p)
           n == Len(p.taxes)
<1>1. a.total = b.total /\ a.sellingTotal = b.sellingTotal
  BY DEF bookedPrice, mapPrice
<1>2. a.changes = b.changes
  BY DEF bookedPrice, mapPrice, bookedVariations, mapVariations
<1>3. a.taxes = bookedTaxes(p.taxes, p.currency) /\ b.taxes = mapTaxes(p.taxes, p.currency)
  BY DEF bookedPrice, mapPrice
<1>4. n \in Nat /\ DOMAIN p.taxes = 1..n
  BY DEF PriceResponse
<1> HIDE DEF a, b, n
<1> DEFINE A == {a.taxes[i] : i \in 1..n}
           B == {b.taxes[i] : i \in 1..n}
<1>5. a.taxes \in [1..n -> A] /\ b.taxes \in [1..n -> B]
  BY <1>3, <1>4 DEF bookedTaxes, mapTaxes
<1>6. \A i \in 1..n : /\ a.taxes[i].amount = b.taxes[i].amount
                      /\ a.taxes[i].included <=> b.taxes[i].included
  BY <1>3, <1>4 DEF bookedTaxes, mapTaxes
<1> HIDE DEF A, B
<1>7. a.taxes \in Seq(A) /\ b.taxes \in Seq(B) /\ Len(a.taxes) = n /\ Len(b.taxes) = n
  BY <1>4, <1>5
<1>8. SameLines(a.taxes, b.taxes)
  BY <1>6, <1>7 DEF SameLines
<1>9. TaxesTotal(a) = TaxesTotal(b)
  BY <1>7, <1>8, SameTaxesSameTotal
<1> QED
  BY <1>1, <1>2, <1>9 DEF a, b, Payable, HasMarkup

-----------------------------------------------------------------------------
(* Tax lines in any order. *)

\* One more value in the list is one more addition.
LEMMA SumOfAppended ==
    ASSUME NEW values \in Seq(Moneys), NEW m \in Moneys
    PROVE  Sum(Append(values, m)) = UNION {AddMoney(t, m) : t \in Sum(values)}
<1> DEFINE more == Append(values, m)
           n == Len(values)
           a == Totals(values)
           b == Totals(more)
           Upto == {k \in Nat : k <= n => a[k] = b[k]}
<1>1. n \in Nat /\ more \in Seq(Moneys) /\ Len(more) = n + 1 /\ more[n + 1] = m
  OBVIOUS
<1>2. \A k \in 1..n : more[k] = values[k]
  OBVIOUS
<1>3. /\ Sum(values) = a[n] /\ a[0] = {NoMoney}
      /\ \A k \in 1..n : a[k] = UNION {AddMoney(t, values[k]) : t \in a[k - 1]}
  BY TotalsRounds
<1> HIDE DEF more, n, a
<1>4. /\ Sum(more) = b[n + 1] /\ b[0] = {NoMoney}
      /\ \A k \in 1..(n + 1) : b[k] = UNION {AddMoney(t, more[k]) : t \in b[k - 1]}
  BY <1>1, TotalsRounds
<1> HIDE DEF b
<1>5. 0 \in Upto
  BY <1>3, <1>4
<1>6. \A k \in Nat : k \in Upto => k + 1 \in Upto
  <2> SUFFICES ASSUME NEW k \in Nat, k \in Upto, k + 1 <= n PROVE a[k + 1] = b[k + 1]
    OBVIOUS
  <2>1. k + 1 \in 1..n /\ k + 1 \in 1..(n + 1) /\ (k + 1) - 1 = k /\ a[k] = b[k]
    BY <1>1
  <2>2. a[k + 1] = UNION {AddMoney(t, values[k + 1]) : t \in a[k]}
    BY <1>3, <2>1
  <2>3. b[k + 1] = UNION {AddMoney(t, more[k + 1]) : t \in b[k]}
    BY <1>4, <2>1
  <2>4. more[k + 1] = values[k + 1]
    BY <1>2, <2>1
  <2> QED
    BY <2>1, <2>2, <2>3, <2>4
<1>7. a[n] = b[n]
  <2>1. n \in Upto
    <3> HIDE DEF Upto
    <3> QED
      BY <1>1, <1>5, <1>6, SetInduction
  <2> QED
    BY <1>1, <2>1
<1>8. n + 1 \in 1..(n + 1) /\ (n + 1) - 1 = n
  BY <1>1
<1> QED
  BY <1>1, <1>3, <1>4, <1>7, <1>8 DEF more

\* The lines that are charged on top, and what they come to after each line.
OnTop(lines) == {l \in ToSet(lines) : ~l.included}

Charged(lines) == [k \in 0..Len(lines) |-> Sum(AmountsOf(Keeping(lines, OnTop(lines))[k]))]

LEMMA ChargedRounds ==
    ASSUME NEW s \in Seq(TaxLine)
    PROVE  /\ Sum(AmountsOf(Kept(s, OnTop(s)))) = Charged(s)[Len(s)]
           /\ Charged(s)[0] = {NoMoney}
           /\ \A k \in 1..Len(s) :
                 Charged(s)[k] = IF s[k].included THEN Charged(s)[k - 1]
                                 ELSE UNION {AddMoney(t, s[k].amount) : t \in Charged(s)[k - 1]}
<1> DEFINE n == Len(s)
           own == OnTop(s)
           x == Keeping(s, own)
           c == Charged(s)
<1>1. n \in Nat /\ DOMAIN s = 1..n /\ \A k \in 1..n : s[k] \in TaxLine
  OBVIOUS
<1>2. \A k \in 1..n : s[k] \in own <=> ~s[k].included
  BY <1>1 DEF OnTop, ToSet
<1>3. /\ x[0] = <<>>
      /\ \A k \in 1..n : x[k] = IF s[k] \in own THEN Append(x[k - 1], s[k]) ELSE x[k - 1]
  <2> HIDE DEF own
  <2> QED
    BY KeepingRounds
<1>4. Kept(s, own) = x[n]
  BY DEF Kept
<1>5. c = [k \in 0..n |-> Sum(AmountsOf(x[k]))]
  BY DEF Charged
<1> HIDE DEF n, own, x, c
<1> DEFINE Upto == {k \in Nat : k <= n => x[k] \in Seq(TaxLine)}
<1>6. 0 \in Upto
  <2>1. <<>> \in Seq(TaxLine)
    OBVIOUS
  <2> QED
    BY <1>3, <2>1
<1>7. \A k \in Nat : k \in Upto => k + 1 \in Upto
  <2> SUFFICES ASSUME NEW k \in Nat, k \in Upto, k + 1 <= n PROVE x[k + 1] \in Seq(TaxLine)
    OBVIOUS
  <2>1. k + 1 \in 1..n /\ (k + 1) - 1 = k /\ x[k] \in Seq(TaxLine)
    BY <1>1
  <2>2. x[k + 1] = Append(x[k], s[k + 1]) \/ x[k + 1] = x[k]
    BY <1>3, <2>1
  <2>3. s[k + 1] \in TaxLine
    BY <1>1, <2>1
  <2>4. \A y \in Seq(TaxLine) : Append(y, s[k + 1]) \in Seq(TaxLine)
    BY <2>3
  <2> QED
    BY <2>1, <2>2, <2>4
<1>8. \A k \in 0..n : x[k] \in Seq(TaxLine)
  <2>1. Nat \subseteq Upto
    <3> HIDE DEF Upto
    <3> QED
      BY <1>6, <1>7, SetInduction
  <2> QED
    BY <1>1, <2>1
<1>9. c[0] = {NoMoney}
  <2>1. AmountsOf(<<>>) = <<>>
    BY DEF AmountsOf
  <2>2. <<>> \in Seq(Moneys) /\ Len(<<>>) = 0
    OBVIOUS
  <2>3. Sum(<<>>) = {NoMoney}
    BY <2>2, TotalsRounds
  <2> QED
    BY <1>1, <1>3, <1>5, <2>1, <2>3
<1>10. ASSUME NEW k \in 1..n
       PROVE  c[k] = IF s[k].included THEN c[k - 1]
                     ELSE UNION {AddMoney(t, s[k].amount) : t \in c[k - 1]}
  <2>1. k - 1 \in 0..n /\ k \in 0..n
    BY <1>1
  <2>2. c[k] = Sum(AmountsOf(x[k])) /\ c[k - 1] = Sum(AmountsOf(x[k - 1]))
    BY <1>5, <2>1
  <2>3. CASE s[k].included
    BY <1>2, <1>3, <2>2, <2>3
  <2>4. CASE ~s[k].included
    <3> DEFINE y == x[k - 1]
    <3>1. x[k] = Append(y, s[k]) /\ y \in Seq(TaxLine) /\ s[k] \in TaxLine
      BY <1>1, <1>2, <1>3, <1>8, <2>1, <2>4
    <3> HIDE DEF y
    <3>2. s[k].amount \in Moneys
      BY <3>1 DEF TaxLine
    <3>3. DOMAIN y = 1..Len(y) /\ Len(y) \in Nat /\ \A i \in 1..Len(y) : y[i] \in TaxLine
      BY <3>1
    <3>4. AmountsOf(y) = [i \in 1..Len(y) |-> y[i].amount]
      BY <3>3 DEF AmountsOf
    <3>5. \A i \in 1..Len(y) : y[i].amount \in Moneys
      BY <3>3 DEF TaxLine
    <3>6. AmountsOf(y) \in Seq(Moneys) /\ Len(AmountsOf(y)) = Len(y)
      BY <3>3, <3>4, <3>5
    <3>7. AmountsOf(Append(y, s[k])) = Append(AmountsOf(y), s[k].amount)
      <4> DEFINE z == Append(y, s[k])
      <4>1. /\ DOMAIN z = 1..(Len(y) + 1) /\ z[Len(y) + 1] = s[k]
            /\ \A i \in 1..Len(y) : z[i] = y[i]
        BY <3>1
      <4> HIDE DEF z
      <4>2. AmountsOf(z) = [i \in 1..(Len(y) + 1) |-> z[i].amount]
        BY <4>1 DEF AmountsOf
      <4>3. Append(AmountsOf(y), s[k].amount)
              = [i \in 1..(Len(y) + 1) |-> IF i = Len(y) + 1 THEN s[k].amount ELSE y[i].amount]
        BY <3>2, <3>3, <3>4, <3>6
      <4>4. \A i \in 1..(Len(y) + 1) :
               z[i].amount = IF i = Len(y) + 1 THEN s[k].amount ELSE y[i].amount
        BY <3>3, <4>1
      <4> QED
        BY <4>2, <4>3, <4>4 DEF z
    <3>8. c[k] = UNION {AddMoney(t, s[k].amount) : t \in Sum(AmountsOf(y))}
      BY <2>2, <3>1, <3>2, <3>6, <3>7, SumOfAppended
    <3> QED
      BY <2>2, <2>4, <3>8 DEF y
  <2> QED
    BY <2>3, <2>4
<1>11. c[n] = Sum(AmountsOf(x[n]))
  BY <1>1, <1>5
<1> QED
  BY <1>4, <1>9, <1>10, <1>11 DEF n, own, c

\* A price in no particular currency, which Go's zero Money is.
Bare(m) == m.currency = ""

LEMMA BareAlike ==
    ASSUME NEW m, NEW n, m.currency = n.currency
    PROVE  Bare(m) <=> Bare(n)
  BY DEF Bare

LEMMA BothBare ==
    ASSUME NEW m, NEW n, Bare(m), Bare(n)
    PROVE  m.currency = n.currency
  BY DEF Bare

LEMMA AddedMoney ==
    ASSUME NEW m \in Moneys, NEW n \in Moneys
    PROVE  /\ AddMoney(m, n) = {} => ~Bare(m) /\ ~Bare(n) /\ m.currency # n.currency
           /\ \A r \in AddMoney(m, n) :
                 /\ r \in Moneys /\ r.amount = Add(m.amount, n.amount)
                 /\ Bare(m) => r.currency = n.currency
                 /\ ~Bare(m) => r.currency = m.currency
                 /\ Bare(m) \/ Bare(n) \/ m.currency = n.currency
                 /\ AddMoney(m, n) = {r}
<1> DEFINE r == Money(Add(m.amount, n.amount), combinedCurrency(m, n))
<1>1. AddMoney(m, n) = IF SameCurrency(m, n) THEN {r} ELSE {}
  BY DEF AddMoney
<1>2. r.amount = Add(m.amount, n.amount) /\ r.currency = combinedCurrency(m, n)
  BY DEF Money
<1>3. AddMoney(m, n) \subseteq Moneys
  BY AddMoneyIsMoney
<1>4. SameCurrency(m, n) <=> Bare(m) \/ Bare(n) \/ m.currency = n.currency
  BY DEF SameCurrency, Bare
<1>5. combinedCurrency(m, n) = IF Bare(m) THEN n.currency ELSE m.currency
  BY DEF combinedCurrency, Bare
<1> HIDE DEF r
<1> QED
  BY <1>1, <1>2, <1>3, <1>4, <1>5

\* What each line adds, and how much it moves the total.
Charges(s) ==
    [i \in 1..Len(s) |-> IF s[i].included THEN 0 ELSE Worth(s[i].amount.amount)]

Sizes(s) == [i \in 1..Len(s) |-> Magnitude(Charges(s)[i])]

\* The total m of the first k of the tax lines s.
Summarises(m, s, k) ==
    LET charged == {i \in 1..k : ~s[i].included}
    IN  /\ m \in Moneys
        /\ Worth(m.amount) = Adding(Charges(s), Len(s))[k]
        /\ \A i \in charged : s[i].amount.amount.scale <= m.amount.scale
        /\ m.amount.scale = 0 \/ \E i \in charged : s[i].amount.amount.scale = m.amount.scale
        /\ (\A i \in charged : Bare(s[i].amount)) => Bare(m)
        /\ \A i \in charged : Bare(s[i].amount) \/ s[i].amount.currency = m.currency

\* Two of its first k lines are charged in two currencies.
Clash(s, k) ==
    \E i, j \in {l \in 1..k : ~s[l].included /\ ~Bare(s[l].amount)} :
        s[i].amount.currency # s[j].amount.currency

\* Every sum on the way is in range where the sizes together are.
LEMMA PartialSumsInRange ==
    ASSUME NEW s \in Seq(TaxLine), Adding(Sizes(s), Len(s))[Len(s)] <= MaxInt
    PROVE  /\ \A k \in 1..Len(s) : Charges(s)[k] \in Int /\ Sizes(s)[k] \in Nat
           /\ \A k \in 0..Len(s) : InRange(Adding(Charges(s), Len(s))[k])
           /\ \A k \in 1..Len(s) : InRange(Charges(s)[k])
<1> DEFINE n == Len(s)
           w == Charges(s)
           z == Sizes(s)
           a == Adding(w, n)
           b == Adding(z, n)
<1>1. n \in Nat /\ \A k \in 1..n : s[k] \in TaxLine
  OBVIOUS
<1>2. ASSUME NEW k \in 1..n PROVE w[k] \in Int
  <2>1. s[k].amount.amount \in AmountSet
    BY <1>1 DEF TaxLine, Moneys
  <2>2. Worth(s[k].amount.amount) \in Int
    BY <2>1, WorthIsInt
  <2>3. w[k] = IF s[k].included THEN 0 ELSE Worth(s[k].amount.amount)
    BY DEF Charges
  <2> QED
    BY <2>2, <2>3
<1>3. ASSUME NEW k \in 1..n PROVE z[k] \in Nat /\ -z[k] <= w[k] /\ w[k] <= z[k]
  <2>1. z[k] = Magnitude(w[k])
    BY DEF Sizes
  <2> HIDE DEF w, z
  <2> QED
    BY <1>2, <2>1 DEF Magnitude
<1>4. /\ a[0] = 0 /\ \A k \in 1..n : a[k] = a[k - 1] + w[k]
      /\ \A k \in 0..n : a[k] \in Int
  <2> HIDE DEF w, n
  <2> QED
    BY <1>1, <1>2, AddingRounds
<1>5. /\ b[0] = 0 /\ \A k \in 1..n : b[k] = b[k - 1] + z[k]
      /\ \A k \in 0..n : b[k] \in Int
  <2> HIDE DEF z, n
  <2>1. \A k \in 1..n : z[k] \in Int
    BY <1>3
  <2> QED
    BY <1>1, <2>1, AddingRounds
<1>6. b[n] <= MaxInt
  OBVIOUS
<1> HIDE DEF n, w, z, a, b
<1> DEFINE Upto == {k \in Nat : k <= n => -b[k] <= a[k] /\ a[k] <= b[k]}
           Down == {k \in Nat : k <= n => b[n - k] <= b[n]}
<1>7. Nat \subseteq Upto
  <2>1. 0 \in Upto
    BY <1>4, <1>5
  <2>2. \A k \in Nat : k \in Upto => k + 1 \in Upto
    <3> SUFFICES ASSUME NEW k \in Nat, k \in Upto, k + 1 <= n
                 PROVE  -b[k + 1] <= a[k + 1] /\ a[k + 1] <= b[k + 1]
      OBVIOUS
    <3>1. k + 1 \in 1..n /\ (k + 1) - 1 = k /\ k \in 0..n /\ -b[k] <= a[k] /\ a[k] <= b[k]
      BY <1>1
    <3>2. a[k + 1] = a[k] + w[k + 1] /\ b[k + 1] = b[k] + z[k + 1]
      BY <1>4, <1>5, <3>1
    <3>3. a[k] \in Int /\ b[k] \in Int
      BY <1>4, <1>5, <3>1
    <3>4. w[k + 1] \in Int /\ z[k + 1] \in Nat /\ -z[k + 1] <= w[k + 1] /\ w[k + 1] <= z[k + 1]
      BY <1>2, <1>3, <3>1
    <3> QED
      BY <3>1, <3>2, <3>3, <3>4
  <2> HIDE DEF Upto
  <2> QED
    BY <2>1, <2>2, SetInduction
<1>8. Nat \subseteq Down
  <2>1. 0 \in Down
    <3>1. n - 0 = n /\ b[n] \in Int
      BY <1>1, <1>5
    <3> QED
      BY <3>1
  <2>2. \A k \in Nat : k \in Down => k + 1 \in Down
    <3> SUFFICES ASSUME NEW k \in Nat, k \in Down, k + 1 <= n PROVE b[n - (k + 1)] <= b[n]
      OBVIOUS
    <3>1. n - k \in 1..n /\ (n - k) - 1 = n - (k + 1) /\ n - (k + 1) \in 0..n /\ b[n - k] <= b[n]
      BY <1>1
    <3>2. b[n - k] = b[n - (k + 1)] + z[n - k]
      BY <1>5, <3>1
    <3>3. b[n - (k + 1)] \in Int /\ b[n] \in Int /\ z[n - k] \in Nat
      BY <1>1, <1>3, <1>5, <3>1
    <3> QED
      BY <3>1, <3>2, <3>3
  <2> HIDE DEF Down
  <2> QED
    BY <2>1, <2>2, SetInduction
<1>9. ASSUME NEW k \in 0..n PROVE InRange(a[k]) /\ b[k] <= MaxInt
  <2>1. k \in Nat /\ n - k \in Nat /\ n - k <= n /\ n - (n - k) = k /\ k <= n
    BY <1>1
  <2>2. b[k] <= b[n]
    <3>1. n - k \in Down
      BY <1>8, <2>1
    <3> QED
      BY <2>1, <3>1
  <2>3. -b[k] <= a[k] /\ a[k] <= b[k]
    BY <1>7, <2>1
  <2>4. a[k] \in Int /\ b[k] \in Int /\ b[n] \in Int
    BY <1>1, <1>4, <1>5
  <2> QED
    BY <1>6, <2>2, <2>3, <2>4, WidthAssumption DEF InRange
<1>10. ASSUME NEW k \in 1..n PROVE InRange(w[k])
  <2>1. k \in 0..n /\ k - 1 \in 0..n /\ k - 1 \in Nat /\ k - 1 <= n
    BY <1>1
  <2>2. b[k] = b[k - 1] + z[k] /\ b[k] \in Int /\ b[k - 1] \in Int
    BY <1>5, <2>1
  <2>3. -b[k - 1] <= a[k - 1] /\ a[k - 1] <= b[k - 1] /\ a[k - 1] \in Int
    BY <1>4, <1>7, <2>1
  <2>4. z[k] <= MaxInt
    BY <1>3, <1>9, <2>1, <2>2, <2>3, WidthAssumption
  <2> QED
    BY <1>2, <1>3, <2>4, WidthAssumption DEF InRange
<1> QED
  BY <1>2, <1>3, <1>9, <1>10 DEF n, w, z, a

\* A total takes one more line.
LEMMA OneMoreLine ==
    ASSUME NEW s \in Seq(TaxLine), Adding(Sizes(s), Len(s))[Len(s)] <= MaxInt,
           NEW k \in 1..Len(s), NEW t, Summarises(t, s, k - 1)
    PROVE  /\ s[k].included => Summarises(t, s, k)
           /\ ~s[k].included => \A r \in AddMoney(t, s[k].amount) : Summarises(r, s, k)
           /\ ~s[k].included /\ AddMoney(t, s[k].amount) = {} => Clash(s, k)
<1> DEFINE n == Len(s)
           a == Adding(Charges(s), n)
           x == s[k].amount
<1>1. n \in Nat /\ k \in 1..n /\ s[k] \in TaxLine
  OBVIOUS
<1>2. x \in Moneys /\ x.amount \in AmountSet
  BY <1>1 DEF TaxLine, Moneys
<1>3. /\ \A j \in 1..n : Charges(s)[j] \in Int
      /\ \A j \in 0..n : InRange(a[j])
      /\ InRange(Charges(s)[k])
  BY PartialSumsInRange
<1>4. a[k] = a[k - 1] + Charges(s)[k] /\ a[k] \in Int /\ a[k - 1] \in Int
  BY <1>1, <1>3, AddingRounds
<1>5. Charges(s)[k] = IF s[k].included THEN 0 ELSE Worth(x.amount)
  BY <1>1 DEF Charges
<1>6. InRange(a[k]) /\ InRange(a[k - 1])
  BY <1>1, <1>3
<1>7. k \in 1..k /\ 1..k = (1..(k - 1)) \union {k}
  BY <1>1
<1>8. /\ t \in Moneys /\ Worth(t.amount) = a[k - 1]
      /\ \A i \in 1..(k - 1) : ~s[i].included => s[i].amount.amount.scale <= t.amount.scale
      /\ t.amount.scale = 0
         \/ \E i \in 1..(k - 1) : ~s[i].included /\ s[i].amount.amount.scale = t.amount.scale
      /\ (\A i \in 1..(k - 1) : ~s[i].included => Bare(s[i].amount)) => Bare(t)
      /\ \A i \in 1..(k - 1) :
            ~s[i].included => Bare(s[i].amount) \/ s[i].amount.currency = t.currency
  BY DEF Summarises
<1>9. ASSUME NEW i \in 1..k PROVE i \in 1..(k - 1) \/ i = k
  BY <1>7
<1> HIDE DEF n, a
<1>10. ASSUME s[k].included PROVE Summarises(t, s, k)
  <2>1. Worth(t.amount) = a[k]
    BY <1>4, <1>5, <1>8, <1>10
  <2>2. \A i \in 1..k : ~s[i].included => i \in 1..(k - 1)
    BY <1>9, <1>10
  <2>3. \A i \in 1..(k - 1) : i \in 1..k
    BY <1>7
  <2> QED
    BY <1>8, <2>1, <2>2, <2>3 DEF Summarises, a, n
<1>11. ASSUME ~s[k].included, NEW r \in AddMoney(t, x) PROVE Summarises(r, s, k)
  <2> HIDE DEF x
  <2>1. /\ r \in Moneys /\ r.amount = Add(t.amount, x.amount)
        /\ Bare(t) => r.currency = x.currency
        /\ ~Bare(t) => r.currency = t.currency
        /\ Bare(t) \/ Bare(x) \/ t.currency = x.currency
    BY <1>2, <1>8, <1>11, AddedMoney
  <2>2. t.amount \in AmountSet
    BY <1>8 DEF Moneys
  <2>3. Worth(r.amount) = a[k] /\ r.amount.scale = Common(t.amount, x.amount)
    <3>1. InRange(Worth(t.amount)) /\ InRange(Worth(x.amount)) /\ InRange(Worth(t.amount) + Worth(x.amount))
      BY <1>3, <1>4, <1>5, <1>6, <1>8, <1>11
    <3>2. Worth(r.amount) = Worth(t.amount) + Worth(x.amount) /\ r.amount.scale = Common(t.amount, x.amount)
      BY <1>2, <2>1, <2>2, <3>1, AddIsExact
    <3> QED
      BY <1>4, <1>5, <1>8, <1>11, <3>2
  <2>4. x = s[k].amount
    BY DEF x
  <2>5. t.amount.scale \in Int /\ x.amount.scale \in Int /\ x.amount.scale >= 0
    BY <1>2, <2>2 DEF AmountSet
  <2>6. ASSUME NEW i \in 1..k, ~s[i].included PROVE s[i].amount.amount.scale <= r.amount.scale
    <3>1. t.amount.scale <= r.amount.scale /\ x.amount.scale <= r.amount.scale
      BY <2>3, <2>5 DEF Common
    <3>2. CASE i = k
      BY <2>4, <3>1, <3>2
    <3>3. CASE i \in 1..(k - 1)
      <4>1. s[i].amount.amount.scale <= t.amount.scale
        BY <1>8, <2>6, <3>3
      <4>2. i \in 1..Len(s) /\ s[i] \in TaxLine
        BY <1>1, <3>3 DEF n
      <4>3. s[i].amount.amount.scale \in Int
        BY <4>2 DEF TaxLine, Moneys, AmountSet
      <4>4. r.amount.scale \in Int
        BY <2>3, <2>5 DEF Common
      <4> QED
        BY <2>5, <3>1, <4>1, <4>3, <4>4
    <3> QED
      BY <1>9, <3>2, <3>3
  <2>7. r.amount.scale = 0
        \/ \E i \in 1..k : ~s[i].included /\ s[i].amount.amount.scale = r.amount.scale
    <3>1. r.amount.scale = t.amount.scale \/ r.amount.scale = x.amount.scale
      BY <2>3 DEF Common
    <3>2. CASE r.amount.scale = x.amount.scale
      BY <1>7, <1>11, <2>4, <3>2
    <3>3. CASE r.amount.scale = t.amount.scale
      BY <1>7, <1>8, <3>3
    <3> QED
      BY <3>1, <3>2, <3>3
  <2>8. ASSUME \A i \in 1..k : ~s[i].included => Bare(s[i].amount) PROVE Bare(r)
    <3>1. Bare(x) /\ Bare(t)
      BY <1>7, <1>8, <1>11, <2>4, <2>8
    <3> QED
      BY <2>1, <3>1, BareAlike
  <2>9. ASSUME NEW i \in 1..k, ~s[i].included
        PROVE  Bare(s[i].amount) \/ s[i].amount.currency = r.currency
    <3>1. CASE i = k
      BY <2>1, <2>4, <3>1, BareAlike
    <3>2. CASE i \in 1..(k - 1)
      <4>1. Bare(s[i].amount) \/ s[i].amount.currency = t.currency
        BY <1>8, <2>9, <3>2
      <4>2. CASE Bare(t)
        BY <4>1, <4>2, BareAlike
      <4>3. CASE ~Bare(t)
        BY <2>1, <4>1, <4>3
      <4> QED
        BY <4>2, <4>3
    <3> QED
      BY <1>9, <3>1, <3>2
  <2> QED
    BY <2>1, <2>3, <2>6, <2>7, <2>8, <2>9 DEF Summarises, a, n
<1>12. ASSUME ~s[k].included, AddMoney(t, x) = {} PROVE Clash(s, k)
  <2> HIDE DEF x
  <2>1. ~Bare(t) /\ ~Bare(x) /\ t.currency # x.currency
    BY <1>2, <1>8, <1>12, AddedMoney
  <2>2. PICK i \in 1..(k - 1) : ~s[i].included /\ ~Bare(s[i].amount)
    BY <1>8, <2>1
  <2>3. s[i].amount.currency = t.currency
    BY <1>8, <2>2
  <2>4. i \in 1..k /\ x = s[k].amount
    BY <1>7 DEF x
  <2> QED
    BY <1>7, <1>12, <2>1, <2>2, <2>3, <2>4 DEF Clash
<1> QED
  BY <1>10, <1>11, <1>12

\* What the tax lines charged on top come to: nothing if two are in two
\* currencies, and otherwise one total.
LEMMA TotalOfLines ==
    ASSUME NEW s \in Seq(TaxLine), Adding(Sizes(s), Len(s))[Len(s)] <= MaxInt
    PROVE  LET total == Sum(AmountsOf(Kept(s, OnTop(s))))
           IN  /\ total = {} => Clash(s, Len(s))
               /\ \A m \in total : total = {m} /\ Summarises(m, s, Len(s))
<1> DEFINE n == Len(s)
           c == Charged(s)
           Right(k) == (c[k] = {} /\ Clash(s, k)) \/ \E m : c[k] = {m} /\ Summarises(m, s, k)
           Upto == {k \in Nat : k <= n => Right(k)}
<1>1. n \in Nat /\ \A k \in 1..n : s[k] \in TaxLine
  OBVIOUS
<1>2. /\ Sum(AmountsOf(Kept(s, OnTop(s)))) = c[n]
      /\ c[0] = {NoMoney}
      /\ \A k \in 1..n : c[k] = IF s[k].included THEN c[k - 1]
                                ELSE UNION {AddMoney(t, s[k].amount) : t \in c[k - 1]}
  BY ChargedRounds
<1>3. 0 \in Upto
  <2>1. Adding(Charges(s), n)[0] = 0
    <3>1. \A k \in 1..n : Charges(s)[k] \in Int
      BY PartialSumsInRange
    <3> QED
      BY <1>1, <3>1, AddingRounds
  <2>2. NoMoney \in Moneys /\ Worth(NoMoney.amount) = 0
    BY NoMoneyIsMoney
  <2>3. Bare(NoMoney) /\ NoMoney.amount.scale = 0
    BY DEF Bare, NoMoney, Money, Zero
  <2>4. 1..0 = {}
    OBVIOUS
  <2>5. Summarises(NoMoney, s, 0)
    BY <2>1, <2>2, <2>3, <2>4 DEF Summarises
  <2> HIDE DEF c
  <2> QED
    BY <1>2, <2>5
<1>4. \A k \in Nat : k \in Upto => k + 1 \in Upto
  <2> HIDE DEF c, n
  <2> SUFFICES ASSUME NEW k \in Nat, k \in Upto, k + 1 <= n PROVE Right(k + 1)
    <3> HIDE DEF Right
    <3> QED
      OBVIOUS
  <2>1. Right(k)
    <3> HIDE DEF Right
    <3> QED
      BY <1>1
  <2>2. k + 1 \in 1..n /\ (k + 1) - 1 = k /\ k + 1 \in 1..Len(s)
    BY <1>1 DEF n
  <2>3. c[k + 1] = IF s[k + 1].included THEN c[k]
                   ELSE UNION {AddMoney(t, s[k + 1].amount) : t \in c[k]}
    BY <1>2, <2>2
  <2>4. CASE c[k] = {} /\ Clash(s, k)
    <3>1. c[k + 1] = {}
      BY <2>3, <2>4
    <3>2. \A i \in 1..k : i \in 1..(k + 1)
      OBVIOUS
    <3>3. Clash(s, k + 1)
      BY <2>4, <3>2 DEF Clash
    <3> QED
      BY <3>1, <3>3
  <2>5. CASE \E m : c[k] = {m} /\ Summarises(m, s, k)
    <3>1. PICK m : c[k] = {m} /\ Summarises(m, s, k)
      BY <2>5
    <3>2. Summarises(m, s, (k + 1) - 1)
      BY <2>2, <3>1
    <3>3. /\ s[k + 1].included => Summarises(m, s, k + 1)
          /\ ~s[k + 1].included =>
                \A r \in AddMoney(m, s[k + 1].amount) : Summarises(r, s, k + 1)
          /\ ~s[k + 1].included /\ AddMoney(m, s[k + 1].amount) = {} => Clash(s, k + 1)
      BY <2>2, <3>2, OneMoreLine
    <3>4. CASE s[k + 1].included
      BY <2>3, <3>1, <3>3, <3>4
    <3>5. CASE ~s[k + 1].included
      <4>1. c[k + 1] = AddMoney(m, s[k + 1].amount)
        BY <2>3, <3>1, <3>5
      <4>2. m \in Moneys /\ s[k + 1].amount \in Moneys
        BY <1>1, <2>2, <3>1 DEF Summarises, TaxLine
      <4>3. \A r \in AddMoney(m, s[k + 1].amount) : AddMoney(m, s[k + 1].amount) = {r}
        BY <4>2, AddedMoney
      <4>4. CASE AddMoney(m, s[k + 1].amount) = {}
        BY <3>3, <3>5, <4>1, <4>4
      <4>5. CASE AddMoney(m, s[k + 1].amount) # {}
        <5>1. PICK r : r \in AddMoney(m, s[k + 1].amount)
          BY <4>5
        <5>2. c[k + 1] = {r} /\ Summarises(r, s, k + 1)
          BY <3>3, <3>5, <4>1, <4>3, <5>1
        <5> QED
          BY <5>2
      <4> QED
        BY <4>4, <4>5
    <3> QED
      BY <3>4, <3>5
  <2> QED
    BY <2>1, <2>4, <2>5
<1>5. Right(n)
  <2> HIDE DEF Right
  <2>1. n \in Upto
    <3> HIDE DEF Upto
    <3> QED
      BY <1>1, <1>3, <1>4, SetInduction
  <2> QED
    BY <1>1, <2>1
<1> HIDE DEF c
<1> QED
  BY <1>2, <1>5

\* Total and scale decide the units.
LEMMA WorthAndScale ==
    ASSUME NEW a \in AmountSet, NEW b \in AmountSet, Worth(a) = Worth(b), a.scale = b.scale
    PROVE  a = b
<1> DEFINE p == TenTo(MaxScale - a.scale)
<1>1. /\ a = [units |-> a.units, scale |-> a.scale] /\ a.units \in Int
      /\ b = [units |-> b.units, scale |-> b.scale] /\ b.units \in Int
      /\ MaxScale - a.scale \in Nat
  BY WidthAssumption DEF AmountSet, MachineInt, MinInt
<1>2. p \in Nat /\ p >= 1
  BY <1>1, TenToPositive
<1>3. a.units * p = b.units * p
  BY DEF Worth
<1> HIDE DEF p
<1>4. a.units = b.units
  <2> DEFINE d == a.units - b.units
  <2>1. d * p = a.units * p - b.units * p
    BY <1>1, <1>2
  <2>2. d \in Int /\ d * p = 0
    BY <1>1, <1>2, <1>3, <2>1
  <2> HIDE DEF d
  <2>3. d = 0
    BY <1>2, <2>2
  <2> QED
    BY <1>1, <2>3 DEF d
<1> QED
  BY <1>1, <1>4

\* The same lines in another order.
Reordered(s, f) == [i \in 1..Len(s) |-> s[f[i]]]

LEMMA SameTotalInAnyOrder ==
    ASSUME NEW s \in Seq(TaxLine), NEW f, Permutes(f, Len(s)),
           Adding(Sizes(s), Len(s))[Len(s)] <= MaxInt
    PROVE  Sum(AmountsOf(Kept(Reordered(s, f), OnTop(Reordered(s, f))))) =
              Sum(AmountsOf(Kept(s, OnTop(s))))
<1> DEFINE n == Len(s)
           t == Reordered(s, f)
           S == Sum(AmountsOf(Kept(s, OnTop(s))))
           T == Sum(AmountsOf(Kept(t, OnTop(t))))
<1>1. n \in Nat /\ (\A k \in 1..n : s[k] \in TaxLine) /\ \A k \in 1..n : f[k] \in 1..n
  BY DEF Permutes
<1>2. t \in [1..n -> TaxLine] /\ \A k \in 1..n : t[k] = s[f[k]]
  BY <1>1 DEF Reordered
<1>3. t \in Seq(TaxLine) /\ Len(t) = n
  BY <1>1, <1>2
<1>4. \A y \in 1..n : \E i \in 1..n : f[i] = y
  BY <1>1, PermutationIsOnto
<1>5. /\ \A k \in 1..n : Charges(s)[k] \in Int /\ Sizes(s)[k] \in Nat
      /\ \A k \in 1..n : Sizes(s)[k] \in Int
  <2>1. \A k \in 1..n : Charges(s)[k] \in Int /\ Sizes(s)[k] \in Nat
    BY PartialSumsInRange
  <2> QED
    BY <2>1
<1> HIDE DEF n, t
<1>6. \A k \in 1..n : Charges(t)[k] = Charges(s)[f[k]]
  BY <1>1, <1>2, <1>3 DEF Charges, n
<1>7. \A k \in 1..n : Sizes(t)[k] = Sizes(s)[f[k]]
  BY <1>1, <1>3, <1>6 DEF Sizes, n
<1>8. Permutes(f, n)
  BY DEF n
<1>9. Adding(Sizes(t), n)[n] = Adding(Sizes(s), n)[n]
  BY <1>1, <1>5, <1>7, <1>8, AddingInAnyOrder
<1>10. Adding(Charges(t), n)[n] = Adding(Charges(s), n)[n]
  BY <1>1, <1>5, <1>6, <1>8, AddingInAnyOrder
<1>11. /\ S = {} => Clash(s, n)
       /\ \A m \in S : S = {m} /\ Summarises(m, s, n)
  BY TotalOfLines DEF n
<1>12. /\ T = {} => Clash(t, n)
       /\ \A m \in T : T = {m} /\ Summarises(m, t, n)
  <2>1. Adding(Sizes(t), Len(t))[Len(t)] <= MaxInt
    BY <1>3, <1>9 DEF n
  <2> QED
    BY <1>3, <2>1, TotalOfLines
<1> HIDE DEF S, T
<1>13. Clash(s, n) <=> Clash(t, n)
  <2>1. ASSUME Clash(t, n) PROVE Clash(s, n)
    <3>1. PICK i, j \in 1..n : /\ ~t[i].included /\ ~Bare(t[i].amount)
                               /\ ~t[j].included /\ ~Bare(t[j].amount)
                               /\ t[i].amount.currency # t[j].amount.currency
      BY <2>1 DEF Clash
    <3>2. f[i] \in 1..n /\ t[i] = s[f[i]]
      BY <1>1, <1>2
    <3>3. f[j] \in 1..n /\ t[j] = s[f[j]]
      BY <1>1, <1>2
    <3>4. /\ ~s[f[i]].included /\ ~Bare(s[f[i]].amount)
          /\ ~s[f[j]].included /\ ~Bare(s[f[j]].amount)
          /\ s[f[i]].amount.currency # s[f[j]].amount.currency
      BY <3>1, <3>2, <3>3
    <3> HIDE DEF t
    <3> QED
      BY <3>2, <3>3, <3>4 DEF Clash
  <2>2. ASSUME Clash(s, n) PROVE Clash(t, n)
    <3>1. PICK x, y \in 1..n : /\ ~s[x].included /\ ~Bare(s[x].amount)
                               /\ ~s[y].included /\ ~Bare(s[y].amount)
                               /\ s[x].amount.currency # s[y].amount.currency
      BY <2>2 DEF Clash
    <3>2. PICK i \in 1..n : f[i] = x
      BY <1>4
    <3>3. PICK j \in 1..n : f[j] = y
      BY <1>4
    <3>4. t[i] = s[x] /\ t[j] = s[y]
      BY <1>2, <3>2, <3>3
    <3> QED
      BY <3>1, <3>4 DEF Clash
  <2> QED
    BY <2>1, <2>2
<1>14. ASSUME NEW m, NEW u \in Seq(TaxLine), Summarises(m, u, n), Clash(u, n) PROVE FALSE
  BY <1>14 DEF Summarises, Clash
<1>15. ASSUME NEW m \in S, NEW o \in T PROVE m = o
  <2>1. Summarises(m, s, n) /\ Summarises(o, t, n)
    BY <1>11, <1>12
  <2>2. m \in Moneys /\ o \in Moneys
    BY <2>1 DEF Summarises
  <2>3. m.amount \in AmountSet /\ o.amount \in AmountSet
    BY <2>2 DEF Moneys
  <2>4. Worth(m.amount) = Worth(o.amount)
    BY <1>3, <1>10, <2>1 DEF Summarises, n
  <2>5. m.amount.scale = o.amount.scale
    <3>1. m.amount.scale \in Nat /\ o.amount.scale \in Nat
      BY <2>3 DEF AmountSet
    <3>2. \A i \in 1..n : ~s[i].included => s[i].amount.amount.scale <= m.amount.scale
      BY <2>1 DEF Summarises
    <3>3. \A i \in 1..n : ~t[i].included => t[i].amount.amount.scale <= o.amount.scale
      BY <2>1 DEF Summarises
    <3>4. o.amount.scale <= m.amount.scale
      <4>1. CASE o.amount.scale = 0
        BY <3>1, <4>1
      <4>2. CASE o.amount.scale # 0
        <5>1. PICK i \in 1..n : ~t[i].included /\ t[i].amount.amount.scale = o.amount.scale
          BY <2>1, <4>2 DEF Summarises
        <5>2. ~s[f[i]].included /\ s[f[i]].amount.amount.scale = o.amount.scale /\ f[i] \in 1..n
          BY <1>1, <1>2, <5>1
        <5> QED
          BY <3>2, <5>2
      <4> QED
        BY <4>1, <4>2
    <3>5. m.amount.scale <= o.amount.scale
      <4>1. CASE m.amount.scale = 0
        BY <3>1, <4>1
      <4>2. CASE m.amount.scale # 0
        <5>1. PICK j \in 1..n : ~s[j].included /\ s[j].amount.amount.scale = m.amount.scale
          BY <2>1, <4>2 DEF Summarises
        <5>2. PICK i \in 1..n : f[i] = j
          BY <1>4
        <5>3. ~t[i].included /\ t[i].amount.amount.scale = m.amount.scale
          BY <1>2, <5>1, <5>2
        <5> QED
          BY <3>3, <5>3
      <4> QED
        BY <4>1, <4>2
    <3> QED
      BY <3>1, <3>4, <3>5
  <2>6. m.currency = o.currency
    <3>1. CASE \A i \in 1..n : ~s[i].included => Bare(s[i].amount)
      <4>1. \A i \in 1..n : ~t[i].included => Bare(t[i].amount)
        BY <1>1, <1>2, <3>1
      <4>2. Bare(m) /\ Bare(o)
        BY <2>1, <3>1, <4>1 DEF Summarises
      <4> QED
        BY <4>2, BothBare
    <3>2. CASE ~ \A i \in 1..n : ~s[i].included => Bare(s[i].amount)
      <4>1. PICK j \in 1..n : ~s[j].included /\ ~Bare(s[j].amount)
        BY <3>2
      <4>2. PICK i \in 1..n : f[i] = j
        BY <1>4
      <4>3. s[j].amount.currency = m.currency
        BY <2>1, <4>1 DEF Summarises
      <4>4. ~t[i].included /\ ~Bare(t[i].amount) /\ t[i].amount = s[j].amount
        BY <1>2, <4>1, <4>2
      <4>5. t[i].amount.currency = o.currency
        BY <2>1, <4>4 DEF Summarises
      <4> QED
        BY <4>3, <4>4, <4>5
    <3> QED
      BY <3>1, <3>2
  <2>7. m.amount = o.amount
    BY <2>3, <2>4, <2>5, WorthAndScale
  <2> QED
    BY <2>2, <2>6, <2>7 DEF Moneys
<1>16. S = {} <=> T = {}
  BY <1>3, <1>11, <1>12, <1>13, <1>14
<1>17. S = T
  <2>1. CASE S = {}
    BY <1>16, <2>1
  <2>2. CASE S # {}
    BY <1>11, <1>12, <1>15, <1>16, <2>2
  <2> QED
    BY <2>1, <2>2
<1> QED
  BY <1>17 DEF S, T, t

-----------------------------------------------------------------------------
(* The invariant. *)

\* The running bill is what it should be, until something left the range; a
\* division shows what it was made of; the rest is what the mappers made of
\* one price on the wire.
ExactSoFar == ~strained => InRange(exact) /\ Worth(bill.amount) = exact

SharesAddUp ==
    \A d \in nightly :
        /\ d.shares.part.amount.units * d.nights + d.shares.remainder.amount.units
              = d.of.amount.units
        /\ Magnitude(d.shares.remainder.amount.units) < d.nights
        /\ d.shares.remainder.amount.units * d.of.amount.units >= 0

RatesAreRead == \A r \in rate : r.text \in RateTexts /\ r.answer = ParseRate(r.text)

BillInv ==
    /\ wire \in PriceResponse
    /\ quoted = mapPrice(wire)
    /\ booked \subseteq {bookedPrice(wire)}
    /\ bill \in Moneys
    /\ ExactSoFar
    /\ SharesAddUp
    /\ RatesAreRead

\* A bill that becomes a sum which is exact while everything is in range.
LEMMA BillStaysExact ==
    ASSUME ExactSoFar, NEW sum \in Moneys, NEW worth, NEW operand, BillBecomes(sum, worth, operand),
           InRange(worth) /\ InRange(operand) /\ ~strained => Worth(sum.amount) = worth
    PROVE  bill' \in Moneys /\ ExactSoFar'
<1>1. bill' = sum
  BY DEF BillBecomes
<1>2. strained' <=> (strained \/ ~InRange(worth) \/ ~InRange(operand))
  BY DEF BillBecomes
<1>3. ~strained' => exact' = worth
  BY DEF BillBecomes
<1>4. ASSUME ~strained' PROVE InRange(exact') /\ Worth(bill.amount)' = exact'
  <2>1. Worth(sum.amount) = worth /\ InRange(worth)
    BY <1>2, <1>4
  <2>2. Worth(bill.amount)' = Worth(sum.amount)
    BY <1>1 DEF Worth
  <2> QED
    BY <1>3, <1>4, <2>1, <2>2
<1>5. ExactSoFar'
  BY <1>4 DEF ExactSoFar, InRange
<1> QED
  BY <1>1, <1>5

\* Dividing a sum of money.
LEMMA SplitAddsUp ==
    ASSUME NEW m \in Moneys, NEW n \in Int, NEW s \in Split(m, n)
    PROVE  /\ s.part.amount.units * n + s.remainder.amount.units = m.amount.units
           /\ Magnitude(s.remainder.amount.units) < n
           /\ s.remainder.amount.units * m.amount.units >= 0
<1>1. PICK d \in DivMod(m.amount, n) :
        s = [part |-> Money(d.part, m.currency), remainder |-> Money(d.remainder, m.currency)]
  BY DEF Split
<1>2. s.part.amount = d.part /\ s.remainder.amount = d.remainder
  BY <1>1 DEF Money
<1>3. m.amount \in AmountSet
  BY DEF Moneys
<1> QED
  BY <1>2, <1>3, DivModIsExact

LEMMA BillInvariant == Spec => []BillInv
<1>1. Init => BillInv
  <2> SUFFICES ASSUME Init PROVE BillInv
    OBVIOUS
  <2>1. wire \in PriceResponse
    BY BillAssumption DEF Init
  <2>2. bill \in Moneys /\ ExactSoFar
    BY NoMoneyIsMoney, WidthAssumption DEF Init, ExactSoFar, InRange
  <2> QED
    BY <2>1, <2>2 DEF Init, BillInv, SharesAddUp, RatesAreRead
<1>2. BillInv /\ [Next]_vars => BillInv'
  <2> SUFFICES ASSUME BillInv, [Next]_vars PROVE BillInv'
    OBVIOUS
  <2> USE DEF BillInv
  <2>1. ASSUME nightly' = {} PROVE SharesAddUp'
    BY <2>1 DEF SharesAddUp
  <2>2. ASSUME rate' = {} PROVE RatesAreRead'
    BY <2>2 DEF RatesAreRead
  <2>3. bill.amount \in AmountSet
    BY DEF Moneys
  <2>4. ~strained => InRange(exact) /\ Worth(bill.amount) = exact
    BY DEF ExactSoFar
  <2>5. CASE Charge
    <3>1. PICK m \in {Payable(quoted)} \union TaxesTotal(quoted) \union PayableAtProperty(quoted) :
            \E sum \in AddMoney(bill, m) :
               BillBecomes(sum, exact + Worth(m.amount), Worth(m.amount))
      BY <2>5 DEF Charge
    <3>2. PICK sum \in AddMoney(bill, m) : BillBecomes(sum, exact + Worth(m.amount), Worth(m.amount))
      BY <3>1
    <3>3. m \in Moneys /\ m.amount \in AmountSet
      BY PriceIsMoney DEF Moneys
    <3>4. sum \in Moneys
      BY <3>3, AddMoneyIsMoney
    <3>5. sum.amount = Add(bill.amount, m.amount)
      BY DEF AddMoney, Money
    <3>6. InRange(exact + Worth(m.amount)) /\ InRange(Worth(m.amount)) /\ ~strained
            => Worth(sum.amount) = exact + Worth(m.amount)
      BY <2>3, <2>4, <3>3, <3>5, AddIsExact
    <3>7. bill' \in Moneys /\ ExactSoFar'
      BY <3>2, <3>4, <3>6, BillStaysExact
    <3>8. nightly' = {} /\ rate' = {} /\ UNCHANGED <<wire, quoted, booked>>
      BY <2>5, <3>2 DEF Charge, BillBecomes
    <3> QED
      BY <2>1, <2>2, <3>7, <3>8
  <2>6. CASE Refund
    <3>1. PICK m \in {Payable(quoted)} \union TaxesTotal(quoted) :
            \E sum \in SubMoney(bill, m) :
               BillBecomes(sum, exact - Worth(m.amount), Worth(m.amount))
      BY <2>6 DEF Refund
    <3>2. PICK sum \in SubMoney(bill, m) : BillBecomes(sum, exact - Worth(m.amount), Worth(m.amount))
      BY <3>1
    <3>3. m \in Moneys /\ m.amount \in AmountSet
      BY PriceIsMoney DEF Moneys
    <3>4. sum \in Moneys
      BY <3>3, SubMoneyIsMoney
    <3>5. sum.amount = Sub(bill.amount, m.amount)
      BY DEF SubMoney, Money
    <3>6. InRange(exact - Worth(m.amount)) /\ InRange(Worth(m.amount)) /\ ~strained
            => Worth(sum.amount) = exact - Worth(m.amount)
      BY <2>3, <2>4, <3>3, <3>5, SubIsExact
    <3>7. bill' \in Moneys /\ ExactSoFar'
      BY <3>2, <3>4, <3>6, BillStaysExact
    <3>8. nightly' = {} /\ rate' = {} /\ UNCHANGED <<wire, quoted, booked>>
      BY <2>6, <3>2 DEF Refund, BillBecomes
    <3> QED
      BY <2>1, <2>2, <3>7, <3>8
  <2>7. CASE Times
    <3>1. PICK n \in Counts : BillBecomes(MulMoney(bill, n), exact * n, Worth(bill.amount))
      BY <2>7 DEF Times
    <3>2. n \in Int
      BY BillAssumption
    <3>3. MulMoney(bill, n) \in Moneys /\ MulMoney(bill, n).amount = Mul(bill.amount, n)
      BY <2>3, <3>2, MulIsAmount DEF MulMoney, Money, Moneys
    <3>4. InRange(exact * n) /\ InRange(Worth(bill.amount)) /\ ~strained
            => Worth(MulMoney(bill, n).amount) = exact * n
      BY <2>3, <2>4, <3>2, <3>3, MulIsExact
    <3>5. bill' \in Moneys /\ ExactSoFar'
      BY <3>1, <3>3, <3>4, BillStaysExact
    <3>6. nightly' = {} /\ rate' = {} /\ UNCHANGED <<wire, quoted, booked>>
      BY <2>7, <3>1 DEF Times, BillBecomes
    <3> QED
      BY <2>1, <2>2, <3>5, <3>6
  <2>8. CASE Share
    <3>1. rate' = {} /\ UNCHANGED <<wire, quoted, booked, bill, exact, strained>>
      BY <2>8 DEF Share
    <3>2. ExactSoFar'
      BY <3>1 DEF ExactSoFar, InRange, Worth
    <3>3. PICK n \in Counts :
            \/ \E s \in Split(bill, n) : nightly' = {[of |-> bill, nights |-> n, shares |-> s]}
            \/ \E s \in PerNight(quoted, n) :
                  nightly' = {[of |-> quoted.total, nights |-> n, shares |-> s]}
      BY <2>8 DEF Share
    <3>4. n \in Int
      BY BillAssumption
    <3>5. CASE \E s \in Split(bill, n) : nightly' = {[of |-> bill, nights |-> n, shares |-> s]}
      <4>1. PICK s \in Split(bill, n) : nightly' = {[of |-> bill, nights |-> n, shares |-> s]}
        BY <3>5
      <4> QED
        BY <2>2, <3>1, <3>2, <3>4, <4>1, SplitAddsUp DEF SharesAddUp
    <3>6. CASE \E s \in PerNight(quoted, n) :
                  nightly' = {[of |-> quoted.total, nights |-> n, shares |-> s]}
      <4>1. PICK s \in PerNight(quoted, n) :
               nightly' = {[of |-> quoted.total, nights |-> n, shares |-> s]}
        BY <3>6
      <4>2. s \in Split(quoted.total, n) /\ quoted.total \in Moneys
        BY PriceIsMoney DEF PerNight
      <4> QED
        BY <2>2, <3>1, <3>2, <3>4, <4>1, <4>2, SplitAddsUp DEF SharesAddUp
    <3> QED
      BY <3>3, <3>5, <3>6
  <2>9. CASE Confirm
    <3>1. /\ booked' = {bookedPrice(wire)} /\ nightly' = {} /\ rate' = {}
          /\ UNCHANGED <<wire, quoted, bill, exact, strained>>
      BY <2>9 DEF Confirm
    <3>2. ExactSoFar'
      BY <3>1 DEF ExactSoFar, InRange, Worth
    <3> QED
      BY <2>1, <2>2, <3>1, <3>2
  <2>10. CASE ReadRate
    <3>1. PICK t \in RateTexts : rate' = {[text |-> t, answer |-> ParseRate(t)]}
      BY <2>10 DEF ReadRate
    <3>2. nightly' = {} /\ UNCHANGED <<wire, quoted, booked, bill, exact, strained>>
      BY <2>10 DEF ReadRate
    <3>3. ExactSoFar'
      BY <3>2 DEF ExactSoFar, InRange, Worth
    <3>4. RatesAreRead'
      BY <3>1 DEF RatesAreRead
    <3> QED
      BY <2>1, <3>2, <3>3, <3>4
  <2>11. CASE UNCHANGED vars
    BY <2>11 DEF vars, ExactSoFar, SharesAddUp, RatesAreRead, InRange, Worth
  <2> QED
    BY <2>5, <2>6, <2>7, <2>8, <2>9, <2>10, <2>11 DEF Next
<1> QED
  BY <1>1, <1>2, PTL DEF Spec

-----------------------------------------------------------------------------
(* Theorems. *)

\* However long a caller adds, subtracts and multiplies amounts of different
\* scales, for integers of any width: while operands and results are in range,
\* no step of align, Add, Sub or Mul wraps or saturates, and the bill is exact;
\* DivMod's shares and remainder always add up to what was divided.
THEOREM NothingIsLostAdding == Spec => []BillIsExact
<1>1. BillInv => BillIsExact
  BY DEF BillInv, ExactSoFar, SharesAddUp, BillIsExact
<1> QED
  BY <1>1, BillInvariant, PTL

\* Whatever a caller's sums come to, for integers of any width and any number of
\* fraction digits, the text of the bill (String: digits, padding, trimmed zeros)
\* is read by ParseAmount as the same value and written alike again.
THEOREM TextIsReadBack == Spec => []TextKeepsValue
<1>1. BillInv => TextKeepsValue
  <2> SUFFICES ASSUME BillInv, bill.amount.units # MinInt PROVE ReadsBack(bill.amount)
    BY DEF TextKeepsValue, ReadsBack
  <2>1. bill.amount \in AmountSet
    BY DEF BillInv, Moneys
  <2> QED
    BY <2>1, AmountIsKept
<1> QED
  BY <1>1, BillInvariant, PTL

\* The two mappers read the same bill from one price on the wire: to pay, the
\* markup, the taxes on top, in however many lines and currencies, and every
\* period's price.
THEOREM BookedAsQuoted == Spec => []QuoteAndBookingAgree
<1>1. BillInv => QuoteAndBookingAgree
  BY SameBill DEF BillInv, QuoteAndBookingAgree
<1> QED
  BY <1>1, BillInvariant, PTL

\* An exchange rate with more digits than an amount holds is read as the nearest
\* value it can hold, half away from zero, and is not refused while it is in
\* range: what is cut off and what the increment adds are both within half a unit.
THEOREM RatesAreRounded == Spec => []RateIsNearest
<1>1. BillInv => RateIsNearest
  <2> SUFFICES ASSUME BillInv, NEW r \in rate PROVE Nearest(r.text, r.answer)
    BY DEF RateIsNearest, Nearest
  <2>1. r.text \in RateTexts /\ r.answer = ParseRate(r.text)
    BY DEF BillInv, RatesAreRead
  <2>2. r.text.whole \in Seq(0..9) /\ r.text.fraction \in Seq(0..9)
    BY <2>1, BillAssumption
  <2> QED
    BY <2>1, <2>2, ParsedRateIsNearest
<1> QED
  BY <1>1, BillInvariant, PTL

\* The tax lines that are charged on top of the price stay in the range of the
\* finest scale, all their sizes together.  Beyond it Add saturates, and a credit
\* that would have brought the sum back comes too late in one order of the lines
\* and in time in another.
TaxesInRange == Adding(Sizes(quoted.taxes), Len(quoted.taxes))[Len(quoted.taxes)] <= MaxInt

\* Whatever the number, the currencies and the scales of the tax lines of an offer,
\* for integers of any width: while they stay in range, TaxesTotal comes to the
\* same amount at the same scale in the same currency for every order of them, or
\* to none in every order.
THEOREM TaxesInAnyOrder == Spec => [](TaxesInRange => TaxOrderDoesNotMatter)
<1>1. BillInv => (TaxesInRange => TaxOrderDoesNotMatter)
  <2> SUFFICES ASSUME BillInv, TaxesInRange PROVE TaxOrderDoesNotMatter
    OBVIOUS
  <2> DEFINE s == quoted.taxes
             n == Len(s)
  <2>1. s \in Seq(TaxLine)
    BY TaxesAreLines DEF BillInv
  <2>2. n \in Nat /\ DOMAIN s = 1..n
    BY <2>1
  <2>3. ASSUME NEW f, Permutes(f, n)
        PROVE  TaxesTotal([quoted EXCEPT !.taxes = [i \in 1..n |-> s[f[i]]]]) = TaxesTotal(quoted)
    <3> DEFINE p == [quoted EXCEPT !.taxes = [i \in 1..n |-> s[f[i]]]]
    <3>1. "taxes" \in DOMAIN quoted
      BY DEF BillInv, mapPrice
    <3>2. p.taxes = Reordered(s, f)
      BY <3>1 DEF Reordered
    <3> HIDE DEF p
    <3>3. TaxesTotal(p) = Sum(AmountsOf(Kept(p.taxes, OnTop(p.taxes))))
      BY DEF TaxesTotal, OnTop
    <3>4. TaxesTotal(quoted) = Sum(AmountsOf(Kept(s, OnTop(s))))
      BY DEF TaxesTotal, OnTop
    <3>5. Adding(Sizes(s), Len(s))[Len(s)] <= MaxInt
      BY DEF TaxesInRange
    <3>6. Sum(AmountsOf(Kept(Reordered(s, f), OnTop(Reordered(s, f))))) =
              Sum(AmountsOf(Kept(s, OnTop(s))))
      <4> HIDE DEF s
      <4> QED
        BY <2>1, <2>3, <3>5, SameTotalInAnyOrder DEF n
    <3> QED
      BY <3>2, <3>3, <3>4, <3>6 DEF p
  <2> HIDE DEF s, n
  <2>4. quoted.taxes = s
    BY DEF s
  <2> QED
    BY <2>2, <2>3, <2>4 DEF TaxOrderDoesNotMatter, Permutes
<1> QED
  BY <1>1, BillInvariant, PTL

-----------------------------------------------------------------------------
(* The groups and what is in them. *)

Keys(h, by) == {Key(by, o.room) : o \in ToSet(h.offers)}

LEMMA OffersApart ==
    ASSUME NEW h, IsHotel(h)
    PROVE  /\ h.offers \in Seq(ToSet(h.offers)) /\ IsInjective(h.offers)
           /\ \A o, p \in ToSet(h.offers) : o.id = p.id => o = p
<1>1. h.offers \in Seq(ToSet(h.offers)) /\ IsInjective(h.offers)
  BY DEF IsHotel, IsInjective
<1>2. \A o, p \in ToSet(h.offers) : o.id = p.id => o = p
  BY DEF IsHotel, ToSet
<1> QED
  BY <1>1, <1>2

LEMMA KeysSeenRounds ==
    ASSUME NEW h, IsHotel(h), NEW by
    PROVE  /\ KeysSeen(h, by)[0] = <<>>
           /\ \A n \in 1..Len(h.offers) :
                 LET key == Key(by, h.offers[n].room)  seen == KeysSeen(h, by)[n - 1]
                 IN  KeysSeen(h, by)[n] = IF key \in ToSet(seen) THEN seen ELSE Append(seen, key)
<1> DEFINE m == Len(h.offers)
           K == Keys(h, by)
           One(seen, key) == IF key \in ToSet(seen) THEN seen ELSE Append(seen, key)
           Step(f, n) == IF n = 0 THEN <<>> ELSE One(f[n - 1], Key(by, h.offers[n].room))
           round == [n \in 1..m |-> [t \in Seq(K) |-> One(t, Key(by, h.offers[n].room))]]
<1>1. m \in Nat /\ \A n \in 1..m : Key(by, h.offers[n].room) \in K
  <2>1. h.offers \in Seq(ToSet(h.offers))
    BY DEF IsHotel
  <2>2. m \in Nat /\ \A n \in 1..m : h.offers[n] \in ToSet(h.offers)
    BY <2>1
  <2> QED
    BY <2>2 DEF Keys
<1> HIDE DEF m, K
<1>2. round \in Rounds(m, Seq(K)) /\ <<>> \in Seq(K)
  <2>1. \A n \in 1..m, t \in Seq(K) : One(t, Key(by, h.offers[n].room)) \in Seq(K)
    BY <1>1
  <2> HIDE DEF One
  <2> QED
    BY <2>1 DEF Rounds
<1>3. PICK f : IsRun(f, Seq(K), <<>>, m, round)
  <2> HIDE DEF round
  <2> QED
    BY <1>1, <1>2, LoopExists
<1>4. \A n \in 0..m : f[n] = Step(f, n)
  <2> SUFFICES ASSUME NEW n \in 0..m, n # 0 PROVE f[n] = Step(f, n)
    BY <1>3 DEF IsRun
  <2> HIDE DEF One
  <2>1. n \in 1..m /\ n - 1 \in 0..m /\ f[n - 1] \in Seq(K)
    BY <1>1, <1>3 DEF IsRun
  <2> QED
    BY <1>3, <2>1 DEF IsRun
<1>5. f = [n \in 0..m |-> Step(f, n)]
  <2> HIDE DEF Step
  <2> QED
    BY <1>3, <1>4 DEF IsRun
<1> DEFINE order == KeysSeen(h, by)
<1>6. order = [n \in 0..m |-> Step(order, n)]
  <2>1. KeysSeen(h, by) = CHOOSE g : g = [n \in 0..m |-> Step(g, n)]
    BY DEF KeysSeen, m
  <2> HIDE DEF Step
  <2> QED
    BY <1>5, <2>1
<1> HIDE DEF order
<1>7. order[0] = <<>>
  BY <1>1, <1>6
<1>8. \A n \in 1..m : order[n] = One(order[n - 1], Key(by, h.offers[n].room))
  <2> HIDE DEF One
  <2> QED
    BY <1>1, <1>6
<1> QED
  BY <1>7, <1>8 DEF order, m

\* The loop finds every key once.
LEMMA KeysAreSeen ==
    ASSUME NEW h, IsHotel(h), NEW by
    PROVE  LET keys == KeysSeen(h, by)[Len(h.offers)]
           IN  keys \in Seq(Keys(h, by)) /\ IsInjective(keys) /\ ToSet(keys) = Keys(h, by)
<1> DEFINE m == Len(h.offers)
           K == Keys(h, by)
           order == KeysSeen(h, by)
           key(n) == Key(by, h.offers[n].room)
           Right(n) == order[n] \in Seq(K) /\ IsInjective(order[n]) /\ ToSet(order[n]) = {key(i) : i \in 1..n}
           Upto == {n \in Nat : n <= m => Right(n)}
<1>1. /\ m \in Nat /\ \A n \in 1..m : key(n) \in K
      /\ K = {key(i) : i \in 1..m}
  <2>1. h.offers \in Seq(ToSet(h.offers))
    BY DEF IsHotel
  <2>2. m \in Nat /\ DOMAIN h.offers = 1..m
    BY <2>1
  <2>3. ToSet(h.offers) = {h.offers[i] : i \in 1..m}
    BY <2>2 DEF ToSet
  <2>4. K = {key(i) : i \in 1..m}
    BY <2>3 DEF Keys
  <2> QED
    BY <2>2, <2>4
<1>2. /\ order[0] = <<>>
      /\ \A n \in 1..m : order[n] = IF key(n) \in ToSet(order[n - 1]) THEN order[n - 1]
                                    ELSE Append(order[n - 1], key(n))
  BY KeysSeenRounds
<1> HIDE DEF m, K, order, key
<1>3. 0 \in Upto
  <2>1. <<>> \in Seq(K) /\ IsInjective(<<>>) /\ ToSet(<<>>) = {}
    BY DEF IsInjective, ToSet
  <2>2. {key(i) : i \in 1..0} = {}
    OBVIOUS
  <2>3. Right(0)
    BY <1>2, <2>1, <2>2
  <2> HIDE DEF Right
  <2> QED
    BY <2>3
<1>4. \A n \in Nat : n \in Upto => n + 1 \in Upto
  <2> SUFFICES ASSUME NEW n \in Nat, n \in Upto, n + 1 <= m PROVE Right(n + 1)
    <3> HIDE DEF Right
    <3> QED
      OBVIOUS
  <2>1. Right(n)
    <3> HIDE DEF Right
    <3> QED
      BY <1>1
  <2>2. n + 1 \in 1..m /\ (n + 1) - 1 = n
    <3> HIDE DEF Upto
    <3> QED
      BY <1>1
  <2>3. order[n + 1] = IF key(n + 1) \in ToSet(order[n]) THEN order[n] ELSE Append(order[n], key(n + 1))
    BY <1>2, <2>2
  <2>4. {key(i) : i \in 1..(n + 1)} = {key(i) : i \in 1..n} \union {key(n + 1)}
    OBVIOUS
  <2>5. CASE key(n + 1) \in ToSet(order[n])
    BY <2>1, <2>3, <2>4, <2>5
  <2>6. CASE key(n + 1) \notin ToSet(order[n])
    <3> DEFINE seen == order[n]
               x == key(n + 1)
    <3>1. x \in K /\ x \notin ToSet(seen) /\ seen \in Seq(K) /\ IsInjective(seen)
      BY <1>1, <2>1, <2>2, <2>6
    <3>2. order[n + 1] = Append(seen, x) /\ ToSet(seen) = {key(i) : i \in 1..n}
      BY <2>1, <2>3, <2>6
    <3> HIDE DEF seen, x
    <3>3. Append(seen, x) \in Seq(K) /\ IsInjective(Append(seen, x)) /\ ToSet(Append(seen, x)) = ToSet(seen) \union {x}
      BY <3>1, AppendedApart
    <3> QED
      BY <2>4, <3>2, <3>3 DEF x
  <2> QED
    BY <2>5, <2>6
<1>5. m \in Upto
  <2> HIDE DEF Upto
  <2> QED
    BY <1>1, <1>3, <1>4, SetInduction
<1>6. Right(m)
  <2> HIDE DEF Right
  <2> QED
    BY <1>1, <1>5
<1> QED
  BY <1>1, <1>6 DEF m, K, order

\* A bucket has the offers of its key, each once.
LEMMA BucketElements ==
    ASSUME NEW h, IsHotel(h), NEW by, NEW key \in Keys(h, by)
    PROVE  LET b == Bucket(h, by, key)
               S == ToSet(h.offers)
           IN  /\ b.key = key /\ b.priceFrom = b.offers[1].total
               /\ b.offers \in Seq(S) /\ IsInjective(b.offers) /\ b.offers # <<>>
               /\ ToSet(b.offers) = {o \in S : Key(by, o.room) = key}
               /\ TotalOrder(Cheaper(h), S) => InOrder(b.offers, Cheaper(h))
<1> DEFINE S == ToSet(h.offers)
           wanted == {o \in S : Key(by, o.room) = key}
           listed == Kept(h.offers, wanted)
           offers == SliceStable(listed, Cheaper(h))
<1>1. h.offers \in Seq(S) /\ IsInjective(h.offers)
  BY OffersApart
<1>2. listed \in Seq(S) /\ IsInjective(listed) /\ ToSet(listed) = S \cap wanted
  BY <1>1, KeptElements, KeptApart
<1>3. S \cap wanted = wanted /\ wanted # {}
  BY DEF Keys
<1>4. Bucket(h, by, key) = [key |-> key, priceFrom |-> offers[1].total, offers |-> offers]
  BY DEF Bucket
<1> HIDE DEF S, wanted, listed
<1>5. /\ offers \in Seq(S) /\ IsInjective(offers) /\ ToSet(offers) = ToSet(listed)
      /\ TotalOrder(Cheaper(h), S) => InOrder(offers, Cheaper(h))
  BY <1>2, SortedElements
<1> HIDE DEF offers
<1>6. offers # <<>>
  <2>1. ToSet(<<>>) = {}
    BY DEF ToSet
  <2> QED
    BY <1>2, <1>3, <1>5, <2>1
<1> QED
  BY <1>2, <1>3, <1>4, <1>5, <1>6 DEF S, wanted

Buckets(h, by) == {Bucket(h, by, key) : key \in Keys(h, by)}

FirstGroup(h, by) == {pair \in Buckets(h, by) \X Buckets(h, by) : GroupLess(h.rates, pair[1], pair[2])}

\* There is a group for each key, once.
LEMMA GroupElements ==
    ASSUME NEW h, IsHotel(h), NEW by
    PROVE  /\ groupBy(h, by) \in Seq(Buckets(h, by)) /\ IsInjective(groupBy(h, by))
           /\ ToSet(groupBy(h, by)) = Buckets(h, by)
           /\ TotalOrder(FirstGroup(h, by), Buckets(h, by)) => InOrder(groupBy(h, by), FirstGroup(h, by))
<1> DEFINE K       == Keys(h, by)
           B       == Buckets(h, by)
           keys    == KeysSeen(h, by)[Len(h.offers)]
           buckets == [i \in DOMAIN keys |-> Bucket(h, by, keys[i])]
<1>1. keys \in Seq(K) /\ IsInjective(keys) /\ ToSet(keys) = K
  BY KeysAreSeen
<1>2. groupBy(h, by) = SliceStable(buckets, {pair \in ToSet(buckets) \X ToSet(buckets) :
                                               GroupLess(h.rates, pair[1], pair[2])})
  BY DEF groupBy
<1> HIDE DEF keys
<1>3. Len(keys) \in Nat /\ DOMAIN keys = 1..Len(keys) /\ \A i \in DOMAIN keys : keys[i] \in K
  BY <1>1
<1>4. B = {Bucket(h, by, keys[i]) : i \in DOMAIN keys}
  BY <1>1 DEF ToSet, Buckets
<1>5. buckets \in Seq(B) /\ ToSet(buckets) = B
  <2>1. buckets \in [1..Len(keys) -> B]
    BY <1>3, <1>4
  <2>2. ToSet(buckets) = B
    BY <1>4 DEF ToSet
  <2> QED
    BY <1>3, <2>1, <2>2
<1>6. IsInjective(buckets)
  <2>1. \A k, l \in K : Bucket(h, by, k) = Bucket(h, by, l) => k = l
    BY BucketElements DEF Bucket
  <2>2. DOMAIN buckets = DOMAIN keys
    OBVIOUS
  <2> SUFFICES ASSUME NEW i \in DOMAIN keys, NEW j \in DOMAIN keys, buckets[i] = buckets[j] PROVE i = j
    BY <2>2 DEF IsInjective
  <2>3. keys[i] = keys[j]
    BY <1>3, <2>1
  <2> QED
    BY <1>1, <2>3 DEF IsInjective
<1>7. groupBy(h, by) = SliceStable(buckets, FirstGroup(h, by))
  BY <1>2, <1>5 DEF FirstGroup
<1> HIDE DEF buckets, B
<1> QED
  BY <1>5, <1>6, <1>7, SortedElements DEF B

-----------------------------------------------------------------------------
(* No offer is lost. *)

\* What was returned is what the loops make of the hotel.
GroupingInv ==
    /\ hotel \in Hotels
    /\ keyOf = "none" => groups = <<>>
    /\ keyOf # "none" => groups = groupBy(hotel, keyOf)
    /\ best # {} => best = CheapestOf(hotel)

LEMMA GroupingInvariant == GroupingSpec => []GroupingInv
<1>1. GroupingInit => GroupingInv
  BY DEF GroupingInit, GroupingInv
<1>2. GroupingInv /\ [GroupingNext]_groupingVars => GroupingInv'
  BY DEF GroupingInv, GroupingNext, GroupByRoom, GroupByCategory, Cheapest, groupingVars
<1> QED
  BY <1>1, <1>2, PTL DEF GroupingSpec

\* EveryOfferOnce, of the groups of one hotel.
OffersOnce(h, by, gs) ==
    /\ \A o \in ToSet(h.offers) :
          \E i \in DOMAIN gs : \E k \in DOMAIN gs[i].offers :
              /\ gs[i].offers[k] = o
              /\ gs[i].key = Key(by, o.room)
              /\ \A j \in DOMAIN gs : \A l \in DOMAIN gs[j].offers :
                    gs[j].offers[l].id = o.id => i = j /\ k = l
    /\ \A i, j \in DOMAIN gs : gs[i].key = gs[j].key => i = j
    /\ \A i \in DOMAIN gs : ToSet(gs[i].offers) \subseteq ToSet(h.offers)

LEMMA EachOfferOnce ==
    ASSUME NEW h, IsHotel(h), NEW by, NEW gs, gs = groupBy(h, by)
    PROVE  OffersOnce(h, by, gs)
<1> DEFINE S == ToSet(h.offers)
<1>1. IsInjective(gs) /\ ToSet(gs) = Buckets(h, by)
  BY GroupElements
<1>2. \A i \in DOMAIN gs : \E key \in Keys(h, by) : gs[i] = Bucket(h, by, key)
  BY <1>1 DEF ToSet, Buckets
<1>3. ASSUME NEW i \in DOMAIN gs
      PROVE  /\ gs[i].key \in Keys(h, by) /\ gs[i] = Bucket(h, by, gs[i].key)
             /\ IsInjective(gs[i].offers)
             /\ ToSet(gs[i].offers) = {o \in S : Key(by, o.room) = gs[i].key}
  <2>1. PICK key \in Keys(h, by) : gs[i] = Bucket(h, by, key)
    BY <1>2
  <2> QED
    BY <2>1, BucketElements
<1>4. ASSUME NEW i \in DOMAIN gs, NEW j \in DOMAIN gs, gs[i].key = gs[j].key PROVE i = j
  <2>1. gs[i] = gs[j]
    BY <1>3, <1>4
  <2> QED
    BY <1>1, <2>1 DEF IsInjective
<1>5. ASSUME NEW o \in S
      PROVE  \E i \in DOMAIN gs : \E k \in DOMAIN gs[i].offers :
                /\ gs[i].offers[k] = o
                /\ gs[i].key = Key(by, o.room)
                /\ \A j \in DOMAIN gs : \A l \in DOMAIN gs[j].offers :
                      gs[j].offers[l].id = o.id => i = j /\ k = l
  <2>1. Key(by, o.room) \in Keys(h, by)
    BY DEF Keys
  <2>2. PICK i \in DOMAIN gs : gs[i] = Bucket(h, by, Key(by, o.room))
    BY <1>1, <2>1 DEF ToSet, Buckets
  <2>3. gs[i].key = Key(by, o.room) /\ o \in ToSet(gs[i].offers)
    BY <2>1, <2>2, BucketElements
  <2>4. PICK k \in DOMAIN gs[i].offers : gs[i].offers[k] = o
    BY <2>3 DEF ToSet
  <2>5. ASSUME NEW j \in DOMAIN gs, NEW l \in DOMAIN gs[j].offers, gs[j].offers[l].id = o.id
        PROVE  i = j /\ k = l
    <3>1. gs[j].offers[l] \in S /\ Key(by, gs[j].offers[l].room) = gs[j].key
      BY <1>3 DEF ToSet
    <3>2. gs[j].offers[l] = o
      BY <2>5, <3>1, OffersApart
    <3>3. i = j
      BY <1>4, <2>3, <3>1, <3>2
    <3>4. gs[i].offers[l] = gs[i].offers[k] /\ l \in DOMAIN gs[i].offers
      BY <2>4, <3>2, <3>3
    <3> QED
      BY <1>3, <3>3, <3>4 DEF IsInjective
  <2> QED
    BY <2>3, <2>4, <2>5
<1>6. \A i \in DOMAIN gs : ToSet(gs[i].offers) \subseteq S
  BY <1>3
<1> HIDE DEF S
<1>7. \A i, j \in DOMAIN gs : gs[i].key = gs[j].key => i = j
  BY <1>4
<1> QED
  BY <1>5, <1>6, <1>7 DEF S, OffersOnce

\* Whatever the offers and the rates, each offer is in one group, that of its
\* room, and in one place of it: regrouping loses no rate and repeats none.
THEOREM NoOfferIsLost == GroupingSpec => []EveryOfferOnce
<1>1. GroupingInv => EveryOfferOnce
  <2> SUFFICES ASSUME GroupingInv, keyOf # "none" PROVE OffersOnce(hotel, keyOf, groups)
    BY DEF EveryOfferOnce, OffersOnce
  <2>1. IsHotel(hotel) /\ groups = groupBy(hotel, keyOf)
    BY HotelsAssumption DEF GroupingInv
  <2> QED
    BY <2>1, EachOfferOnce
<1> QED
  BY <1>1, GroupingInvariant, PTL

-----------------------------------------------------------------------------
(* Rounding one digit at a time. *)

LEMMA RoundedTenth ==
    ASSUME NEW m \in Int, NEW n \in Int
    PROVE  /\ roundedDiv(n, 10) \in Int
           /\ roundedDiv(10 * n, 10) = n
           /\ m <= n => roundedDiv(m, 10) <= roundedDiv(n, 10)
           /\ n \in MachineInt => roundedDiv(n, 10) \in MachineInt
<1>1. \A k \in Int : roundedDiv(k, 10) = IF k < 0 THEN -((10 - 2 * k) \div 20) ELSE (2 * k + 10) \div 20
  BY DEF roundedDiv
<1>2. MaxInt \in Nat /\ MachineInt = (-MaxInt - 1)..MaxInt
  BY WidthAssumption DEF MachineInt, MinInt
<1>3. roundedDiv(n, 10) \in Int
  BY <1>1
<1>4. roundedDiv(10 * n, 10) = n
  BY <1>1
<1>5. m <= n => roundedDiv(m, 10) <= roundedDiv(n, 10)
  BY <1>1
<1>6. n \in MachineInt => roundedDiv(n, 10) \in MachineInt
  BY <1>1, <1>2
<1> QED
  BY <1>3, <1>4, <1>5, <1>6

\* The number after each digit shed.
Shedding(n, digits) ==
    CHOOSE f : f = [k \in 0..digits |-> IF k = 0 THEN n ELSE roundedDiv(f[k - 1], 10)]

LEMMA SheddingRounds ==
    ASSUME NEW n \in Int, NEW digits \in Nat
    PROVE  /\ Shed(n, digits) = Shedding(n, digits)[digits] /\ Shedding(n, digits)[0] = n
           /\ \A k \in 1..digits : Shedding(n, digits)[k] = roundedDiv(Shedding(n, digits)[k - 1], 10)
           /\ \A k \in 0..digits : Shedding(n, digits)[k] \in Int
<1> DEFINE Step(f, k) == IF k = 0 THEN n ELSE roundedDiv(f[k - 1], 10)
           round == [k \in 1..digits |-> [v \in Int |-> roundedDiv(v, 10)]]
<1>1. round \in Rounds(digits, Int)
  BY RoundedTenth DEF Rounds
<1>2. PICK f : IsRun(f, Int, n, digits, round)
  <2> HIDE DEF round
  <2> QED
    BY <1>1, LoopExists
<1>3. \A k \in 0..digits : f[k] = Step(f, k)
  <2> SUFFICES ASSUME NEW k \in 0..digits, k # 0 PROVE f[k] = Step(f, k)
    BY <1>2 DEF IsRun
  <2>1. k \in 1..digits /\ k - 1 \in 0..digits /\ f[k - 1] \in Int
    BY <1>2 DEF IsRun
  <2> QED
    BY <1>2, <2>1 DEF IsRun
<1>4. f = [k \in 0..digits |-> Step(f, k)]
  <2> HIDE DEF Step
  <2> QED
    BY <1>2, <1>3 DEF IsRun
<1> DEFINE p == Shedding(n, digits)
<1>5. p = [k \in 0..digits |-> Step(p, k)]
  <2>1. p = CHOOSE g : g = [k \in 0..digits |-> Step(g, k)]
    BY DEF Shedding
  <2> HIDE DEF Step, p
  <2> QED
    BY <1>4, <2>1
<1>6. Shed(n, digits) = p[digits]
  BY DEF Shed, Shedding
<1> HIDE DEF p
<1>7. p[0] = n
  BY <1>5
<1>8. \A k \in 1..digits : p[k] = roundedDiv(p[k - 1], 10)
  BY <1>5
<1> DEFINE Upto == {k \in Nat : k <= digits => p[k] \in Int}
<1>9. 0 \in Upto
  BY <1>7
<1>10. \A k \in Nat : k \in Upto => k + 1 \in Upto
  <2> SUFFICES ASSUME NEW k \in Nat, k \in Upto, k + 1 <= digits PROVE p[k + 1] \in Int
    OBVIOUS
  <2>1. k + 1 \in 1..digits /\ (k + 1) - 1 = k /\ p[k] \in Int
    OBVIOUS
  <2>2. p[k + 1] = roundedDiv(p[k], 10)
    BY <1>8, <2>1
  <2> QED
    BY <2>1, <2>2, RoundedTenth
<1>11. \A k \in 0..digits : p[k] \in Int
  <2>1. Nat \subseteq Upto
    <3> HIDE DEF Upto
    <3> QED
      BY <1>9, <1>10, SetInduction
  <2> QED
    BY <2>1
<1> QED
  BY <1>6, <1>7, <1>8, <1>11 DEF p

LEMMA ShedNone ==
    ASSUME NEW n \in Int
    PROVE  Shed(n, 0) = n
  BY SheddingRounds

LEMMA ShedIsInt ==
    ASSUME NEW n \in Int, NEW digits \in Nat
    PROVE  Shed(n, digits) \in Int
  BY SheddingRounds

\* One digit more.
LEMMA ShedNext ==
    ASSUME NEW n \in Int, NEW digits \in Nat
    PROVE  Shed(n, digits + 1) = roundedDiv(Shed(n, digits), 10)
<1> DEFINE p == Shedding(n, digits)
           q == Shedding(n, digits + 1)
           Upto == {k \in Nat : k <= digits => p[k] = q[k]}
<1>1. Shed(n, digits) = p[digits] /\ p[0] = n /\ \A k \in 1..digits : p[k] = roundedDiv(p[k - 1], 10)
  BY SheddingRounds
<1>2. digits + 1 \in Nat
  OBVIOUS
<1>3. /\ Shed(n, digits + 1) = q[digits + 1] /\ q[0] = n
      /\ \A k \in 1..(digits + 1) : q[k] = roundedDiv(q[k - 1], 10)
  BY <1>2, SheddingRounds
<1> HIDE DEF p, q
<1>4. 0 \in Upto
  BY <1>1, <1>3
<1>5. \A k \in Nat : k \in Upto => k + 1 \in Upto
  <2> SUFFICES ASSUME NEW k \in Nat, k \in Upto, k + 1 <= digits PROVE p[k + 1] = q[k + 1]
    OBVIOUS
  <2>1. k + 1 \in 1..digits /\ k + 1 \in 1..(digits + 1) /\ (k + 1) - 1 = k /\ p[k] = q[k]
    OBVIOUS
  <2> QED
    BY <1>1, <1>3, <2>1
<1>6. digits \in Upto
  <2> HIDE DEF Upto
  <2> QED
    BY <1>4, <1>5, SetInduction
<1>7. digits + 1 \in 1..(digits + 1) /\ (digits + 1) - 1 = digits
  OBVIOUS
<1> QED
  BY <1>1, <1>3, <1>6, <1>7

\* Shedding some digits and then the others sheds them all.
LEMMA ShedInTwo ==
    ASSUME NEW n \in Int, NEW j \in Nat, NEW k \in Nat
    PROVE  Shed(Shed(n, j), k) = Shed(n, j + k)
<1> DEFINE v == Shed(n, j)
           Upto == {i \in Nat : Shed(v, i) = Shed(n, j + i)}
<1>1. v \in Int
  BY ShedIsInt
<1>2. 0 \in Upto
  BY <1>1, ShedNone
<1>3. \A i \in Nat : i \in Upto => i + 1 \in Upto
  <2> SUFFICES ASSUME NEW i \in Nat, i \in Upto PROVE Shed(v, i + 1) = Shed(n, j + (i + 1))
    OBVIOUS
  <2>1. j + i \in Nat /\ j + (i + 1) = (j + i) + 1
    OBVIOUS
  <2>2. Shed(n, (j + i) + 1) = roundedDiv(Shed(n, j + i), 10)
    BY <2>1, ShedNext
  <2>3. Shed(v, i + 1) = roundedDiv(Shed(v, i), 10)
    BY <1>1, ShedNext
  <2>4. Shed(v, i) = Shed(n, j + i)
    OBVIOUS
  <2> QED
    BY <2>1, <2>2, <2>3, <2>4
<1>4. k \in Upto
  <2> HIDE DEF Upto
  <2> QED
    BY <1>2, <1>3, SetInduction
<1> QED
  BY <1>4

\* Zeros are shed without a trace.
LEMMA ShedZeros ==
    ASSUME NEW n \in Int, NEW k \in Nat
    PROVE  Shed(n * TenTo(k), k) = n
<1> DEFINE Upto == {i \in Nat : \A m \in Int : Shed(m * TenTo(i), i) = m}
<1>1. 0 \in Upto
  BY TenToZero, ShedNone
<1>2. \A i \in Nat : i \in Upto => i + 1 \in Upto
  <2> SUFFICES ASSUME NEW i \in Nat, i \in Upto, NEW m \in Int PROVE Shed(m * TenTo(i + 1), i + 1) = m
    OBVIOUS
  <2> DEFINE p == TenTo(i)
  <2>1. p \in Nat /\ TenTo(i + 1) = 10 * p
    BY TenToPositive, TenToNext
  <2>2. \A l \in Int : Shed(l * p, i) = l
    OBVIOUS
  <2> HIDE DEF p
  <2>3. m * (10 * p) = (10 * m) * p /\ 10 * m \in Int /\ (10 * m) * p \in Int
    BY <2>1
  <2>4. Shed((10 * m) * p, i) = 10 * m
    BY <2>2, <2>3
  <2> DEFINE v == (10 * m) * p
  <2> HIDE DEF v
  <2>5. Shed(v, i + 1) = roundedDiv(Shed(v, i), 10)
    BY <2>3, ShedNext DEF v
  <2>6. roundedDiv(10 * m, 10) = m
    BY RoundedTenth
  <2> QED
    BY <2>1, <2>3, <2>4, <2>5, <2>6 DEF v
<1>3. k \in Upto
  <2> HIDE DEF Upto
  <2> QED
    BY <1>1, <1>2, SetInduction
<1> QED
  BY <1>3

\* Shedding keeps the order, and keeps machine integers what they are.
LEMMA ShedKeepsOrder ==
    ASSUME NEW m \in Int, NEW n \in Int, NEW k \in Nat
    PROVE  /\ m <= n => Shed(m, k) <= Shed(n, k)
           /\ n \in MachineInt => Shed(n, k) \in MachineInt
<1> DEFINE Upto == {i \in Nat : /\ m <= n => Shed(m, i) <= Shed(n, i)
                                /\ n \in MachineInt => Shed(n, i) \in MachineInt}
<1>1. 0 \in Upto
  BY ShedNone
<1>2. \A i \in Nat : i \in Upto => i + 1 \in Upto
  <2> SUFFICES ASSUME NEW i \in Nat, i \in Upto PROVE i + 1 \in Upto
    OBVIOUS
  <2> DEFINE a == Shed(m, i)
             b == Shed(n, i)
  <2>1. a \in Int /\ b \in Int
    BY ShedIsInt
  <2>2. Shed(m, i + 1) = roundedDiv(a, 10) /\ Shed(n, i + 1) = roundedDiv(b, 10)
    BY ShedNext
  <2>3. (m <= n => a <= b) /\ (n \in MachineInt => b \in MachineInt)
    OBVIOUS
  <2> HIDE DEF a, b
  <2>4. /\ a <= b => roundedDiv(a, 10) <= roundedDiv(b, 10)
        /\ b \in MachineInt => roundedDiv(b, 10) \in MachineInt
    BY <2>1, RoundedTenth
  <2> QED
    BY <2>2, <2>3, <2>4
<1>3. k \in Upto
  <2> HIDE DEF Upto
  <2> QED
    BY <1>1, <1>2, SetInduction
<1> QED
  BY <1>3

-----------------------------------------------------------------------------
(* Comparing amounts. *)

\* Units that cannot be raised are beyond the machine's integers at that scale.
LEMMA RaisedOrSaturated ==
    ASSUME NEW units \in MachineInt, NEW by \in Nat
    PROVE  /\ rescale(units, by) # {} => Raised(units, by) = units * TenTo(by)
           /\ rescale(units, by) = {} =>
                 \/ Raised(units, by) = MaxInt /\ units * TenTo(by) > MaxInt
                 \/ Raised(units, by) = MinInt /\ units * TenTo(by) < MinInt
<1> DEFINE low  == -((MaxInt + 1) \div 10)
           high == MaxInt \div 10
           fine == \A i \in 0..(by - 1) : units * TenTo(i) \in low..high
<1>1. /\ low \in Int /\ high \in Int /\ MaxInt \in Nat /\ MinInt = -MaxInt - 1
      /\ low <= 0 /\ high >= 0
      /\ 10 * (high + 1) > MaxInt /\ 10 * (low - 1) < MinInt
  BY WidthAssumption DEF MinInt
<1>2. rescale(units, by) = IF fine THEN {units * TenTo(by)} ELSE {}
  BY DEF rescale
<1>3. fine => Raised(units, by) = units * TenTo(by)
  <2> HIDE DEF fine
  <2> QED
    BY <1>2 DEF Raised
<1>4. ~fine => Raised(units, by) = saturatedUnits(units > 0)
  <2> HIDE DEF fine
  <2> QED
    BY <1>2 DEF Raised
<1>5. ASSUME ~fine
      PROVE  \/ Raised(units, by) = MaxInt /\ units * TenTo(by) > MaxInt
             \/ Raised(units, by) = MinInt /\ units * TenTo(by) < MinInt
  <2>1. PICK i \in 0..(by - 1) : units * TenTo(i) \notin low..high
    BY <1>5
  <2> DEFINE p == TenTo(i)
             q == TenTo(by - i - 1)
             n == units * p
  <2>2. i \in Nat /\ by - i - 1 \in Nat /\ i + ((by - i - 1) + 1) = by
    OBVIOUS
  <2>3. TenTo(by) = p * (10 * q) /\ p \in Nat /\ p >= 1 /\ q \in Nat /\ q >= 1
    BY <2>2, TenToSum, TenToNext, TenToPositive
  <2>4. units \in Int
    BY <1>1 DEF MachineInt
  <2> HIDE DEF p, q, low, high, fine
  <2>5. units * (p * (10 * q)) = (10 * n) * q /\ n \in Int /\ (n > 0 => units > 0) /\ (n < 0 => ~(units > 0))
    BY <2>3, <2>4
  <2>6. n \notin low..high
    BY <2>1 DEF p
  <2> HIDE DEF n
  <2>7. CASE n > high
    <3>1. 10 * n > MaxInt /\ (10 * n) * q >= 10 * n
      BY <1>1, <2>3, <2>5, <2>7
    <3>2. Raised(units, by) = MaxInt
      BY <1>1, <1>4, <1>5, <2>5, <2>7 DEF saturatedUnits
    <3> QED
      BY <1>1, <2>3, <2>5, <3>1, <3>2
  <2>8. CASE n < low
    <3>1. 10 * n < MinInt /\ (10 * n) * q <= 10 * n
      BY <1>1, <2>3, <2>5, <2>8
    <3>2. Raised(units, by) = MinInt
      BY <1>1, <1>4, <1>5, <2>5, <2>8 DEF saturatedUnits
    <3> QED
      BY <1>1, <2>3, <2>5, <3>1, <3>2
  <2> QED
    BY <1>1, <2>5, <2>6, <2>7, <2>8
<1> HIDE DEF fine
<1> QED
  BY <1>2, <1>3, <1>5

\* What an amount's units are at a finer scale, and what they are worth there.
LEMMA WorthAtScale ==
    ASSUME NEW a \in AmountSet, NEW scale \in a.scale..MaxScale
    PROVE  /\ a.units \in MachineInt /\ scale - a.scale \in Nat
           /\ a.units * TenTo(scale - a.scale) \in Int
           /\ Worth(a) = (a.units * TenTo(scale - a.scale)) * TenTo(MaxScale - scale)
           /\ TenTo(MaxScale - scale) \in Nat /\ TenTo(MaxScale - scale) >= 1
<1> DEFINE by   == scale - a.scale
           rest == MaxScale - scale
           p    == TenTo(by)
           q    == TenTo(rest)
           u    == a.units
<1>1. u \in MachineInt /\ u \in Int /\ by \in Nat /\ rest \in Nat /\ by + rest = MaxScale - a.scale
  BY WidthAssumption DEF AmountSet, MachineInt, MinInt
<1> HIDE DEF u, by, rest
<1>2. TenTo(by + rest) = p * q /\ p \in Nat /\ q \in Nat /\ q >= 1
  BY <1>1, TenToSum, TenToPositive
<1>3. Worth(a) = u * (p * q)
  BY <1>1, <1>2 DEF Worth, u
<1> HIDE DEF p, q
<1>4. u * (p * q) = (u * p) * q /\ u * p \in Int
  BY <1>1, <1>2
<1> QED
  BY <1>1, <1>2, <1>3, <1>4 DEF u, by, rest, p, q

\* Neither of two amounts is cut off when they are brought to one scale.
Raisable(a, b) ==
    /\ a.scale < b.scale => rescale(a.units, b.scale - a.scale) # {}
    /\ b.scale < a.scale => rescale(b.units, a.scale - b.scale) # {}

LEMMA CompareTells ==
    ASSUME NEW a \in AmountSet, NEW b \in AmountSet
    PROVE  /\ Compare(a, b) \in {-1, 0, 1}
           /\ Compare(a, b) < 0 => Worth(a) < Worth(b)
           /\ Worth(a) <= Worth(b) => Compare(a, b) <= 0
           /\ Raisable(a, b) =>
                 Compare(a, b) = IF Worth(a) < Worth(b) THEN -1
                                 ELSE IF Worth(a) > Worth(b) THEN 1 ELSE 0
<1> DEFINE scale == IF a.scale < b.scale THEN b.scale ELSE a.scale
           m == a.units * TenTo(scale - a.scale)
           n == b.units * TenTo(scale - b.scale)
           q == TenTo(MaxScale - scale)
           x == Raised(a.units, scale - a.scale)
           y == Raised(b.units, scale - b.scale)
           fineA == rescale(a.units, scale - a.scale) # {}
           fineB == rescale(b.units, scale - b.scale) # {}
<1>1. scale \in a.scale..MaxScale /\ scale \in b.scale..MaxScale
  BY WidthAssumption DEF AmountSet
<1>2. Compare(a, b) = IF x < y THEN -1 ELSE IF x > y THEN 1 ELSE 0
  BY DEF Compare, align
<1>3. /\ a.units \in MachineInt /\ scale - a.scale \in Nat /\ m \in Int
      /\ Worth(a) = m * q /\ q \in Nat /\ q >= 1
  <2> HIDE DEF scale
  <2> QED
    BY <1>1, WorthAtScale
<1>4. b.units \in MachineInt /\ scale - b.scale \in Nat /\ n \in Int /\ Worth(b) = n * q
  <2> HIDE DEF scale
  <2> QED
    BY <1>1, WorthAtScale
<1>5. /\ fineA => x = m
      /\ ~fineA => (x = MaxInt /\ m > MaxInt) \/ (x = MinInt /\ m < MinInt)
      /\ fineB => y = n
      /\ ~fineB => (y = MaxInt /\ n > MaxInt) \/ (y = MinInt /\ n < MinInt)
  <2> HIDE DEF scale
  <2> QED
    BY <1>3, <1>4, RaisedOrSaturated
<1>6. /\ a.scale < b.scale \/ fineA
      /\ b.scale < a.scale \/ fineB
  <2>1. \A u \in Int : rescale(u, 0) # {}
    BY DEF rescale
  <2>2. a.units \in Int /\ b.units \in Int /\ a.scale \in Int /\ b.scale \in Int
    BY WidthAssumption DEF AmountSet, MachineInt, MinInt
  <2>3. ~(a.scale < b.scale) => scale - a.scale = 0
    BY <2>2
  <2>4. ~(b.scale < a.scale) => scale - b.scale = 0
    BY <2>2
  <2> HIDE DEF scale
  <2> QED
    BY <2>1, <2>2, <2>3, <2>4
<1>7. (a.scale < b.scale => n = b.units) /\ (b.scale < a.scale => m = a.units)
  <2>1. a.units \in Int /\ b.units \in Int /\ a.scale \in Int /\ b.scale \in Int
    BY WidthAssumption DEF AmountSet, MachineInt, MinInt
  <2> QED
    BY <2>1, TenToZero
<1>8. Raisable(a, b) => fineA /\ fineB
  <2>1. (a.scale < b.scale => scale = b.scale) /\ (b.scale < a.scale => scale = a.scale)
    BY WidthAssumption DEF AmountSet
  <2> HIDE DEF scale
  <2> QED
    BY <1>6, <2>1 DEF Raisable
<1>9. a.scale \in Int /\ b.scale \in Int /\ ~(a.scale < b.scale /\ b.scale < a.scale)
  BY WidthAssumption DEF AmountSet
<1> HIDE DEF scale, m, n, q, x, y, fineA, fineB
<1>10. (Worth(a) < Worth(b) <=> m < n) /\ (Worth(a) > Worth(b) <=> m > n) /\ (Worth(a) <= Worth(b) <=> m <= n)
  BY <1>3, <1>4
<1>11. /\ MaxInt \in Int /\ MinInt \in Int /\ a.units <= MaxInt /\ a.units >= MinInt
       /\ b.units <= MaxInt /\ b.units >= MinInt /\ a.units \in Int /\ b.units \in Int
  BY <1>3, <1>4, WidthAssumption DEF MachineInt, MinInt
<1>12. x \in Int /\ y \in Int /\ (x < y => m < n) /\ (m <= n => x <= y)
  <2>1. CASE fineA /\ fineB
    BY <1>3, <1>4, <1>5, <2>1
  <2>2. CASE ~fineA
    <3>1. fineB /\ n = b.units
      BY <1>6, <1>7, <1>9, <2>2
    <3> QED
      BY <1>3, <1>4, <1>5, <1>11, <2>2, <3>1
  <2>3. CASE ~fineB
    <3>1. fineA /\ m = a.units
      BY <1>6, <1>7, <1>9, <2>3
    <3> QED
      BY <1>3, <1>4, <1>5, <1>11, <2>3, <3>1
  <2> QED
    BY <2>1, <2>2, <2>3
<1>13. Raisable(a, b) => x = m /\ y = n
  BY <1>5, <1>8
<1> QED
  BY <1>2, <1>3, <1>4, <1>10, <1>12, <1>13

-----------------------------------------------------------------------------
(* Converting amounts. *)

\* The places a converted amount has at most.
Limit(places) == IF places \in 0..MaxScale THEN places ELSE MaxScale

\* The product is shed digits to its scale, and then to the currency's: as if
\* in one go.
LEMMA ConvertedUnits ==
    ASSUME NEW a \in AmountSet, NEW factor \in AmountSet, NEW places \in Int,
           NEW product \in MulAmount(a, factor)
    PROVE  LET scale == a.scale + factor.scale
               kept  == IF scale < Limit(places) THEN scale ELSE Limit(places)
               c     == Round(product, places)
           IN  /\ c = [units |-> Shed(a.units * factor.units, scale - kept), scale |-> kept]
               /\ c \in AmountSet
<1> DEFINE scale  == a.scale + factor.scale
           limit  == Limit(places)
           kept   == IF scale < limit THEN scale ELSE limit
           excess == IF scale > MaxScale THEN scale - MaxScale ELSE 0
           u      == a.units * factor.units
           c      == Round(product, places)
<1>1. MaxScale \in Nat /\ scale \in Nat /\ excess \in Nat /\ limit \in 0..MaxScale /\ excess <= scale
  BY WidthAssumption DEF AmountSet, Limit
<1>2. u \in Int
  <2>1. a.units \in Int /\ factor.units \in Int
    BY WidthAssumption DEF AmountSet, MachineInt, MinInt
  <2> QED
    BY <2>1
<1>3. product = [units |-> Shed(u, excess), scale |-> scale - excess] /\ Shed(u, excess) \in MachineInt
  BY DEF MulAmount, Fits
<1>4. /\ places < 0 \/ places >= scale - excess => c = product
      /\ ~(places < 0 \/ places >= scale - excess) =>
            c = [units |-> Shed(Shed(u, excess), (scale - excess) - places), scale |-> places]
  <2> HIDE DEF u, scale, excess
  <2> QED
    BY <1>3 DEF Round
<1>5. limit = IF places \in 0..MaxScale THEN places ELSE MaxScale
  BY DEF Limit
<1>6. excess = IF scale > MaxScale THEN scale - MaxScale ELSE 0
  OBVIOUS
<1> HIDE DEF scale, limit, excess, u, c
<1>7. kept \in 0..MaxScale /\ kept <= scale
  BY <1>1
<1>8. CASE places < 0 \/ places >= scale - excess
  <2>1. scale - excess = kept
    BY <1>1, <1>5, <1>6, <1>8
  <2>2. scale - kept = excess
    BY <1>1, <2>1
  <2>3. c = [units |-> Shed(u, scale - kept), scale |-> kept]
    BY <1>3, <1>4, <1>8, <2>1, <2>2
  <2> HIDE DEF kept
  <2>4. c \in AmountSet
    BY <1>3, <1>7, <2>2, <2>3 DEF AmountSet
  <2> QED
    BY <2>3, <2>4 DEF scale, limit, u, c, kept
<1>9. CASE ~(places < 0 \/ places >= scale - excess)
  <2> DEFINE rest == (scale - excess) - places
             v    == Shed(u, excess)
  <2>1. places = kept /\ rest \in Nat /\ excess + rest = scale - kept
    BY <1>1, <1>5, <1>6, <1>9
  <2>2. c = [units |-> Shed(v, rest), scale |-> places]
    BY <1>4, <1>9
  <2>3. v \in MachineInt /\ v \in Int
    BY <1>3, WidthAssumption DEF MachineInt, MinInt
  <2> HIDE DEF rest, kept
  <2>4. Shed(v, rest) = Shed(u, excess + rest)
    BY <1>1, <1>2, <2>1, ShedInTwo
  <2> HIDE DEF v
  <2>5. Shed(v, rest) \in MachineInt
    BY <2>1, <2>3, ShedKeepsOrder
  <2>6. c = [units |-> Shed(u, scale - kept), scale |-> kept]
    BY <2>1, <2>2, <2>4
  <2>7. c \in AmountSet
    BY <1>7, <2>1, <2>2, <2>5 DEF AmountSet
  <2> QED
    BY <2>6, <2>7 DEF scale, limit, u, c, kept
<1> QED
  BY <1>8, <1>9

\* The converted amount is the exact product, rounded digit by digit, whatever
\* the scales of the amount and of the rate.
LEMMA ConvertedWorth ==
    ASSUME NEW a \in AmountSet, NEW factor \in AmountSet, NEW places \in Int,
           NEW product \in MulAmount(a, factor)
    PROVE  /\ Worth(Round(product, places)) =
                Shed(Worth(a) * Worth(factor), 2 * MaxScale - Limit(places)) * TenTo(MaxScale - Limit(places))
           /\ Worth(a) * Worth(factor) \in Int /\ 2 * MaxScale - Limit(places) \in Nat
           /\ TenTo(MaxScale - Limit(places)) \in Nat
<1> DEFINE scale == a.scale + factor.scale
           limit == Limit(places)
           kept  == IF scale < limit THEN scale ELSE limit
           u     == a.units * factor.units
           m     == 2 * MaxScale - scale
           l     == 2 * MaxScale - limit
           w     == Worth(a) * Worth(factor)
           c     == Round(product, places)
<1>1. MaxScale \in Nat /\ scale \in Nat /\ limit \in 0..MaxScale /\ scale <= 2 * MaxScale
  BY WidthAssumption DEF AmountSet, Limit
<1>2. a.units \in Int /\ factor.units \in Int /\ u \in Int
  <2>1. a.units \in Int /\ factor.units \in Int
    BY WidthAssumption DEF AmountSet, MachineInt, MinInt
  <2> QED
    BY <2>1
<1>3. c = [units |-> Shed(u, scale - kept), scale |-> kept]
  BY ConvertedUnits
<1>4. w = u * TenTo(m)
  <2> DEFINE i == MaxScale - a.scale
             j == MaxScale - factor.scale
             p == TenTo(i)
             q == TenTo(j)
             x == a.units
             y == factor.units
  <2>1. i \in Nat /\ j \in Nat /\ i + j = m
    BY WidthAssumption DEF AmountSet
  <2> HIDE DEF i, j, m
  <2>2. TenTo(i + j) = p * q /\ p \in Nat /\ q \in Nat
    BY <2>1, TenToSum, TenToPositive
  <2>3. w = (x * p) * (y * q)
    BY DEF Worth, i, j
  <2>4. u = x * y /\ x \in Int /\ y \in Int
    BY <1>2
  <2> HIDE DEF p, q, x, y, w, u
  <2>5. (x * p) * (y * q) = (x * y) * (p * q)
    BY <2>2, <2>4
  <2> QED
    BY <2>1, <2>2, <2>3, <2>4, <2>5
<1>5. Worth(c) = Shed(u, scale - kept) * TenTo(MaxScale - kept)
  BY <1>3 DEF Worth
<1>6. m \in Nat /\ l \in Nat /\ MaxScale - limit \in Nat
  BY <1>1
<1>7. TenTo(m) \in Nat /\ TenTo(MaxScale - limit) \in Nat
  BY <1>6, TenToPositive
<1>8. w \in Int
  <2> HIDE DEF u, m, w
  <2> QED
    BY <1>2, <1>4, <1>7
<1>9. CASE ~(scale < limit)
  <2> DEFINE k == scale - limit
  <2>1. kept = limit /\ k \in Nat /\ m + k = l
    BY <1>1, <1>9
  <2> HIDE DEF kept, k, m, l, u
  <2>2. u * TenTo(m) \in Int
    BY <1>2, <1>7
  <2>3. Shed(u * TenTo(m), m) = u
    BY <1>2, <1>6, ShedZeros
  <2> DEFINE v == u * TenTo(m)
  <2> HIDE DEF v
  <2>4. Shed(Shed(v, m), k) = Shed(v, m + k)
    BY <1>6, <2>1, <2>2, ShedInTwo DEF v
  <2>5. Shed(u, k) = Shed(w, l)
    BY <1>4, <2>1, <2>3, <2>4 DEF v
  <2> QED
    BY <1>5, <1>6, <1>7, <1>8, <2>1, <2>5 DEF k, l
<1>10. CASE scale < limit
  <2> DEFINE k == limit - scale
             r == MaxScale - limit
  <2>1. kept = scale /\ k \in Nat /\ k + l = m /\ scale - kept = 0 /\ r \in Nat /\ k + r = MaxScale - kept
    BY <1>1, <1>10
  <2> HIDE DEF kept, k, m, l, u, w, r
  <2>2. TenTo(m) = TenTo(k) * TenTo(l) /\ TenTo(MaxScale - kept) = TenTo(k) * TenTo(r)
    BY <1>6, <2>1, TenToSum
  <2> DEFINE p == TenTo(k)
             q == TenTo(l)
             z == TenTo(r)
  <2>3. p \in Nat /\ q \in Nat /\ z \in Nat
    BY <1>6, <2>1, TenToPositive
  <2> HIDE DEF p, z
  <2>4. u * (p * q) = (u * p) * q /\ u * p \in Int /\ u * (p * z) = (u * p) * z
    <3> HIDE DEF q
    <3> QED
      BY <1>2, <2>3
  <2> DEFINE v == u * p
  <2> HIDE DEF v
  <2>5. Shed(v * q, l) = v
    BY <1>6, <2>4, ShedZeros DEF v
  <2> HIDE DEF q
  <2>6. Shed(w, l) = v
    BY <1>4, <2>2, <2>4, <2>5 DEF p, q, v
  <2>7. Worth(c) = u * (p * z)
    BY <1>2, <1>5, <2>1, <2>2, ShedNone DEF p, z
  <2>8. Worth(c) = Shed(w, l) * z
    BY <2>4, <2>6, <2>7 DEF v
  <2> QED
    BY <1>6, <1>7, <1>8, <2>8 DEF l, w, z, r
<1> QED
  BY <1>9, <1>10

\* Whatever the prices and the rates, two prices of one currency are not turned
\* round by conversion: not by rounding digit by digit, nor by their scales, nor
\* where an amount is cut off to be compared.
THEOREM OrderSurvivesConversion == GroupingSpec => []ConversionKeepsOrder
<1>1. ASSUME NEW h, IsHotel(h), NEW o \in ToSet(h.offers), NEW p \in ToSet(h.offers),
             o.total.currency = p.total.currency, Compare(o.total.amount, p.total.amount) < 0,
             NEW c \in Convert(h.rates, o.total), NEW d \in Convert(h.rates, p.total)
      PROVE  Compare(c.amount, d.amount) <= 0
  <2> DEFINE a == o.total.amount
             b == p.total.amount
             factor == h.rates[o.total.currency].rate
             places == h.rates[o.total.currency].places
  <2>1. a \in AmountSet /\ b \in AmountSet
    BY <1>1 DEF IsHotel
  <2>2. o.total.currency \in DOMAIN h.rates
    BY DEF Convert
  <2>3. factor \in AmountSet /\ factor.units > 0 /\ places \in Int
    BY <1>1, <2>2 DEF IsHotel
  <2>4. PICK x \in MulAmount(a, factor) : c.amount = Round(x, places)
    BY <2>2 DEF Convert, Money
  <2>5. PICK y \in MulAmount(b, factor) : d.amount = Round(y, places)
    BY <1>1, <2>2 DEF Convert, Money
  <2>6. Compare(a, b) < 0
    BY <1>1
  <2> HIDE DEF a, b, factor, places
  <2> DEFINE l == 2 * MaxScale - Limit(places)
             q == TenTo(MaxScale - Limit(places))
             v == Worth(factor)
             m == Worth(a)
             n == Worth(b)
  <2>7. Worth(c.amount) = Shed(m * v, l) * q /\ c.amount \in AmountSet /\ m * v \in Int /\ l \in Nat /\ q \in Nat
    BY <2>1, <2>3, <2>4, ConvertedWorth, ConvertedUnits
  <2>8. Worth(d.amount) = Shed(n * v, l) * q /\ d.amount \in AmountSet /\ n * v \in Int
    BY <2>1, <2>3, <2>5, ConvertedWorth, ConvertedUnits
  <2>9. m < n
    BY <2>1, <2>6, CompareTells
  <2>10. m \in Int /\ n \in Int /\ v \in Int
    BY <2>1, <2>3, WorthIsInt
  <2>11. v >= 0
    <3> DEFINE z == TenTo(MaxScale - factor.scale)
    <3>1. factor.units \in Int /\ MaxScale - factor.scale \in Nat
      BY <2>3, WidthAssumption DEF AmountSet, MachineInt, MinInt
    <3>2. v = factor.units * z /\ z \in Nat
      BY <3>1, TenToPositive DEF Worth
    <3> HIDE DEF z, v
    <3> QED
      BY <2>3, <3>1, <3>2
  <2> HIDE DEF l, q, v, m, n
  <2>12. m * v <= n * v
    BY <2>9, <2>10, <2>11
  <2> DEFINE s == m * v
             t == n * v
  <2> HIDE DEF s, t
  <2>13. Shed(s, l) <= Shed(t, l) /\ Shed(s, l) \in Int /\ Shed(t, l) \in Int
    BY <2>7, <2>8, <2>12, ShedKeepsOrder, ShedIsInt DEF s, t
  <2>14. Worth(c.amount) <= Worth(d.amount)
    <3> DEFINE i == Shed(s, l)
               j == Shed(t, l)
    <3>1. i <= j /\ i \in Int /\ j \in Int
      BY <2>13
    <3>2. Worth(c.amount) = i * q /\ Worth(d.amount) = j * q
      BY <2>7, <2>8 DEF s, t
    <3> HIDE DEF i, j
    <3>3. i * q <= j * q
      BY <2>7, <3>1
    <3> QED
      BY <3>2, <3>3
  <2> QED
    BY <2>7, <2>8, <2>14, CompareTells
<1>2. GroupingInv => ConversionKeepsOrder
  <2> SUFFICES ASSUME GroupingInv PROVE ConversionKeepsOrder
    OBVIOUS
  <2>1. IsHotel(hotel)
    BY HotelsAssumption DEF GroupingInv
  <2> QED
    BY <1>1, <2>1 DEF ConversionKeepsOrder
<1> QED
  BY <1>2, GroupingInvariant, PTL

-----------------------------------------------------------------------------
(* The order of comparable prices. *)

ShownWorth(h, o) == Worth(Shown(h, o).amount)

LEMMA ShownIsAmount ==
    ASSUME NEW h, IsHotel(h), NEW o \in ToSet(h.offers)
    PROVE  /\ Shown(h, o).amount \in AmountSet
           /\ IsZero(o.total.amount) => IsZero(Shown(h, o).amount)
<1> DEFINE a == o.total.amount
           r == h.rates[o.total.currency]
<1>1. a \in AmountSet
  BY DEF IsHotel
<1>2. CASE Convert(h.rates, o.total) = {}
  BY <1>1, <1>2 DEF Shown, ConvertOrOriginal
<1>3. CASE Convert(h.rates, o.total) # {}
  <2>1. o.total.currency \in DOMAIN h.rates
    BY <1>3 DEF Convert
  <2>2. r.rate \in AmountSet /\ r.places \in Int
    BY <2>1 DEF IsHotel
  <2>3. Shown(h, o) \in Convert(h.rates, o.total)
    BY <1>3 DEF Shown, ConvertOrOriginal
  <2>4. PICK x \in MulAmount(a, r.rate) : Shown(h, o).amount = Round(x, r.places)
    BY <2>1, <2>3 DEF Convert, Money
  <2> DEFINE factor == r.rate
             c == Shown(h, o).amount
             scale == a.scale + factor.scale
             kept == IF scale < Limit(r.places) THEN scale ELSE Limit(r.places)
  <2> HIDE DEF a, r
  <2>5. c = [units |-> Shed(a.units * factor.units, scale - kept), scale |-> kept] /\ c \in AmountSet
    BY <1>1, <2>2, <2>4, ConvertedUnits
  <2>6. scale - kept \in Nat
    BY <1>1, <2>2, WidthAssumption DEF AmountSet, Limit
  <2>7. ASSUME a.units = 0 PROVE c.units = 0
    <3> DEFINE k == scale - kept
    <3>1. factor.units \in Int /\ k \in Nat
      BY <2>2, <2>6, WidthAssumption DEF AmountSet, MachineInt, MinInt
    <3>2. c.units = Shed(a.units * factor.units, k)
      BY <2>5
    <3> HIDE DEF k, c, factor
    <3>3. Shed(0 * TenTo(k), k) = 0
      BY <3>1, ShedZeros
    <3>4. 0 * TenTo(k) = 0 /\ 0 * factor.units = 0
      BY <3>1, TenToPositive
    <3> QED
      BY <2>7, <3>2, <3>3, <3>4
  <2> QED
    BY <2>5, <2>7 DEF IsZero, a
<1> QED
  BY <1>2, <1>3

\* What the comparison tells of two prices that are comparable: the missing one
\* is behind, else the converted ones are compared exactly.
LEMMA ComparedAsShown ==
    ASSUME NEW h, IsHotel(h), Comparable(h), NEW o \in ToSet(h.offers), NEW p \in ToSet(h.offers)
    PROVE  /\ IsZero(Shown(h, o).amount) <=> IsZero(o.total.amount)
           /\ ShownWorth(h, o) \in Int
           /\ ComparePrices(h.rates, o.total, p.total) =
                IF o \in Priced(h)
                THEN IF p \in Priced(h)
                     THEN IF ShownWorth(h, o) < ShownWorth(h, p) THEN -1
                          ELSE IF ShownWorth(h, o) > ShownWorth(h, p) THEN 1 ELSE 0
                     ELSE -1
                ELSE IF p \in Priced(h) THEN 1 ELSE 0
           /\ o \in Priced(h) /\ p \in Priced(h) =>
                CompareMoney(Shown(h, o), Shown(h, p)) =
                  {IF ShownWorth(h, o) < ShownWorth(h, p) THEN -1
                   ELSE IF ShownWorth(h, o) > ShownWorth(h, p) THEN 1 ELSE 0}
<1> DEFINE m == Shown(h, o)
           n == Shown(h, p)
           sign == IF ShownWorth(h, o) < ShownWorth(h, p) THEN -1
                   ELSE IF ShownWorth(h, o) > ShownWorth(h, p) THEN 1 ELSE 0
<1>1. \A q \in ToSet(h.offers) : IsZero(Shown(h, q).amount) <=> IsZero(q.total.amount)
  BY ShownIsAmount DEF Comparable, NoneVanishes, Priced
<1>2. m.amount \in AmountSet /\ n.amount \in AmountSet
  BY ShownIsAmount
<1>3. ShownWorth(h, o) \in Int
  BY <1>2, WorthIsInt DEF ShownWorth
<1>4. \A q \in ToSet(h.offers) : q \in Priced(h) <=> ~IsZero(Shown(h, q).amount)
  BY <1>1 DEF Priced
<1>5. ASSUME o \in Priced(h), p \in Priced(h) PROVE CompareMoney(m, n) = {sign}
  <2>1. m.currency = n.currency
    BY <1>5 DEF Comparable
  <2>2. Raisable(m.amount, n.amount)
    BY <1>5 DEF Comparable, NoneSaturates, Raisable
  <2> HIDE DEF m, n, sign
  <2>3. Compare(m.amount, n.amount) = sign
    BY <1>2, <2>2, CompareTells DEF sign, m, n, ShownWorth
  <2> QED
    BY <2>1, <2>3 DEF CompareMoney, SameCurrency
<1>6. ComparePrices(h.rates, o.total, p.total) = comparePrices(m, n)
  BY DEF ComparePrices, Shown
<1> HIDE DEF m, n, sign
<1>7. comparePrices(m, n) = IF o \in Priced(h) THEN IF p \in Priced(h) THEN sign ELSE -1
                            ELSE IF p \in Priced(h) THEN 1 ELSE 0
  BY <1>4, <1>5 DEF comparePrices, m, n
<1> QED
  BY <1>1, <1>3, <1>5, <1>6, <1>7 DEF m, n, sign

LEMMA CheaperIsTotal ==
    ASSUME NEW h, IsHotel(h), Comparable(h)
    PROVE  TotalOrder(Cheaper(h), ToSet(h.offers))
<1> DEFINE S == ToSet(h.offers)
           D == Priced(h)
           w(o) == ShownWorth(h, o)
           less(o, p) == <<o, p>> \in Cheaper(h)
           cmp(o, p) == ComparePrices(h.rates, o.total, p.total)
<1>1. \A o, p \in S :
         /\ w(o) \in Int
         /\ cmp(o, p) = IF o \in D THEN IF p \in D THEN IF w(o) < w(p) THEN -1 ELSE IF w(o) > w(p) THEN 1 ELSE 0
                                        ELSE -1
                        ELSE IF p \in D THEN 1 ELSE 0
  BY ComparedAsShown
<1>2. \A o, p \in S : less(o, p) <=> cmp(o, p) < 0 \/ (cmp(o, p) = 0 /\ o.id < p.id)
  BY DEF Cheaper, OfferLess
<1>3. \A o, p \in S : o.id \in Nat /\ (o.id = p.id => o = p)
  BY OffersApart DEF IsHotel
<1> HIDE DEF S, D, w, less, cmp
<1>4. \A o, p \in S : less(o, p) => ~less(p, o)
  BY <1>1, <1>2, <1>3
<1>5. \A o, p, q \in S : less(o, p) /\ less(p, q) => less(o, q)
  BY <1>1, <1>2, <1>3
<1>6. \A o, p \in S : o # p => less(o, p) \/ less(p, o)
  BY <1>1, <1>2, <1>3
<1> QED
  BY <1>4, <1>5, <1>6 DEF TotalOrder, S, less

\* Each bucket's from-price is that of an offer of it.
LEMMA BucketFirst ==
    ASSUME NEW h, IsHotel(h), NEW by, NEW b \in Buckets(h, by)
    PROVE  /\ b.key \in Nat /\ b.key \in Keys(h, by) /\ b = Bucket(h, by, b.key)
           /\ 1 \in DOMAIN b.offers /\ b.offers[1] \in ToSet(h.offers)
           /\ b.priceFrom = b.offers[1].total
<1>1. PICK key \in Keys(h, by) : b = Bucket(h, by, key)
  BY DEF Buckets
<1>2. /\ b.key = key /\ b.priceFrom = b.offers[1].total
      /\ b.offers \in Seq(ToSet(h.offers)) /\ b.offers # <<>>
  BY <1>1, BucketElements
<1>3. 1 \in DOMAIN b.offers /\ b.offers[1] \in ToSet(h.offers)
  <2> DEFINE A == ToSet(h.offers)
             s == b.offers
  <2>1. s \in Seq(A) /\ s # <<>>
    BY <1>2
  <2> HIDE DEF A, s
  <2>2. 1 \in DOMAIN s /\ s[1] \in A
    BY <2>1
  <2> QED
    BY <2>2 DEF A, s
<1>4. \A o \in ToSet(h.offers) : Key(by, o.room) \in Nat
  BY HotelsAssumption DEF IsHotel, Key, categoryKey
<1>5. key \in Nat
  BY <1>4 DEF Keys
<1> QED
  BY <1>1, <1>2, <1>3, <1>5

LEMMA FirstGroupIsTotal ==
    ASSUME NEW h, IsHotel(h), Comparable(h), NEW by
    PROVE  TotalOrder(FirstGroup(h, by), Buckets(h, by))
<1> DEFINE B == Buckets(h, by)
           first(b) == b.offers[1]
           D == Priced(h)
           w(b) == ShownWorth(h, first(b))
           less(b, c) == <<b, c>> \in FirstGroup(h, by)
           cmp(b, c) == ComparePrices(h.rates, b.priceFrom, c.priceFrom)
           Has(b) == first(b) \in D
<1>1. \A b \in B : first(b) \in ToSet(h.offers) /\ b.priceFrom = first(b).total /\ b.key \in Nat
  BY BucketFirst
<1>2. \A b, c \in B : b.key = c.key => b = c
  BY BucketFirst
<1>3. \A b, c \in B :
         /\ w(b) \in Int
         /\ cmp(b, c) = IF Has(b) THEN IF Has(c) THEN IF w(b) < w(c) THEN -1 ELSE IF w(b) > w(c) THEN 1 ELSE 0
                                       ELSE -1
                        ELSE IF Has(c) THEN 1 ELSE 0
  <2> SUFFICES ASSUME NEW b \in B, NEW c \in B
               PROVE  /\ w(b) \in Int
                      /\ cmp(b, c) = IF Has(b) THEN IF Has(c) THEN IF w(b) < w(c) THEN -1 ELSE IF w(b) > w(c) THEN 1 ELSE 0
                                                    ELSE -1
                                     ELSE IF Has(c) THEN 1 ELSE 0
    OBVIOUS
  <2>1. /\ first(b) \in ToSet(h.offers) /\ b.priceFrom = first(b).total
        /\ first(c) \in ToSet(h.offers) /\ c.priceFrom = first(c).total
    BY <1>1
  <2> HIDE DEF B, first, D
  <2> QED
    BY <2>1, ComparedAsShown DEF D
<1>4. \A b, c \in B : less(b, c) <=> cmp(b, c) < 0 \/ (cmp(b, c) = 0 /\ b.key < c.key)
  BY DEF FirstGroup, GroupLess
<1> HIDE DEF B, first, D, w, less, cmp, Has
<1>5. \A b, c \in B : less(b, c) => ~less(c, b)
  BY <1>1, <1>3, <1>4
<1>6. \A b, c, d \in B : less(b, c) /\ less(c, d) => less(b, d)
  BY <1>1, <1>3, <1>4
<1>7. \A b, c \in B : b # c => less(b, c) \/ less(c, b)
  BY <1>1, <1>2, <1>3, <1>4
<1> QED
  BY <1>5, <1>6, <1>7 DEF TotalOrder, B, less

\* A group's from-price is behind none of its offers' prices.
LEMMA FromPriceIsLeast ==
    ASSUME NEW h, IsHotel(h), Comparable(h), NEW by, NEW b \in Buckets(h, by), NEW o \in ToSet(b.offers)
    PROVE  /\ o \in ToSet(h.offers)
           /\ ComparePrices(h.rates, b.offers[1].total, o.total) <= 0
<1> DEFINE S == ToSet(h.offers)
           s == b.offers
           first == s[1]
<1>1. b.key \in Keys(h, by) /\ b = Bucket(h, by, b.key) /\ 1 \in DOMAIN s /\ first \in S
  BY BucketFirst
<1>2. s \in Seq(S) /\ InOrder(s, Cheaper(h))
  BY <1>1, BucketElements, CheaperIsTotal
<1>3. PICK k \in DOMAIN s : s[k] = o
  BY DEF ToSet
<1>4. o \in S /\ k \in Nat /\ k >= 1
  <2> HIDE DEF s, S
  <2> QED
    BY <1>2, <1>3
<1>5. CASE k = 1
  <2>1. o = first
    BY <1>3, <1>5
  <2>2. ComparePrices(h.rates, first.total, first.total) \in {-1, 0}
    <3> HIDE DEF first
    <3> QED
      BY <1>1, ComparedAsShown
  <2> QED
    BY <1>4, <2>1, <2>2
<1>6. CASE k > 1
  <2>1. <<first, o>> \in Cheaper(h)
    BY <1>1, <1>2, <1>3, <1>6 DEF InOrder
  <2>2. ComparePrices(h.rates, first.total, o.total) < 0 \/ ComparePrices(h.rates, first.total, o.total) = 0
    BY <2>1 DEF Cheaper, OfferLess
  <2> HIDE DEF first, s
  <2>3. ComparePrices(h.rates, first.total, o.total) \in {-1, 0, 1}
    BY <1>1, <1>4, ComparedAsShown
  <2>4. ComparePrices(h.rates, first.total, o.total) <= 0
    BY <2>2, <2>3
  <2> QED
    BY <1>4, <2>4 DEF first, s
<1> QED
  BY <1>4, <1>5, <1>6

\* Wherever the prices can be compared, the price a group is announced with is
\* the lowest in it, whatever the offers and the rates.
THEOREM FromPriceIsTheLowest == GroupingSpec => []FromPriceIsLowestOfComparable
<1>1. ASSUME NEW h, IsHotel(h), Comparable(h), NEW by, NEW b \in Buckets(h, by),
             NEW o \in ToSet(b.offers), ~IsZero(o.total.amount)
      PROVE  /\ ~IsZero(b.priceFrom.amount)
             /\ CompareMoney(Shown(h, o), ConvertOrOriginal(h.rates, b.priceFrom)) \cap {-1} = {}
  <2> DEFINE first == b.offers[1]
  <2>1. b.priceFrom = first.total /\ first \in ToSet(h.offers)
    BY <1>1, BucketFirst
  <2>2. o \in ToSet(h.offers) /\ ComparePrices(h.rates, first.total, o.total) <= 0
    BY <1>1, FromPriceIsLeast
  <2> HIDE DEF first
  <2>3. o \in Priced(h)
    BY <1>1, <2>2 DEF Priced
  <2>4. first \in Priced(h)
    BY <1>1, <2>1, <2>2, <2>3, ComparedAsShown
  <2>5. /\ ShownWorth(h, first) \in Int /\ ShownWorth(h, o) \in Int
        /\ ~(ShownWorth(h, first) > ShownWorth(h, o))
    BY <1>1, <2>1, <2>2, <2>3, <2>4, ComparedAsShown
  <2>6. CompareMoney(Shown(h, o), Shown(h, first)) =
          {IF ShownWorth(h, o) < ShownWorth(h, first) THEN -1
           ELSE IF ShownWorth(h, o) > ShownWorth(h, first) THEN 1 ELSE 0}
    BY <1>1, <2>1, <2>2, <2>3, <2>4, ComparedAsShown
  <2>7. CompareMoney(Shown(h, o), Shown(h, first)) \cap {-1} = {}
    BY <2>5, <2>6
  <2> QED
    BY <2>1, <2>4, <2>7 DEF Priced, Shown
<1>2. GroupingInv => FromPriceIsLowestOfComparable
  <2> SUFFICES ASSUME GroupingInv, Comparable(hotel) PROVE LowestFirst(hotel)
    BY DEF FromPriceIsLowestOfComparable
  <2>1. IsHotel(hotel)
    BY HotelsAssumption DEF GroupingInv
  <2> SUFFICES ASSUME NEW i \in DOMAIN groups, NEW o \in ToSet(groups[i].offers), ~IsZero(o.total.amount)
               PROVE  /\ ~IsZero(groups[i].priceFrom.amount)
                      /\ CompareMoney(Shown(hotel, o), ConvertOrOriginal(hotel.rates, groups[i].priceFrom))
                            \cap {-1} = {}
    BY DEF LowestFirst
  <2>2. groups = groupBy(hotel, keyOf)
    BY DEF GroupingInv
  <2>3. groups[i] \in Buckets(hotel, keyOf)
    BY <2>1, <2>2, GroupElements DEF ToSet
  <2> QED
    BY <1>1, <2>1, <2>3
<1> QED
  BY <1>2, GroupingInvariant, PTL

-----------------------------------------------------------------------------
(* The order in which the offers are listed. *)

LEMMA SameOffersSameGroups ==
    ASSUME NEW h, IsHotel(h), Comparable(h), NEW g, IsHotel(g), g.rates = h.rates,
           ToSet(g.offers) = ToSet(h.offers), NEW by
    PROVE  groupBy(g, by) = groupBy(h, by)
<1> DEFINE S == ToSet(h.offers)
<1>1. Cheaper(g) = Cheaper(h) /\ Keys(g, by) = Keys(h, by)
  BY DEF Cheaper, Keys
<1>2. TotalOrder(Cheaper(h), S)
  BY CheaperIsTotal
<1>3. \A key \in Keys(h, by) : Bucket(g, by, key) = Bucket(h, by, key)
  <2> SUFFICES ASSUME NEW key \in Keys(h, by) PROVE Bucket(g, by, key) = Bucket(h, by, key)
    OBVIOUS
  <2> DEFINE b == Bucket(g, by, key)
             c == Bucket(h, by, key)
             s == b.offers
             t == c.offers
  <2>1. /\ s \in Seq(S) /\ InOrder(s, Cheaper(h)) /\ ToSet(s) = {o \in S : Key(by, o.room) = key}
    BY <1>1, <1>2, BucketElements
  <2>2. /\ t \in Seq(S) /\ InOrder(t, Cheaper(h)) /\ ToSet(t) = {o \in S : Key(by, o.room) = key}
    BY <1>2, BucketElements
  <2>3. /\ b = [key |-> key, priceFrom |-> s[1].total, offers |-> s]
        /\ c = [key |-> key, priceFrom |-> t[1].total, offers |-> t]
    BY DEF Bucket
  <2> HIDE DEF S, s, t, b, c
  <2>4. s = t
    BY <1>2, <2>1, <2>2, OneOrder
  <2> QED
    BY <2>3, <2>4 DEF b, c
<1>4. Buckets(g, by) = Buckets(h, by)
  BY <1>1, <1>3 DEF Buckets
<1>5. FirstGroup(g, by) = FirstGroup(h, by)
  BY <1>4 DEF FirstGroup
<1> DEFINE B == Buckets(h, by)
           s == groupBy(g, by)
           t == groupBy(h, by)
<1>6. TotalOrder(FirstGroup(h, by), B)
  BY FirstGroupIsTotal
<1>7. s \in Seq(B) /\ ToSet(s) = B /\ InOrder(s, FirstGroup(h, by))
  BY <1>4, <1>5, <1>6, GroupElements
<1>8. t \in Seq(B) /\ ToSet(t) = B /\ InOrder(t, FirstGroup(h, by))
  BY <1>6, GroupElements
<1> HIDE DEF B, s, t
<1>9. s = t
  BY <1>6, <1>7, <1>8, OneOrder
<1> QED
  BY <1>9 DEF s, t

\* A hotel whose offers are listed in another order is a hotel of the same offers.
LEMMA ListingIsHotel ==
    ASSUME NEW h, IsHotel(h), NEW g \in Listings(h)
    PROVE  IsHotel(g) /\ g.rates = h.rates /\ ToSet(g.offers) = ToSet(h.offers)
<1> DEFINE s == h.offers
           D == DOMAIN s
<1>1. PICK place \in Bijection(D, D) : g = [offers |-> [i \in D |-> s[place[i]]], rates |-> h.rates]
  BY DEF Listings
<1> DEFINE t == [i \in D |-> s[place[i]]]
           n == Len(s)
<1>2. g.offers = t /\ g.rates = h.rates
  BY <1>1
<1>3. /\ place \in [D -> D]
      /\ \A i, j \in D : place[i] = place[j] => i = j
      /\ \A j \in D : \E i \in D : place[i] = j
  BY <1>1 DEF Bijection, Injection, Surjection, IsInjective
<1>4. s \in Seq(ToSet(s)) /\ n \in Nat /\ D = 1..n
  BY DEF IsHotel
<1>5. ToSet(t) = ToSet(s)
  <2>1. ToSet(t) = {s[place[i]] : i \in D}
    BY DEF ToSet
  <2>2. ToSet(s) = {s[j] : j \in D}
    BY DEF ToSet
  <2> QED
    BY <1>3, <2>1, <2>2
<1>6. t \in Seq(ToSet(t))
  <2>1. \A i \in D : t[i] \in ToSet(t)
    BY DEF ToSet
  <2>2. t \in [1..n -> ToSet(t)]
    BY <1>4, <2>1
  <2> HIDE DEF t
  <2> QED
    BY <1>4, <2>2
<1>7. \A i, j \in DOMAIN t : t[i].id = t[j].id => i = j
  <2>1. \A i, j \in D : s[i].id = s[j].id => i = j
    BY DEF IsHotel
  <2> QED
    BY <1>3, <2>1
<1> HIDE DEF t
<1>8. IsHotel(g)
  BY <1>2, <1>5, <1>6, <1>7 DEF IsHotel
<1> QED
  BY <1>2, <1>5, <1>8

\* Wherever the prices can be compared, the groups and the offers in them are
\* the same in whatever order the response listed the offers.
THEOREM ListingDoesNotShow == GroupingSpec => []ListingDoesNotMatter
<1>1. GroupingInv => ListingDoesNotMatter
  <2> SUFFICES ASSUME GroupingInv, keyOf # "none", Comparable(hotel), NEW g \in Listings(hotel)
               PROVE  groupBy(g, keyOf) = groups
    BY DEF ListingDoesNotMatter
  <2>1. IsHotel(hotel) /\ groups = groupBy(hotel, keyOf)
    BY HotelsAssumption DEF GroupingInv
  <2>2. IsHotel(g) /\ g.rates = hotel.rates /\ ToSet(g.offers) = ToSet(hotel.offers)
    BY <2>1, ListingIsHotel
  <2> QED
    BY <2>1, <2>2, SameOffersSameGroups
<1> QED
  BY <1>1, GroupingInvariant, PTL

-----------------------------------------------------------------------------
(* The cheapest offer. *)

\* What the loop holds after n offers: none of them if none is priced, else a
\* priced one that is behind no other priced one.
IsLowest(h, n, found) ==
    LET seen == {h.offers[i] : i \in 1..n}
    IN  \/ found = {} /\ seen \cap Priced(h) = {}
        \/ \E b \in seen \cap Priced(h) :
              /\ found = {b}
              /\ \A o \in seen \cap Priced(h) : ShownWorth(h, b) <= ShownWorth(h, o)

LEMMA LowestRounds ==
    ASSUME NEW h, IsHotel(h)
    PROVE  /\ Lowest(h)[0] = {}
           /\ \A n \in 1..Len(h.offers) :
                 LET o == h.offers[n]  lowest == Lowest(h)[n - 1]
                 IN  Lowest(h)[n] =
                       IF ~IsZero(o.total.amount)
                          /\ \A b \in lowest : ComparePrices(h.rates, o.total, b.total) < 0
                       THEN {o} ELSE lowest
<1> DEFINE m == Len(h.offers)
           S == SUBSET ToSet(h.offers)
           Beats(o, lowest) == /\ ~IsZero(o.total.amount)
                               /\ \A b \in lowest : ComparePrices(h.rates, o.total, b.total) < 0
           One(lowest, o) == IF Beats(o, lowest) THEN {o} ELSE lowest
           Step(f, n) == IF n = 0 THEN {} ELSE One(f[n - 1], h.offers[n])
           round == [n \in 1..m |-> [t \in S |-> One(t, h.offers[n])]]
<1>1. m \in Nat /\ \A n \in 1..m : h.offers[n] \in ToSet(h.offers)
  BY OffersApart
<1> HIDE DEF m, Beats
<1>2. round \in Rounds(m, S) /\ {} \in S
  <2>1. \A n \in 1..m, t \in S : One(t, h.offers[n]) \in S
    BY <1>1
  <2> HIDE DEF One, S
  <2> QED
    BY <2>1 DEF Rounds, S
<1>3. PICK f : IsRun(f, S, {}, m, round)
  <2> HIDE DEF round, S
  <2> QED
    BY <1>1, <1>2, LoopExists
<1>4. \A n \in 0..m : f[n] = Step(f, n)
  <2> SUFFICES ASSUME NEW n \in 0..m, n # 0 PROVE f[n] = Step(f, n)
    BY <1>3 DEF IsRun
  <2> HIDE DEF One, S
  <2>1. n \in 1..m /\ n - 1 \in 0..m /\ f[n - 1] \in S
    BY <1>1, <1>3 DEF IsRun
  <2> QED
    BY <1>3, <2>1 DEF IsRun
<1>5. f = [n \in 0..m |-> Step(f, n)]
  <2> HIDE DEF Step, S
  <2> QED
    BY <1>3, <1>4 DEF IsRun
<1> DEFINE order == Lowest(h)
<1>6. order = [n \in 0..m |-> Step(order, n)]
  <2>1. order = CHOOSE g : g = [n \in 0..m |-> Step(g, n)]
    BY DEF Lowest, m, Beats
  <2> HIDE DEF Step, order
  <2> QED
    BY <1>5, <2>1
<1> HIDE DEF order
<1>7. order[0] = {}
  BY <1>1, <1>6
<1>8. \A n \in 1..m : order[n] = One(order[n - 1], h.offers[n])
  <2> SUFFICES ASSUME NEW n \in 1..m PROVE order[n] = One(order[n - 1], h.offers[n])
    OBVIOUS
  <2>1. n \in 0..m /\ n # 0
    BY <1>1
  <2> HIDE DEF One
  <2> QED
    BY <1>6, <2>1
<1> QED
  BY <1>7, <1>8 DEF order, m, Beats

LEMMA LowestIsLowest ==
    ASSUME NEW h, IsHotel(h), Comparable(h)
    PROVE  IsLowest(h, Len(h.offers), Lowest(h)[Len(h.offers)])
<1> DEFINE m == Len(h.offers)
           order == Lowest(h)
           Upto == {n \in Nat : n <= m => IsLowest(h, n, order[n])}
<1>1. m \in Nat /\ \A n \in 1..m : h.offers[n] \in ToSet(h.offers)
  BY OffersApart
<1>2. /\ order[0] = {}
      /\ \A n \in 1..m :
            order[n] = IF ~IsZero(h.offers[n].total.amount)
                          /\ \A b \in order[n - 1] : ComparePrices(h.rates, h.offers[n].total, b.total) < 0
                       THEN {h.offers[n]} ELSE order[n - 1]
  BY LowestRounds
<1> HIDE DEF m, order
<1>3. 0 \in Upto
  <2>1. {h.offers[i] : i \in 1..0} = {}
    OBVIOUS
  <2> QED
    BY <1>2, <2>1 DEF IsLowest
<1>4. \A n \in Nat : n \in Upto => n + 1 \in Upto
  <2> SUFFICES ASSUME NEW n \in Nat, n \in Upto, n + 1 <= m PROVE IsLowest(h, n + 1, order[n + 1])
    OBVIOUS
  <2> DEFINE o == h.offers[n + 1]
             seen == {h.offers[i] : i \in 1..n}
             all == {h.offers[i] : i \in 1..(n + 1)}
             D == Priced(h)
             lowest == order[n]
             w(p) == ShownWorth(h, p)
             cmp(p, q) == ComparePrices(h.rates, p.total, q.total)
  <2>1. n + 1 \in 1..m /\ (n + 1) - 1 = n /\ n <= m /\ \A i \in 1..n : i \in 1..m
    BY <1>1
  <2>2. o \in ToSet(h.offers) /\ seen \subseteq ToSet(h.offers)
    BY <1>1, <2>1
  <2>3. all = seen \union {o}
    OBVIOUS
  <2>4. order[n + 1] = IF ~IsZero(o.total.amount) /\ \A b \in lowest : cmp(o, b) < 0 THEN {o} ELSE lowest
    BY <1>2, <2>1
  <2>5. o \in D <=> ~IsZero(o.total.amount)
    BY <2>2 DEF Priced
  <2>6. \A p, q \in D : w(p) \in Int /\ (cmp(p, q) < 0 <=> w(p) < w(q))
    <3> SUFFICES ASSUME NEW p \in D, NEW q \in D PROVE w(p) \in Int /\ (cmp(p, q) < 0 <=> w(p) < w(q))
      OBVIOUS
    <3>1. p \in ToSet(h.offers) /\ q \in ToSet(h.offers)
      BY DEF Priced
    <3>2. w(p) \in Int /\ w(q) \in Int
      BY <3>1, ComparedAsShown
    <3> QED
      BY <3>1, <3>2, ComparedAsShown
  <2>7. \/ lowest = {} /\ seen \cap D = {}
        \/ \E b \in seen \cap D : lowest = {b} /\ \A p \in seen \cap D : w(b) <= w(p)
    BY <2>1 DEF IsLowest
  <2>8. SUFFICES \/ order[n + 1] = {} /\ all \cap D = {}
                 \/ \E b \in all \cap D : order[n + 1] = {b} /\ \A p \in all \cap D : w(b) <= w(p)
    BY DEF IsLowest
  <2> HIDE DEF o, seen, all, D, lowest, w, cmp
  <2>9. CASE lowest = {} /\ seen \cap D = {}
    BY <2>3, <2>4, <2>5, <2>6, <2>9
  <2>10. CASE \E b \in seen \cap D : lowest = {b} /\ \A p \in seen \cap D : w(b) <= w(p)
    <3>1. PICK b \in seen \cap D : lowest = {b} /\ \A p \in seen \cap D : w(b) <= w(p)
      BY <2>10
    <3>2. CASE o \in D /\ cmp(o, b) < 0
      <4>1. order[n + 1] = {o} /\ w(o) < w(b) /\ w(o) \in Int /\ w(b) \in Int
        BY <2>4, <2>5, <2>6, <3>1, <3>2
      <4>2. \A p \in all \cap D : w(o) <= w(p)
        BY <2>3, <2>6, <3>1, <4>1
      <4> QED
        BY <2>3, <3>2, <4>1, <4>2
    <3>3. CASE ~(o \in D /\ cmp(o, b) < 0)
      <4>1. order[n + 1] = {b} /\ w(b) \in Int
        BY <2>4, <2>5, <2>6, <3>1, <3>3
      <4>2. \A p \in all \cap D : w(b) <= w(p)
        BY <2>3, <2>6, <3>1, <3>3, <4>1
      <4> QED
        BY <2>3, <3>1, <4>1, <4>2
    <3> QED
      BY <3>2, <3>3
  <2> QED
    BY <2>7, <2>9, <2>10
<1>5. m \in Upto
  <2> HIDE DEF Upto
  <2> QED
    BY <1>1, <1>3, <1>4, SetInduction
<1>6. IsLowest(h, m, order[m])
  BY <1>1, <1>5
<1> QED
  BY <1>6 DEF m, order

\* The first group's from-price is behind no offer's price.
LEMMA FirstGroupIsLeast ==
    ASSUME NEW h, IsHotel(h), Comparable(h), NEW by, groupBy(h, by) # <<>>, NEW o \in ToSet(h.offers)
    PROVE  LET b == groupBy(h, by)[1]
           IN  b \in Buckets(h, by) /\ ComparePrices(h.rates, b.priceFrom, o.total) <= 0
<1> DEFINE B == Buckets(h, by)
           s == groupBy(h, by)
           b == s[1]
           key == Key(by, o.room)
           c == Bucket(h, by, key)
<1>1. s \in Seq(B) /\ ToSet(s) = B /\ InOrder(s, FirstGroup(h, by))
  BY GroupElements, FirstGroupIsTotal
<1>2. key \in Keys(h, by)
  BY DEF Keys
<1>3. c \in B /\ o \in ToSet(c.offers)
  BY <1>2, BucketElements DEF Buckets
<1> HIDE DEF B, s, key, c
<1>4. 1 \in DOMAIN s /\ b \in B /\ DOMAIN s = 1..Len(s)
  BY <1>1 DEF s
<1>5. PICK k \in DOMAIN s : s[k] = c
  BY <1>1, <1>3 DEF ToSet
<1>6. b = c \/ <<b, c>> \in FirstGroup(h, by)
  <2>1. k = 1 \/ 1 < k
    BY <1>4
  <2> QED
    BY <1>1, <1>4, <1>5, <2>1 DEF InOrder
<1>7. c.priceFrom = c.offers[1].total /\ c.offers[1] \in ToSet(h.offers)
  BY <1>3, BucketFirst DEF B
<1>8. b.priceFrom = b.offers[1].total /\ b.offers[1] \in ToSet(h.offers)
  BY <1>4, BucketFirst DEF B
<1>9. o \in ToSet(h.offers) /\ ComparePrices(h.rates, c.offers[1].total, o.total) <= 0
  BY <1>3, FromPriceIsLeast DEF B
<1>10. b = c \/ ComparePrices(h.rates, b.priceFrom, c.priceFrom) <= 0
  <2>1. ComparePrices(h.rates, b.offers[1].total, c.offers[1].total) \in {-1, 0, 1}
    BY <1>7, <1>8, ComparedAsShown
  <2> QED
    BY <1>6, <1>7, <1>8, <2>1 DEF FirstGroup, GroupLess
<1> DEFINE x == b.offers[1]
           y == c.offers[1]
<1>11. ComparePrices(h.rates, x.total, o.total) <= 0
  <2>1. x \in ToSet(h.offers) /\ y \in ToSet(h.offers) /\ ComparePrices(h.rates, y.total, o.total) <= 0
    BY <1>7, <1>8, <1>9
  <2>2. x = y \/ ComparePrices(h.rates, x.total, y.total) <= 0
    BY <1>7, <1>8, <1>10
  <2> HIDE DEF x, y
  <2>3. ShownWorth(h, x) \in Int /\ ShownWorth(h, y) \in Int /\ ShownWorth(h, o) \in Int
    BY <2>1, ComparedAsShown
  <2>4. y \in Priced(h) \/ o \notin Priced(h)
    BY <2>1, ComparedAsShown
  <2>5. x \in Priced(h) \/ y \notin Priced(h)
    BY <2>1, <2>2, ComparedAsShown
  <2>6. y \in Priced(h) /\ o \in Priced(h) => ShownWorth(h, y) <= ShownWorth(h, o)
    BY <2>1, <2>3, ComparedAsShown
  <2>7. x \in Priced(h) /\ y \in Priced(h) => ShownWorth(h, x) <= ShownWorth(h, y)
    BY <2>1, <2>2, <2>3, ComparedAsShown
  <2> QED
    BY <2>1, <2>3, <2>4, <2>5, <2>6, <2>7, ComparedAsShown
<1> QED
  BY <1>4, <1>8, <1>11 DEF B, s

\* The loop over all offers and the one over the groups find the same price,
\* wherever the prices can be compared.
THEOREM OneCheapestPrice == GroupingSpec => []CheapestAgreesWithGroups
<1>1. ASSUME NEW h, IsHotel(h), Comparable(h), NEW by, groupBy(h, by) # <<>>, NEW o \in CheapestOf(h)
      PROVE  ComparePrices(h.rates, o.total, groupBy(h, by)[1].priceFrom) = 0
  <2> DEFINE S == ToSet(h.offers)
             D == Priced(h)
             found == Lowest(h)[Len(h.offers)]
             b == groupBy(h, by)[1]
             f == b.offers[1]
  <2>1. b \in Buckets(h, by) /\ \A p \in S : ComparePrices(h.rates, b.priceFrom, p.total) <= 0
    <3>1. groupBy(h, by) \in Seq(Buckets(h, by))
      BY <1>1, GroupElements
    <3> DEFINE s == groupBy(h, by)
               B == Buckets(h, by)
    <3>2. s \in Seq(B) /\ s # <<>> /\ b = s[1]
      BY <1>1, <3>1
    <3>3. \A p \in S : ComparePrices(h.rates, b.priceFrom, p.total) <= 0
      BY <1>1, FirstGroupIsLeast
    <3> HIDE DEF s, B, b, S
    <3>4. b \in B
      BY <3>2
    <3> QED
      BY <3>3, <3>4 DEF B
  <2> HIDE DEF b
  <2>2. f \in S /\ b.priceFrom = f.total
    BY <1>1, <2>1, BucketFirst
  <2> HIDE DEF f
  <2>3. {h.offers[i] : i \in 1..Len(h.offers)} = S
    BY <1>1, OffersApart DEF ToSet
  <2>4. \/ found = {} /\ S \cap D = {}
        \/ \E p \in S \cap D : found = {p} /\ \A q \in S \cap D : ShownWorth(h, p) <= ShownWorth(h, q)
    BY <1>1, <2>3, LowestIsLowest DEF IsLowest
  <2> HIDE DEF found
  <2>5. CASE found = {} /\ S \cap D = {}
    <3>1. o \in S
      <4>1. h.offers # <<>> /\ o = h.offers[1]
        BY <1>1, <2>5 DEF CheapestOf, found
      <4>2. h.offers \in Seq(S)
        BY <1>1, OffersApart
      <4> DEFINE s == h.offers
      <4> HIDE DEF s, S
      <4>3. s[1] \in S
        BY <4>1, <4>2 DEF s
      <4> QED
        BY <4>1, <4>3 DEF s
    <3>2. o \notin D /\ f \notin D
      BY <2>2, <2>5, <3>1
    <3> QED
      BY <1>1, <2>2, <3>1, <3>2, ComparedAsShown DEF b
  <2>6. CASE \E p \in S \cap D : found = {p} /\ \A q \in S \cap D : ShownWorth(h, p) <= ShownWorth(h, q)
    <3>1. PICK p \in S \cap D : found = {p} /\ \A q \in S \cap D : ShownWorth(h, p) <= ShownWorth(h, q)
      BY <2>6
    <3>2. o = p
      BY <1>1, <3>1 DEF CheapestOf, found
    <3>3. o \in S /\ o \in D /\ ComparePrices(h.rates, f.total, o.total) <= 0
      BY <2>1, <2>2, <3>1, <3>2
    <3>4. f \in D
      BY <1>1, <2>2, <3>3, ComparedAsShown
    <3>5. ShownWorth(h, o) \in Int /\ ShownWorth(h, f) \in Int
      BY <1>1, <2>2, <3>3, ComparedAsShown
    <3>6. ShownWorth(h, f) <= ShownWorth(h, o)
      BY <1>1, <2>2, <3>3, <3>4, <3>5, ComparedAsShown
    <3>7. ShownWorth(h, o) <= ShownWorth(h, f)
      BY <2>2, <3>1, <3>2, <3>4
    <3> QED
      BY <1>1, <2>2, <3>3, <3>4, <3>5, <3>6, <3>7, ComparedAsShown DEF b
  <2> QED
    BY <2>4, <2>5, <2>6
<1>2. GroupingInv => CheapestAgreesWithGroups
  <2> SUFFICES ASSUME GroupingInv, Comparable(hotel), groups # <<>>, NEW o \in best
               PROVE  ComparePrices(hotel.rates, o.total, groups[1].priceFrom) = 0
    BY DEF CheapestAgreesWithGroups
  <2>1. IsHotel(hotel)
    BY HotelsAssumption DEF GroupingInv
  <2>2. groups = groupBy(hotel, keyOf) /\ o \in CheapestOf(hotel)
    BY DEF GroupingInv
  <2> QED
    BY <1>1, <2>1, <2>2
<1> QED
  BY <1>2, GroupingInvariant, PTL
=============================================================================
