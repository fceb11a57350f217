----------------------------- MODULE ListLemmas ------------------------------
(***************************************************************************)
(* What the loops of Lists return, for any list, and that integers have    *)
(* the same sum in any order.  The library's induction theorems take a     *)
(* predicate; SetInduction takes the set of the numbers that satisfy it    *)
(* instead, and follows from the well-foundedness of <.                    *)
(***************************************************************************)
EXTENDS Lists, SequencesExt, WellFoundedInduction, TLAPS

\* Induction on the naturals, over a set.
LEMMA SetInduction ==
    ASSUME NEW S, 0 \in S, \A n \in Nat : n \in S => n + 1 \in S
    PROVE  Nat \subseteq S
<1> DEFINE R == OpToRel(<, Nat)
           T == Nat \ S
<1>1. IsWellFoundedOn(R, Nat)
  BY NatLessThanWellFounded
<1>2. \A x, y \in Nat : x < y => <<x, y>> \in R
  BY DEF OpToRel
<1> HIDE DEF R
<1>3. SUFFICES ASSUME T # {} PROVE FALSE
  OBVIOUS
<1>4. T \subseteq Nat
  OBVIOUS
<1> HIDE DEF T
<1>5. PICK x \in T : \A y \in T : ~ (<<y, x>> \in R)
  BY <1>1, <1>3, <1>4, WFMin
<1>6. x \in Nat /\ x \notin S /\ x # 0
  BY <1>5 DEF T
<1>7. x - 1 \in Nat /\ x - 1 < x /\ (x - 1) + 1 = x
  BY <1>6
<1>8. <<x - 1, x>> \in R
  BY <1>2, <1>6, <1>7
<1>9. x - 1 \in S
  BY <1>5, <1>7, <1>8 DEF T
<1> QED
  BY <1>6, <1>7, <1>9

\* A set of naturals that is not empty has a least.
LEMMA LeastNatural ==
    ASSUME NEW T \in SUBSET Nat, NEW n \in T
    PROVE  \E x \in T : \A y \in T : x <= y
<1> DEFINE R == OpToRel(<, Nat)
<1>1. IsWellFoundedOn(R, Nat)
  BY NatLessThanWellFounded
<1>2. \A x, y \in Nat : x < y => <<x, y>> \in R
  BY DEF OpToRel
<1> HIDE DEF R
<1>3. T # {} /\ T \subseteq Nat
  OBVIOUS
<1>4. PICK x \in T : \A y \in T : ~ (<<y, x>> \in R)
  BY <1>1, <1>3, WFMin
<1>5. ASSUME NEW y \in T PROVE x <= y
  <2>1. x \in Nat /\ y \in Nat /\ ~(y < x)
    BY <1>2, <1>3, <1>4
  <2> QED
    BY <2>1
<1> QED
  BY <1>5

\* The rounds of a loop: round k takes a value of S to another.
Rounds(n, S) == [1..n -> [S -> S]]

\* f holds the loop's value after each of its rounds.
IsRun(f, S, x, n, round) ==
    f \in [0..n -> S] /\ f[0] = x /\ \A k \in 1..n : f[k] = round[k][f[k - 1]]

\* What a loop computes exists: the values after each of its rounds.  A
\* recursive function is a CHOOSE, so this is what its equation rests on.
LEMMA LoopExists ==
    ASSUME NEW S, NEW x \in S, NEW n \in Nat, NEW round \in Rounds(n, S)
    PROVE  \E f : IsRun(f, S, x, n, round)
<1> USE DEF Rounds
<1> DEFINE Run(f, m) == f[0] = x /\ \A k \in 1..m : f[k] = round[k][f[k - 1]]
           Upto == {m \in Nat : m <= n => \E f \in [0..m -> S] : Run(f, m)}
<1>1. 0 \in Upto
  <2>1. [k \in 0..0 |-> x] \in [0..0 -> S] /\ Run([k \in 0..0 |-> x], 0)
    OBVIOUS
  <2> HIDE DEF Run
  <2> QED
    BY <2>1
<1>2. \A m \in Nat : m \in Upto => m + 1 \in Upto
  <2> SUFFICES ASSUME NEW m \in Nat, m \in Upto, m + 1 <= n
               PROVE  \E f \in [0..(m + 1) -> S] : Run(f, m + 1)
    <3> HIDE DEF Run
    <3> QED
      OBVIOUS
  <2>1. PICK g \in [0..m -> S] : Run(g, m)
    <3> HIDE DEF Run
    <3> QED
      OBVIOUS
  <2> DEFINE f == [k \in 0..(m + 1) |-> IF k <= m THEN g[k] ELSE round[k][g[k - 1]]]
  <2>2. \A k \in 0..m : f[k] = g[k]
    OBVIOUS
  <2>3. m + 1 \in 1..n /\ f[m + 1] = round[m + 1][g[m]] /\ g[m] \in S
    OBVIOUS
  <2>4. round[m + 1][g[m]] \in S
    BY <2>3
  <2>5. f \in [0..(m + 1) -> S]
    <3>1. \A k \in 0..(m + 1) : f[k] \in S
      BY <2>2, <2>3, <2>4
    <3> QED
      BY <3>1
  <2>6. \A k \in 1..(m + 1) : f[k] = round[k][f[k - 1]]
    <3> SUFFICES ASSUME NEW k \in 1..(m + 1) PROVE f[k] = round[k][f[k - 1]]
      OBVIOUS
    <3>1. k - 1 \in 0..m /\ f[k - 1] = g[k - 1]
      OBVIOUS
    <3>2. CASE k <= m
      BY <2>1, <2>2, <3>1, <3>2
    <3>3. CASE ~(k <= m)
      BY <2>3, <3>1, <3>3
    <3> QED
      BY <3>2, <3>3
  <2>7. f[0] = x
    BY <2>1, <2>2
  <2>8. Run(f, m + 1)
    BY <2>6, <2>7
  <2> HIDE DEF Run, f
  <2> QED
    BY <2>5, <2>8
<1>3. n \in Upto
  <2> HIDE DEF Upto
  <2> QED
    BY <1>1, <1>2, SetInduction
<1>4. \E f \in [0..n -> S] : Run(f, n)
  <2> HIDE DEF Run
  <2> QED
    BY <1>3
<1> QED
  BY <1>4 DEF IsRun

\* Each of the loop's slices is made from the one before.
LEMMA KeepingStep ==
    ASSUME NEW A, NEW s \in Seq(A), NEW wanted
    PROVE  Keeping(s, wanted) =
             [n \in 0..Len(s) |->
                IF n = 0 THEN <<>>
                ELSE IF s[n] \in wanted THEN Append(Keeping(s, wanted)[n - 1], s[n])
                ELSE Keeping(s, wanted)[n - 1]]
<1> DEFINE Step(g, n) == IF n = 0 THEN <<>>
                         ELSE IF s[n] \in wanted THEN Append(g[n - 1], s[n]) ELSE g[n - 1]
           round == [n \in 1..Len(s) |->
                        [t \in Seq(A) |-> IF s[n] \in wanted THEN Append(t, s[n]) ELSE t]]
<1>1. \A n \in 1..Len(s) : s[n] \in A
  OBVIOUS
<1>2. round \in Rounds(Len(s), Seq(A))
  BY <1>1 DEF Rounds
<1>3. <<>> \in Seq(A) /\ Len(s) \in Nat
  OBVIOUS
<1>4. PICK f : IsRun(f, Seq(A), <<>>, Len(s), round)
  <2> HIDE DEF round
  <2> QED
    BY <1>2, <1>3, LoopExists
<1>5. \A n \in 0..Len(s) : f[n] = Step(f, n)
  <2> SUFFICES ASSUME NEW n \in 0..Len(s), n # 0 PROVE f[n] = Step(f, n)
    BY <1>4 DEF IsRun
  <2>1. n \in 1..Len(s) /\ n - 1 \in 0..Len(s)
    BY <1>3
  <2>2. f[n - 1] \in Seq(A)
    BY <1>4, <2>1 DEF IsRun
  <2>3. f[n] = IF s[n] \in wanted THEN Append(f[n - 1], s[n]) ELSE f[n - 1]
    BY <1>4, <2>1, <2>2 DEF IsRun
  <2> QED
    BY <2>3
<1>6. f = [n \in 0..Len(s) |-> Step(f, n)]
  <2> HIDE DEF Step
  <2> QED
    BY <1>4, <1>5 DEF IsRun
<1>7. Keeping(s, wanted) = CHOOSE g : g = [n \in 0..Len(s) |-> Step(g, n)]
  BY DEF Keeping
<1>8. Keeping(s, wanted) = [n \in 0..Len(s) |-> Step(Keeping(s, wanted), n)]
  <2> HIDE DEF Step
  <2> QED
    BY <1>6, <1>7
<1> QED
  BY <1>8

\* The same, round by round.
LEMMA KeepingRounds ==
    ASSUME NEW A, NEW s \in Seq(A), NEW wanted
    PROVE  /\ Keeping(s, wanted)[0] = <<>>
           /\ \A n \in 1..Len(s) :
                 Keeping(s, wanted)[n] =
                    IF s[n] \in wanted THEN Append(Keeping(s, wanted)[n - 1], s[n])
                    ELSE Keeping(s, wanted)[n - 1]
<1> DEFINE kept == Keeping(s, wanted)
<1>1. kept = [n \in 0..Len(s) |->
                IF n = 0 THEN <<>>
                ELSE IF s[n] \in wanted THEN Append(kept[n - 1], s[n]) ELSE kept[n - 1]]
  BY KeepingStep
<1>2. Len(s) \in Nat
  OBVIOUS
<1> HIDE DEF kept
<1>3. kept[0] = <<>>
  BY <1>1, <1>2
<1>4. \A n \in 1..Len(s) :
         kept[n] = IF s[n] \in wanted THEN Append(kept[n - 1], s[n]) ELSE kept[n - 1]
  <2> SUFFICES ASSUME NEW n \in 1..Len(s)
               PROVE  kept[n] = IF s[n] \in wanted THEN Append(kept[n - 1], s[n]) ELSE kept[n - 1]
    OBVIOUS
  <2>1. n \in 0..Len(s) /\ n # 0
    OBVIOUS
  <2> DEFINE this == IF s[n] \in wanted THEN Append(kept[n - 1], s[n]) ELSE kept[n - 1]
  <2>2. kept[n] = IF n = 0 THEN <<>> ELSE this
    BY <1>1, <2>1
  <2> HIDE DEF this
  <2>3. kept[n] = this
    BY <2>1, <2>2
  <2> QED
    BY <2>3 DEF this
<1> QED
  BY <1>3, <1>4 DEF kept

\* The loop returns a list of elements that are wanted, all of them.
LEMMA KeptElements ==
    ASSUME NEW A, NEW s \in Seq(A), NEW wanted
    PROVE  /\ Kept(s, wanted) \in Seq(A)
           /\ ToSet(Kept(s, wanted)) = ToSet(s) \cap wanted
<1> DEFINE kept == Keeping(s, wanted)
           Right(n) ==
              /\ kept[n] \in Seq(A)
              /\ {kept[n][i] : i \in 1..Len(kept[n])} = {s[i] : i \in 1..n} \cap wanted
           Upto == {n \in Nat : n <= Len(s) => Right(n)}
<1>0. Len(s) \in Nat /\ s \in [1..Len(s) -> A]
  OBVIOUS
<1>1. kept = [n \in 0..Len(s) |->
                IF n = 0 THEN <<>>
                ELSE IF s[n] \in wanted THEN Append(kept[n - 1], s[n]) ELSE kept[n - 1]]
  BY KeepingStep
<1> HIDE DEF kept
<1>2. 0 \in Upto
  <2>1. kept[0] = <<>>
    BY <1>0, <1>1
  <2>2. Right(0)
    BY <2>1
  <2> HIDE DEF Right
  <2> QED
    BY <2>2
<1>3. \A n \in Nat : n \in Upto => n + 1 \in Upto
  <2> SUFFICES ASSUME NEW n \in Nat, n \in Upto, n + 1 <= Len(s) PROVE Right(n + 1)
    <3> HIDE DEF Right
    <3> QED
      OBVIOUS
  <2>1. Right(n)
    <3> HIDE DEF Right
    <3> QED
      BY <1>0
  <2>2. n + 1 \in 0..Len(s) /\ n + 1 # 0 /\ (n + 1) - 1 = n /\ n + 1 \in 1..Len(s)
    BY <1>0
  <2>3. kept[n + 1] = IF s[n + 1] \in wanted THEN Append(kept[n], s[n + 1]) ELSE kept[n]
    BY <1>1, <2>2
  <2>4. s[n + 1] \in A
    BY <1>0, <2>2
  <2>5. {s[i] : i \in 1..(n + 1)} = {s[i] : i \in 1..n} \cup {s[n + 1]}
    OBVIOUS
  <2>6. CASE s[n + 1] \in wanted
    <3>1. kept[n + 1] = Append(kept[n], s[n + 1])
      BY <2>3, <2>6
    <3> DEFINE m == Len(kept[n])
    <3>2. m \in Nat /\ Len(kept[n + 1]) = m + 1 /\ kept[n + 1] \in Seq(A)
      BY <2>1, <2>4, <3>1
    <3>3. \A i \in 1..m : kept[n + 1][i] = kept[n][i]
      BY <2>1, <2>4, <3>1
    <3>4. kept[n + 1][m + 1] = s[n + 1]
      BY <2>1, <2>4, <3>1
    <3> HIDE DEF m
    <3>5. {kept[n + 1][i] : i \in 1..(m + 1)} = {kept[n][i] : i \in 1..m} \cup {s[n + 1]}
      <4> DEFINE f == kept[n + 1]
                 g == kept[n]
                 x == s[n + 1]
      <4>1. m \in Nat /\ (\A i \in 1..m : f[i] = g[i]) /\ f[m + 1] = x
        BY <3>2, <3>3, <3>4
      <4> HIDE DEF f, g, x
      <4>2. \A i \in 1..(m + 1) : i \in 1..m \/ i = m + 1
        BY <4>1
      <4>3. 1..m \subseteq 1..(m + 1) /\ m + 1 \in 1..(m + 1)
        BY <4>1
      <4>4. {f[i] : i \in 1..(m + 1)} = {g[i] : i \in 1..m} \cup {x}
        BY <4>1, <4>2, <4>3
      <4> QED
        BY <4>4 DEF f, g, x
    <3>6. {kept[n + 1][i] : i \in 1..Len(kept[n + 1])} = {s[i] : i \in 1..(n + 1)} \cap wanted
      BY <2>1, <2>5, <2>6, <3>2, <3>5 DEF m
    <3> QED
      BY <3>2, <3>6
  <2>7. CASE s[n + 1] \notin wanted
    <3>1. {s[i] : i \in 1..(n + 1)} \cap wanted = {s[i] : i \in 1..n} \cap wanted
      BY <2>5, <2>7
    <3> QED
      BY <2>1, <2>3, <2>7, <3>1
  <2> QED
    BY <2>6, <2>7
<1>4. Len(s) \in Upto
  <2> HIDE DEF Upto
  <2> QED
    BY <1>0, <1>2, <1>3, SetInduction
<1>5. Right(Len(s))
  <2> HIDE DEF Right
  <2> QED
    BY <1>0, <1>4
<1>6. Kept(s, wanted) = kept[Len(s)]
  BY DEF Kept, kept
<1>7. DOMAIN kept[Len(s)] = 1..Len(kept[Len(s)]) /\ DOMAIN s = 1..Len(s)
  BY <1>5
<1> QED
  BY <1>5, <1>6, <1>7 DEF ToSet

LEMMA ElementsOf ==
    ASSUME NEW A, NEW s \in Seq(A)
    PROVE  (\A x \in ToSet(s) : x \in A) /\ (s # <<>> => Head(s) \in ToSet(s))
<1>1. DOMAIN s = 1..Len(s) /\ Len(s) \in Nat /\ \A i \in 1..Len(s) : s[i] \in A
  OBVIOUS
<1>2. s # <<>> => Head(s) = s[1] /\ 1 \in DOMAIN s
  OBVIOUS
<1> QED
  BY <1>1, <1>2 DEF ToSet

\* The first element that is wanted, if any is.
LEMMA FirstKept ==
    ASSUME NEW A, NEW s \in Seq(A), NEW wanted
    PROVE  /\ Kept(s, wanted) = <<>> <=> \A x \in ToSet(s) : x \notin wanted
           /\ Kept(s, wanted) # <<>> =>
                 Head(Kept(s, wanted)) \in ToSet(s) /\ Head(Kept(s, wanted)) \in wanted
<1> DEFINE kept == Kept(s, wanted)
<1>1. kept \in Seq(A) /\ ToSet(kept) = ToSet(s) \cap wanted
  BY KeptElements
<1> HIDE DEF kept
<1>2. kept # <<>> => Head(kept) \in ToSet(kept)
  BY <1>1 DEF ToSet
<1>3. kept = <<>> => ToSet(kept) = {}
  BY DEF ToSet
<1> QED
  BY <1>1, <1>2, <1>3 DEF kept

\* Two lists of which the same places are wanted keep the same number.
LEMMA KeptAlike ==
    ASSUME NEW A, NEW s \in Seq(A), NEW B, NEW t \in Seq(B), NEW wanted, NEW liked,
           Len(s) = Len(t), \A i \in 1..Len(s) : s[i] \in wanted <=> t[i] \in liked
    PROVE  Len(Kept(s, wanted)) = Len(Kept(t, liked))
<1> DEFINE kept == Keeping(s, wanted)
           other == Keeping(t, liked)
           Right(n) == /\ kept[n] \in Seq(A) /\ other[n] \in Seq(B)
                       /\ Len(kept[n]) = Len(other[n])
           Upto == {n \in Nat : n <= Len(s) => Right(n)}
<1>1. Len(s) \in Nat /\ (\A n \in 1..Len(s) : s[n] \in A) /\ \A n \in 1..Len(s) : t[n] \in B
  OBVIOUS
<1>2. /\ kept[0] = <<>>
      /\ \A n \in 1..Len(s) :
            kept[n] = IF s[n] \in wanted THEN Append(kept[n - 1], s[n]) ELSE kept[n - 1]
  BY KeepingRounds
<1>3. /\ other[0] = <<>>
      /\ \A n \in 1..Len(s) :
            other[n] = IF t[n] \in liked THEN Append(other[n - 1], t[n]) ELSE other[n - 1]
  BY KeepingRounds
<1>4. kept[Len(s)] = Kept(s, wanted) /\ other[Len(s)] = Kept(t, liked)
  BY DEF Kept
<1> HIDE DEF kept, other
<1>5. 0 \in Upto
  <2>1. Right(0)
    BY <1>2, <1>3
  <2> HIDE DEF Right
  <2> QED
    BY <2>1
<1>6. \A n \in Nat : n \in Upto => n + 1 \in Upto
  <2> SUFFICES ASSUME NEW n \in Nat, n \in Upto, n + 1 <= Len(s) PROVE Right(n + 1)
    <3> HIDE DEF Right
    <3> QED
      OBVIOUS
  <2>1. n + 1 \in 1..Len(s) /\ (n + 1) - 1 = n /\ n <= Len(s)
    BY <1>1
  <2>2. Right(n)
    BY <2>1
  <2>3. s[n + 1] \in A /\ t[n + 1] \in B
    BY <1>1, <2>1
  <2>4. CASE s[n + 1] \in wanted
    <3>1. kept[n + 1] = Append(kept[n], s[n + 1])
      BY <1>2, <2>1, <2>4
    <3>2. other[n + 1] = Append(other[n], t[n + 1])
      BY <1>3, <2>1, <2>4
    <3> QED
      BY <2>2, <2>3, <3>1, <3>2
  <2>5. CASE s[n + 1] \notin wanted
    <3>1. kept[n + 1] = kept[n]
      BY <1>2, <2>1, <2>5
    <3>2. other[n + 1] = other[n]
      BY <1>3, <2>1, <2>5
    <3> QED
      BY <2>2, <3>1, <3>2
  <2> QED
    BY <2>4, <2>5
<1>7. Len(s) \in Upto
  <2> HIDE DEF Upto
  <2> QED
    BY <1>1, <1>5, <1>6, SetInduction
<1> QED
  BY <1>1, <1>4, <1>7

\* The elements of a list behind a first one.
LEMMA PrependElements ==
    ASSUME NEW A, NEW x \in A, NEW s \in Seq(A)
    PROVE  /\ <<x>> \o s \in Seq(A) /\ <<x>> \o s # <<>>
           /\ ToSet(<<x>> \o s) = {x} \union ToSet(s)
<1> DEFINE n == Len(s)
           t == <<x>> \o s
<1>1. n \in Nat /\ DOMAIN s = 1..n
  OBVIOUS
<1>2. t \in Seq(A) /\ Len(t) = n + 1 /\ t[1] = x /\ \A i \in 1..n : t[i + 1] = s[i]
  OBVIOUS
<1> HIDE DEF n, t
<1>3. DOMAIN t = 1..(n + 1) /\ t # <<>>
  BY <1>1, <1>2
<1>4. ToSet(t) = {x} \union ToSet(s)
  <2>1. ASSUME NEW y \in ToSet(t) PROVE y \in {x} \union ToSet(s)
    <3>1. PICK i \in 1..(n + 1) : y = t[i]
      BY <1>3 DEF ToSet
    <3>2. CASE i = 1
      BY <1>2, <3>1, <3>2
    <3>3. CASE i # 1
      <4> DEFINE j == i - 1
      <4>1. j \in 1..n /\ i = j + 1
        BY <1>1, <3>3
      <4> HIDE DEF j
      <4>2. y = s[j]
        BY <1>2, <3>1, <4>1
      <4> QED
        BY <1>1, <4>1, <4>2 DEF ToSet
    <3> QED
      BY <3>2, <3>3
  <2>2. x \in ToSet(t)
    BY <1>1, <1>2, <1>3 DEF ToSet
  <2>3. ASSUME NEW y \in ToSet(s) PROVE y \in ToSet(t)
    <3>1. PICK i \in 1..n : y = s[i]
      BY <1>1 DEF ToSet
    <3>2. i + 1 \in DOMAIN t /\ t[i + 1] = y
      BY <1>1, <1>2, <1>3, <3>1
    <3> QED
      BY <3>2 DEF ToSet
  <2> QED
    BY <2>1, <2>2, <2>3
<1> QED
  BY <1>2, <1>3, <1>4 DEF t

\* The elements of a list are its first and those of the rest.
LEMMA TailElements ==
    ASSUME NEW A, NEW s \in Seq(A), s # <<>>
    PROVE  Tail(s) \in Seq(A) /\ ToSet(s) = {s[1]} \union ToSet(Tail(s))
<1> DEFINE n == Len(s)
           t == Tail(s)
<1>1. n \in Nat /\ n # 0 /\ DOMAIN s = 1..n
  OBVIOUS
<1>2. t \in Seq(A) /\ Len(t) = n - 1 /\ \A i \in 1..(n - 1) : t[i] = s[i + 1]
  BY <1>1
<1> HIDE DEF n, t
<1>3. DOMAIN t = 1..(n - 1)
  BY <1>2
<1>4. ToSet(s) = {s[1]} \union ToSet(t)
  <2>1. ASSUME NEW y \in ToSet(s) PROVE y \in {s[1]} \union ToSet(t)
    <3>1. PICK i \in 1..n : y = s[i]
      BY <1>1 DEF ToSet
    <3>2. i = 1 \/ (i - 1 \in 1..(n - 1) /\ t[i - 1] = s[i])
      BY <1>1, <1>2
    <3> QED
      BY <1>3, <3>1, <3>2 DEF ToSet
  <2>2. ASSUME NEW y \in ToSet(t) PROVE y \in ToSet(s)
    <3>1. PICK i \in 1..(n - 1) : y = t[i]
      BY <1>3 DEF ToSet
    <3>2. i + 1 \in 1..n /\ y = s[i + 1]
      BY <1>1, <1>2, <3>1
    <3> QED
      BY <1>1, <3>2 DEF ToSet
  <2>3. s[1] \in ToSet(s)
    BY <1>1 DEF ToSet
  <2> QED
    BY <2>1, <2>2, <2>3
<1> QED
  BY <1>2, <1>4 DEF t

-----------------------------------------------------------------------------
(* Filtering a list without repetitions. *)

\* The largest of some places in a list.
LEMMA LastPlace ==
    ASSUME NEW n \in Nat, NEW K \in SUBSET (1..n), K # {}
    PROVE  \E k \in K : \A l \in K : l <= k
<1> DEFINE Upto == {m \in Nat : \A L \in SUBSET (1..m) : L # {} => \E k \in L : \A l \in L : l <= k}
<1>1. 0 \in Upto
  <2>1. \A L \in SUBSET (1..0) : L = {}
    OBVIOUS
  <2> QED
    BY <2>1
<1>2. \A m \in Nat : m \in Upto => m + 1 \in Upto
  <2> SUFFICES ASSUME NEW m \in Nat, m \in Upto, NEW L \in SUBSET (1..(m + 1)), L # {}
               PROVE  \E k \in L : \A l \in L : l <= k
    OBVIOUS
  <2>1. CASE m + 1 \in L
    BY <2>1
  <2>2. CASE m + 1 \notin L
    <3>1. L \in SUBSET (1..m)
      BY <2>2
    <3> QED
      BY <3>1
  <2> QED
    BY <2>1, <2>2
<1>3. n \in Upto
  <2> HIDE DEF Upto
  <2> QED
    BY <1>1, <1>2, SetInduction
<1> QED
  BY <1>3

\* Appending something new keeps a list free of repetitions.
LEMMA AppendedApart ==
    ASSUME NEW A, NEW s \in Seq(A), NEW x \in A
    PROVE  /\ Append(s, x) \in Seq(A) /\ ToSet(Append(s, x)) = ToSet(s) \union {x}
           /\ IsInjective(s) /\ x \notin ToSet(s) => IsInjective(Append(s, x))
<1> DEFINE n == Len(s)
           t == Append(s, x)
<1>1. n \in Nat /\ DOMAIN s = 1..n
  OBVIOUS
<1>2. t \in Seq(A) /\ DOMAIN t = 1..(n + 1) /\ t[n + 1] = x /\ \A i \in 1..n : t[i] = s[i]
  OBVIOUS
<1> HIDE DEF n, t
<1>3. \A i \in 1..(n + 1) : i \in 1..n \/ i = n + 1
  BY <1>1
<1>4. ToSet(t) = ToSet(s) \union {x}
  BY <1>1, <1>2, <1>3 DEF ToSet
<1>5. ASSUME IsInjective(s), x \notin ToSet(s) PROVE IsInjective(t)
  <2>1. \A i \in 1..n : s[i] # x
    BY <1>1, <1>5 DEF ToSet
  <2> SUFFICES ASSUME NEW i \in 1..(n + 1), NEW j \in 1..(n + 1), t[i] = t[j] PROVE i = j
    BY <1>2 DEF IsInjective
  <2> QED
    BY <1>1, <1>2, <1>3, <1>5, <2>1 DEF IsInjective
<1> QED
  BY <1>2, <1>4, <1>5 DEF t

\* A list without repetitions has none when it is filtered.
LEMMA KeptApart ==
    ASSUME NEW A, NEW s \in Seq(A), NEW wanted, IsInjective(s)
    PROVE  IsInjective(Kept(s, wanted))
<1> DEFINE kept == Keeping(s, wanted)
           Right(n) ==
              /\ kept[n] \in Seq(A) /\ IsInjective(kept[n])
              /\ ToSet(kept[n]) \subseteq {s[i] : i \in 1..n}
           Upto == {n \in Nat : n <= Len(s) => Right(n)}
<1>1. Len(s) \in Nat /\ DOMAIN s = 1..Len(s) /\ \A i \in 1..Len(s) : s[i] \in A
  OBVIOUS
<1>2. /\ kept[0] = <<>>
      /\ \A n \in 1..Len(s) :
            kept[n] = IF s[n] \in wanted THEN Append(kept[n - 1], s[n]) ELSE kept[n - 1]
  BY KeepingRounds
<1>3. Kept(s, wanted) = kept[Len(s)]
  BY DEF Kept
<1> HIDE DEF kept
<1>4. 0 \in Upto
  <2>1. <<>> \in Seq(A) /\ IsInjective(<<>>) /\ ToSet(<<>>) = {}
    BY DEF IsInjective, ToSet
  <2> QED
    BY <1>2, <2>1
<1>5. \A n \in Nat : n \in Upto => n + 1 \in Upto
  <2> SUFFICES ASSUME NEW n \in Nat, n \in Upto, n + 1 <= Len(s) PROVE Right(n + 1)
    <3> HIDE DEF Right
    <3> QED
      OBVIOUS
  <2>1. Right(n)
    <3> HIDE DEF Right
    <3> QED
      BY <1>1
  <2>2. n + 1 \in 1..Len(s) /\ (n + 1) - 1 = n /\ \A i \in 1..n : i \in 1..Len(s) /\ i # n + 1
    BY <1>1
  <2>3. kept[n + 1] = IF s[n + 1] \in wanted THEN Append(kept[n], s[n + 1]) ELSE kept[n]
    BY <1>2, <2>2
  <2>4. s[n + 1] \notin {s[i] : i \in 1..n}
    BY <1>1, <2>2 DEF IsInjective
  <2>5. {s[i] : i \in 1..n} \subseteq {s[i] : i \in 1..(n + 1)} /\ s[n + 1] \in {s[i] : i \in 1..(n + 1)}
    OBVIOUS
  <2>6. CASE s[n + 1] \in wanted
    <3>1. kept[n + 1] = Append(kept[n], s[n + 1]) /\ s[n + 1] \in A /\ s[n + 1] \notin ToSet(kept[n])
      BY <1>1, <2>1, <2>2, <2>3, <2>4, <2>6
    <3>2. kept[n + 1] \in Seq(A) /\ IsInjective(kept[n + 1])
          /\ ToSet(kept[n + 1]) = ToSet(kept[n]) \union {s[n + 1]}
      BY <2>1, <3>1, AppendedApart
    <3> QED
      BY <2>1, <2>5, <3>2
  <2>7. CASE s[n + 1] \notin wanted
    BY <2>1, <2>3, <2>5, <2>7
  <2> QED
    BY <2>6, <2>7
<1>6. Len(s) \in Upto
  <2> HIDE DEF Upto
  <2> QED
    BY <1>1, <1>4, <1>5, SetInduction
<1> QED
  BY <1>1, <1>3, <1>6

-----------------------------------------------------------------------------
(* The stable sort. *)

\* An element ends up behind the last one it is not less than.
LEMMA PlaceIsLast ==
    ASSUME NEW s, Len(s) \in Nat, NEW x, NEW less
    PROVE  /\ Place(s, x, less) \in 0..Len(s)
           /\ Place(s, x, less) # 0 => <<x, s[Place(s, x, less)]>> \notin less
           /\ \A i \in (Place(s, x, less) + 1)..Len(s) : <<x, s[i]>> \in less
<1> DEFINE stays == {i \in 1..Len(s) : <<x, s[i]>> \notin less}
           last  == CHOOSE at \in stays : \A i \in stays : i <= at
<1>1. Place(s, x, less) = IF stays = {} THEN 0 ELSE last
  BY DEF Place
<1>2. CASE stays = {}
  BY <1>1, <1>2
<1>3. CASE stays # {}
  <2>1. stays \in SUBSET (1..Len(s))
    OBVIOUS
  <2>2. last \in stays /\ \A i \in stays : i <= last
    <3>1. \E at \in stays : \A i \in stays : i <= at
      BY <1>3, <2>1, LastPlace
    <3> HIDE DEF stays
    <3> QED
      BY <3>1
  <2>3. Place(s, x, less) = last
    BY <1>1, <1>3
  <2> HIDE DEF last
  <2>4. last \in 1..Len(s) /\ <<x, s[last]>> \notin less
    BY <2>2
  <2>5. \A i \in (last + 1)..Len(s) : <<x, s[i]>> \in less
    BY <2>2, <2>4
  <2> QED
    BY <2>3, <2>4, <2>5
<1> QED
  BY <1>2, <1>3

\* Inserting adds one element, and repeats none.
LEMMA InsertedElements ==
    ASSUME NEW A, NEW s \in Seq(A), NEW x \in A, NEW less
    PROVE  /\ Inserted(s, x, less) \in Seq(A) /\ Len(Inserted(s, x, less)) = Len(s) + 1
           /\ ToSet(Inserted(s, x, less)) = ToSet(s) \union {x}
           /\ IsInjective(s) /\ x \notin ToSet(s) => IsInjective(Inserted(s, x, less))
<1> DEFINE n  == Len(s)
           at == Place(s, x, less)
           t  == Inserted(s, x, less)
<1>1. n \in Nat /\ DOMAIN s = 1..n /\ \A i \in 1..n : s[i] \in A
  OBVIOUS
<1>2. at \in 0..n
  BY <1>1, PlaceIsLast
<1>3. t = [i \in 1..(n + 1) |-> IF i <= at THEN s[i] ELSE IF i = at + 1 THEN x ELSE s[i - 1]]
  BY DEF Inserted
<1> HIDE DEF n, at, t
<1>4. \A i \in 1..(n + 1) : \/ i <= at /\ i \in 1..n /\ t[i] = s[i]
                            \/ i = at + 1 /\ t[i] = x
                            \/ i > at + 1 /\ i - 1 \in 1..n /\ t[i] = s[i - 1]
  BY <1>1, <1>2, <1>3
<1>5. t \in [1..(n + 1) -> A] /\ n + 1 \in Nat
  <2>1. \A i \in 1..(n + 1) : t[i] \in A
    BY <1>1, <1>4
  <2> QED
    BY <1>1, <1>3, <2>1
<1>6. t \in Seq(A) /\ Len(t) = n + 1 /\ DOMAIN t = 1..(n + 1)
  BY <1>5
<1>7. ToSet(t) = ToSet(s) \union {x}
  <2>1. ToSet(t) \subseteq ToSet(s) \union {x}
    BY <1>1, <1>4, <1>6 DEF ToSet
  <2>2. at + 1 \in 1..(n + 1) /\ t[at + 1] = x
    BY <1>1, <1>2, <1>3
  <2>3. ASSUME NEW i \in 1..n PROVE s[i] \in ToSet(t)
    <3>1. CASE i <= at
      <4>1. i \in 1..(n + 1) /\ t[i] = s[i]
        BY <1>1, <1>3, <3>1
      <4> QED
        BY <1>6, <4>1 DEF ToSet
    <3>2. CASE ~(i <= at)
      <4>1. i + 1 \in 1..(n + 1) /\ t[i + 1] = s[i]
        BY <1>1, <1>2, <1>3, <3>2
      <4> QED
        BY <1>6, <4>1 DEF ToSet
    <3> QED
      BY <3>1, <3>2
  <2> QED
    BY <1>1, <1>6, <2>1, <2>2, <2>3 DEF ToSet
<1>8. ASSUME IsInjective(s), x \notin ToSet(s) PROVE IsInjective(t)
  <2>1. \A i \in 1..n : s[i] # x
    BY <1>1, <1>8 DEF ToSet
  <2>2. \A i, j \in 1..n : s[i] = s[j] => i = j
    BY <1>1, <1>8 DEF IsInjective
  <2> SUFFICES ASSUME NEW i \in 1..(n + 1), NEW j \in 1..(n + 1), t[i] = t[j] PROVE i = j
    BY <1>6 DEF IsInjective
  <2>3. CASE i <= at
    BY <1>1, <1>2, <1>4, <2>1, <2>2, <2>3
  <2>4. CASE i = at + 1
    BY <1>1, <1>2, <1>4, <2>1, <2>2, <2>4
  <2>5. CASE i > at + 1
    BY <1>1, <1>2, <1>4, <2>1, <2>2, <2>5
  <2> QED
    BY <1>1, <1>2, <2>3, <2>4, <2>5
<1> QED
  BY <1>6, <1>7, <1>8 DEF t, n

\* Each of the sort's slices is the one before with one more element.
LEMMA SortingRounds ==
    ASSUME NEW A, NEW s \in Seq(A), NEW less
    PROVE  /\ Sorting(s, less)[0] = <<>>
           /\ \A n \in 1..Len(s) :
                 Sorting(s, less)[n] = Inserted(Sorting(s, less)[n - 1], s[n], less)
<1> DEFINE m == Len(s)
           Step(f, n) == IF n = 0 THEN <<>> ELSE Inserted(f[n - 1], s[n], less)
           round == [n \in 1..m |-> [t \in Seq(A) |-> Inserted(t, s[n], less)]]
<1>1. m \in Nat /\ \A n \in 1..m : s[n] \in A
  OBVIOUS
<1> HIDE DEF m
<1>2. round \in Rounds(m, Seq(A)) /\ <<>> \in Seq(A)
  <2>1. \A n \in 1..m, t \in Seq(A) : Inserted(t, s[n], less) \in Seq(A)
    BY <1>1, InsertedElements
  <2> QED
    BY <2>1 DEF Rounds
<1>3. PICK f : IsRun(f, Seq(A), <<>>, m, round)
  <2> HIDE DEF round
  <2> QED
    BY <1>1, <1>2, LoopExists
<1>4. \A n \in 0..m : f[n] = Step(f, n)
  <2> SUFFICES ASSUME NEW n \in 0..m, n # 0 PROVE f[n] = Step(f, n)
    BY <1>3 DEF IsRun
  <2>1. n \in 1..m /\ n - 1 \in 0..m /\ f[n - 1] \in Seq(A)
    BY <1>1, <1>3 DEF IsRun
  <2> QED
    BY <1>3, <2>1 DEF IsRun
<1>5. f = [n \in 0..m |-> Step(f, n)]
  <2> HIDE DEF Step
  <2> QED
    BY <1>3, <1>4 DEF IsRun
<1> DEFINE sorted == Sorting(s, less)
<1>6. sorted = [n \in 0..m |-> Step(sorted, n)]
  <2>1. Sorting(s, less) = CHOOSE g : g = [n \in 0..m |-> Step(g, n)]
    BY DEF Sorting, m
  <2> HIDE DEF Step
  <2> QED
    BY <1>5, <2>1
<1> HIDE DEF sorted
<1>7. sorted[0] = <<>>
  BY <1>1, <1>6
<1>8. \A n \in 1..m : sorted[n] = Inserted(sorted[n - 1], s[n], less)
  BY <1>1, <1>6
<1> QED
  BY <1>7, <1>8 DEF sorted, m

\* A relation that orders any two different elements of A one way.
TotalOrder(less, A) ==
    /\ \A x, y \in A : <<x, y>> \in less => <<y, x>> \notin less
    /\ \A x, y, z \in A : <<x, y>> \in less /\ <<y, z>> \in less => <<x, z>> \in less
    /\ \A x, y \in A : x # y => <<x, y>> \in less \/ <<y, x>> \in less

InOrder(s, less) == \A i, j \in DOMAIN s : i < j => <<s[i], s[j]>> \in less

\* Inserting into a list in order keeps the order.
LEMMA InsertedInOrder ==
    ASSUME NEW A, NEW s \in Seq(A), NEW x \in A, NEW less, TotalOrder(less, A),
           InOrder(s, less), x \notin ToSet(s)
    PROVE  InOrder(Inserted(s, x, less), less)
<1> DEFINE n  == Len(s)
           at == Place(s, x, less)
           t  == Inserted(s, x, less)
<1>1. /\ n \in Nat /\ DOMAIN s = 1..n
      /\ \A i \in 1..n : s[i] \in A
      /\ \A i \in 1..n : s[i] # x
  BY DEF ToSet
<1>2. /\ at \in 0..n
      /\ at # 0 => <<x, s[at]>> \notin less
      /\ \A i \in (at + 1)..n : <<x, s[i]>> \in less
  BY <1>1, PlaceIsLast
<1>3. t = [i \in 1..(n + 1) |-> IF i <= at THEN s[i] ELSE IF i = at + 1 THEN x ELSE s[i - 1]]
  BY DEF Inserted
<1> HIDE DEF n, at, t
<1>4. \A i \in 1..(n + 1) : \/ i <= at /\ i \in 1..n /\ t[i] = s[i]
                            \/ i = at + 1 /\ t[i] = x
                            \/ i > at + 1 /\ i - 1 \in (at + 1)..n /\ i - 1 \in 1..n /\ t[i] = s[i - 1]
  BY <1>1, <1>2, <1>3
<1>5. ASSUME NEW i \in 1..n, i <= at PROVE <<s[i], x>> \in less
  <2>1. at \in 1..n /\ <<s[at], x>> \in less
    BY <1>1, <1>2, <1>5 DEF TotalOrder
  <2>2. CASE i = at
    BY <2>1, <2>2
  <2>3. CASE i < at
    <3>1. <<s[i], s[at]>> \in less
      BY <1>1, <2>1, <2>3 DEF InOrder
    <3> QED
      BY <1>1, <2>1, <3>1 DEF TotalOrder
  <2> QED
    BY <1>1, <1>2, <1>5, <2>2, <2>3
<1>6. \A i, j \in 1..n : i < j => <<s[i], s[j]>> \in less
  BY <1>1 DEF InOrder
<1>7. DOMAIN t = 1..(n + 1)
  BY <1>3
<1> SUFFICES ASSUME NEW i \in 1..(n + 1), NEW j \in 1..(n + 1), i < j PROVE <<t[i], t[j]>> \in less
  BY <1>7 DEF InOrder, t
<1>8. CASE i <= at
  <2>1. i \in 1..n /\ t[i] = s[i]
    BY <1>1, <1>2, <1>4, <1>8
  <2>2. CASE j <= at
    BY <1>2, <1>4, <1>6, <2>1, <2>2
  <2>3. CASE j = at + 1
    BY <1>2, <1>4, <1>5, <1>8, <2>1, <2>3
  <2>4. CASE j > at + 1
    <3>1. j - 1 \in 1..n /\ t[j] = s[j - 1] /\ i < j - 1
      BY <1>1, <1>2, <1>4, <1>8, <2>4
    <3> QED
      BY <1>6, <2>1, <3>1
  <2> QED
    BY <1>1, <1>2, <2>2, <2>3, <2>4
<1>9. CASE i = at + 1
  <2>1. t[i] = x /\ j - 1 \in (at + 1)..n /\ t[j] = s[j - 1]
    BY <1>1, <1>2, <1>4, <1>9
  <2> QED
    BY <1>2, <2>1
<1>10. CASE i > at + 1
  <2>1. i - 1 \in 1..n /\ j - 1 \in 1..n /\ i - 1 < j - 1 /\ t[i] = s[i - 1] /\ t[j] = s[j - 1]
    BY <1>1, <1>2, <1>4, <1>10
  <2> QED
    BY <1>6, <2>1
<1> QED
  BY <1>1, <1>2, <1>8, <1>9, <1>10

\* The sort loses no element, repeats none that was not repeated, and puts
\* elements that are different and ordered totally in their order.
LEMMA SortedElements ==
    ASSUME NEW A, NEW s \in Seq(A), NEW less
    PROVE  /\ SliceStable(s, less) \in Seq(A) /\ Len(SliceStable(s, less)) = Len(s)
           /\ ToSet(SliceStable(s, less)) = ToSet(s)
           /\ IsInjective(s) => IsInjective(SliceStable(s, less))
           /\ IsInjective(s) /\ TotalOrder(less, A) => InOrder(SliceStable(s, less), less)
<1> DEFINE m == Len(s)
           sorted == Sorting(s, less)
           Right(n) ==
              /\ sorted[n] \in Seq(A) /\ Len(sorted[n]) = n
              /\ ToSet(sorted[n]) = {s[i] : i \in 1..n}
              /\ IsInjective(s) => IsInjective(sorted[n])
              /\ IsInjective(s) /\ TotalOrder(less, A) => InOrder(sorted[n], less)
           Upto == {n \in Nat : n <= m => Right(n)}
<1>1. m \in Nat /\ DOMAIN s = 1..m /\ \A i \in 1..m : s[i] \in A
  OBVIOUS
<1>2. sorted[0] = <<>> /\ \A n \in 1..m : sorted[n] = Inserted(sorted[n - 1], s[n], less)
  BY SortingRounds
<1>3. SliceStable(s, less) = sorted[m]
  BY DEF SliceStable
<1> HIDE DEF m, sorted
<1>4. 0 \in Upto
  <2>1. <<>> \in Seq(A) /\ Len(<<>>) = 0 /\ IsInjective(<<>>) /\ ToSet(<<>>) = {} /\ InOrder(<<>>, less)
    BY DEF IsInjective, ToSet, InOrder
  <2>2. {s[i] : i \in 1..0} = {}
    OBVIOUS
  <2> QED
    BY <1>2, <2>1, <2>2
<1>5. \A n \in Nat : n \in Upto => n + 1 \in Upto
  <2> SUFFICES ASSUME NEW n \in Nat, n \in Upto, n + 1 <= m PROVE Right(n + 1)
    <3> HIDE DEF Right
    <3> QED
      OBVIOUS
  <2>1. Right(n)
    <3> HIDE DEF Right
    <3> QED
      BY <1>1
  <2> DEFINE x == s[n + 1]
             t == sorted[n]
  <2>2. n + 1 \in 1..m /\ (n + 1) - 1 = n /\ \A i \in 1..n : i \in 1..m /\ i # n + 1
    BY <1>1
  <2>3. sorted[n + 1] = Inserted(t, x, less) /\ x \in A
    BY <1>1, <1>2, <2>2
  <2>4. IsInjective(s) => x \notin {s[i] : i \in 1..n}
    BY <1>1, <2>2 DEF IsInjective
  <2>5. {s[i] : i \in 1..(n + 1)} = {s[i] : i \in 1..n} \union {x}
    OBVIOUS
  <2>6. t \in Seq(A) /\ Len(t) = n /\ ToSet(t) = {s[i] : i \in 1..n}
    BY <2>1
  <2>7. IsInjective(s) => IsInjective(t) /\ x \notin ToSet(t)
    BY <2>1, <2>4, <2>6
  <2>8. IsInjective(s) /\ TotalOrder(less, A) => InOrder(t, less)
    BY <2>1
  <2> HIDE DEF x, t
  <2> DEFINE u == Inserted(t, x, less)
  <2>9. /\ sorted[n + 1] \in Seq(A) /\ Len(sorted[n + 1]) = n + 1
        /\ ToSet(sorted[n + 1]) = {s[i] : i \in 1..(n + 1)}
        /\ IsInjective(s) => IsInjective(sorted[n + 1])
    <3>1. /\ u \in Seq(A) /\ Len(u) = Len(t) + 1 /\ ToSet(u) = ToSet(t) \union {x}
          /\ IsInjective(t) /\ x \notin ToSet(t) => IsInjective(u)
      BY <2>3, <2>6, InsertedElements
    <3>2. sorted[n + 1] = u
      BY <2>3
    <3> HIDE DEF u
    <3> QED
      BY <2>5, <2>6, <2>7, <3>1, <3>2
  <2>10. IsInjective(s) /\ TotalOrder(less, A) => InOrder(sorted[n + 1], less)
    BY <2>3, <2>6, <2>7, <2>8, InsertedInOrder
  <2> QED
    BY <2>9, <2>10
<1>6. m \in Upto
  <2> HIDE DEF Upto
  <2> QED
    BY <1>1, <1>4, <1>5, SetInduction
<1>7. Right(m)
  <2> HIDE DEF Right
  <2> QED
    BY <1>1, <1>6
<1>8. ToSet(s) = {s[i] : i \in 1..m}
  BY <1>1 DEF ToSet
<1> QED
  BY <1>3, <1>7, <1>8 DEF m

\* Elements can be listed in order in one way.
LEMMA OneOrder ==
    ASSUME NEW A, NEW s \in Seq(A), NEW t \in Seq(A), NEW less, TotalOrder(less, A),
           InOrder(s, less), InOrder(t, less), ToSet(s) = ToSet(t)
    PROVE  s = t
<1> DEFINE m == Len(s)
           n == Len(t)
           Same(k) == \A i \in 1..k : i \in 1..m /\ i \in 1..n => s[i] = t[i]
           Upto == {k \in Nat : Same(k)}
<1>1. /\ m \in Nat /\ DOMAIN s = 1..m /\ \A i \in 1..m : s[i] \in A
      /\ n \in Nat /\ DOMAIN t = 1..n /\ \A i \in 1..n : t[i] \in A
      /\ s \in [1..m -> A] /\ t \in [1..n -> A]
  OBVIOUS
<1> HIDE DEF m, n
<1>2. /\ \A i \in 1..m : \E j \in 1..n : t[j] = s[i]
      /\ \A i \in 1..n : \E j \in 1..m : s[j] = t[i]
  BY <1>1 DEF ToSet
<1>3. /\ \A i, j \in 1..m : i < j => <<s[i], s[j]>> \in less
      /\ \A i, j \in 1..n : i < j => <<t[i], t[j]>> \in less
      /\ \A x, y \in A : <<x, y>> \in less => <<y, x>> \notin less
  BY <1>1 DEF InOrder, TotalOrder
<1>4. /\ \A i, j \in 1..m : s[i] = s[j] => i = j
      /\ \A i, j \in 1..n : t[i] = t[j] => i = j
  <2>1. \A x \in A : <<x, x>> \notin less
    BY <1>3
  <2>2. \A i, j \in Int : i = j \/ i < j \/ j < i
    OBVIOUS
  <2>3. ASSUME NEW i \in 1..m, NEW j \in 1..m, s[i] = s[j] PROVE i = j
    <3>1. ~(i < j) /\ ~(j < i)
      BY <1>1, <1>3, <2>1, <2>3
    <3> QED
      BY <2>2, <3>1
  <2>4. ASSUME NEW i \in 1..n, NEW j \in 1..n, t[i] = t[j] PROVE i = j
    <3>1. ~(i < j) /\ ~(j < i)
      BY <1>1, <1>3, <2>1, <2>4
    <3> QED
      BY <2>2, <3>1
  <2> QED
    BY <2>3, <2>4
<1>5. 0 \in Upto
  OBVIOUS
<1>6. \A k \in Nat : k \in Upto => k + 1 \in Upto
  <2> SUFFICES ASSUME NEW k \in Nat, Same(k) PROVE Same(k + 1)
    <3> HIDE DEF Same
    <3> QED
      OBVIOUS
  <2> SUFFICES ASSUME k + 1 \in 1..m, k + 1 \in 1..n PROVE s[k + 1] = t[k + 1]
    <3>1. \A i \in 1..(k + 1) : i \in 1..k \/ i = k + 1
      OBVIOUS
    <3> QED
      BY <3>1
  <2>1. PICK j \in 1..n : t[j] = s[k + 1]
    BY <1>2
  <2>2. PICK i \in 1..m : s[i] = t[k + 1]
    BY <1>2
  <2>3. ~(j < k + 1)
    <3> SUFFICES ASSUME j < k + 1 PROVE FALSE
      OBVIOUS
    <3>1. j \in 1..k /\ j \in 1..m
      BY <1>1
    <3>2. s[j] = s[k + 1]
      BY <2>1, <3>1
    <3> QED
      BY <1>4, <3>1, <3>2
  <2>4. ~(i < k + 1)
    <3> SUFFICES ASSUME i < k + 1 PROVE FALSE
      OBVIOUS
    <3>1. i \in 1..k /\ i \in 1..n
      BY <1>1
    <3>2. t[i] = t[k + 1]
      BY <2>2, <3>1
    <3> QED
      BY <1>4, <3>1, <3>2
  <2>5. CASE j = k + 1
    BY <2>1, <2>5
  <2>6. CASE i = k + 1
    BY <2>2, <2>6
  <2>7. CASE j > k + 1 /\ i > k + 1
    <3>1. <<t[k + 1], t[j]>> \in less /\ <<s[k + 1], s[i]>> \in less
      BY <1>3, <2>7
    <3>2. t[k + 1] \in A /\ s[k + 1] \in A
      BY <1>1
    <3> QED
      BY <1>3, <2>1, <2>2, <3>1, <3>2
  <2> QED
    BY <1>1, <2>3, <2>4, <2>5, <2>6, <2>7
<1>7. Nat \subseteq Upto
  <2> HIDE DEF Upto
  <2> QED
    BY <1>5, <1>6, SetInduction
<1>8. \A i \in Nat : i \in 1..m /\ i \in 1..n => s[i] = t[i]
  <2> SUFFICES ASSUME NEW i \in Nat, i \in 1..m, i \in 1..n PROVE s[i] = t[i]
    OBVIOUS
  <2>1. Same(i)
    BY <1>7
  <2> QED
    BY <1>1, <2>1
<1>9. ~(m < n)
  <2> SUFFICES ASSUME m < n PROVE FALSE
    OBVIOUS
  <2>1. m + 1 \in 1..n
    BY <1>1
  <2>2. PICK j \in 1..m : s[j] = t[m + 1]
    BY <1>2, <2>1
  <2>3. j \in 1..n /\ t[j] = t[m + 1] /\ j # m + 1
    BY <1>1, <1>8, <2>2
  <2> QED
    BY <1>4, <2>1, <2>3
<1>10. ~(n < m)
  <2> SUFFICES ASSUME n < m PROVE FALSE
    OBVIOUS
  <2>1. n + 1 \in 1..m
    BY <1>1
  <2>2. PICK j \in 1..n : t[j] = s[n + 1]
    BY <1>2, <2>1
  <2>3. j \in 1..m /\ s[j] = s[n + 1] /\ j # n + 1
    BY <1>1, <1>8, <2>2
  <2> QED
    BY <1>4, <2>1, <2>3
<1> QED
  BY <1>1, <1>8, <1>9, <1>10

-----------------------------------------------------------------------------
(* The sum of a list of integers, in whatever order they come. *)

Permutes(f, n) == f \in [1..n -> 1..n] /\ \A i, j \in 1..n : f[i] = f[j] => i = j

\* A permutation without its last place.
Shortened(f, n) == [i \in 1..n |-> IF f[i] < f[n + 1] THEN f[i] ELSE f[i] - 1]

LEMMA ShortenedPermutes ==
    ASSUME NEW n \in Nat, NEW f, Permutes(f, n + 1)
    PROVE  /\ Permutes(Shortened(f, n), n)
           /\ \A i \in 1..n : f[i] = IF Shortened(f, n)[i] < f[n + 1] THEN Shortened(f, n)[i]
                                     ELSE Shortened(f, n)[i] + 1
<1> DEFINE g == Shortened(f, n)
           l == f[n + 1]
<1>1. l \in 1..(n + 1) /\ \A i \in 1..n : f[i] \in 1..(n + 1) /\ f[i] # l
  BY DEF Permutes
<1>2. \A i, j \in 1..n : f[i] = f[j] => i = j
  BY DEF Permutes
<1>3. g = [i \in 1..n |-> IF f[i] < l THEN f[i] ELSE f[i] - 1]
  BY DEF Shortened
<1> HIDE DEF g, l
<1>4. \A i \in 1..n : g[i] = IF f[i] < l THEN f[i] ELSE f[i] - 1
  BY <1>3
<1>5. \A i \in 1..n : g[i] \in 1..n /\ f[i] = IF g[i] < l THEN g[i] ELSE g[i] + 1
  BY <1>1, <1>4
<1>6. g \in [1..n -> 1..n]
  BY <1>3, <1>5
<1>7. \A i, j \in 1..n : g[i] = g[j] => i = j
  BY <1>2, <1>5
<1> QED
  BY <1>5, <1>6, <1>7 DEF Permutes, g, l

LEMMA PermutationIsOnto ==
    ASSUME NEW n \in Nat, NEW f, Permutes(f, n), NEW y \in 1..n
    PROVE  \E i \in 1..n : f[i] = y
<1> DEFINE Upto == {m \in Nat : \A g : Permutes(g, m) => \A z \in 1..m : \E i \in 1..m : g[i] = z}
<1>1. 0 \in Upto
  OBVIOUS
<1>2. \A m \in Nat : m \in Upto => m + 1 \in Upto
  <2> SUFFICES ASSUME NEW m \in Nat, m \in Upto, NEW g, Permutes(g, m + 1), NEW z \in 1..(m + 1)
               PROVE  \E i \in 1..(m + 1) : g[i] = z
    OBVIOUS
  <2> DEFINE h == Shortened(g, m)
             l == g[m + 1]
  <2>1. /\ Permutes(h, m)
        /\ \A i \in 1..m : g[i] = IF h[i] < l THEN h[i] ELSE h[i] + 1
    BY ShortenedPermutes
  <2>2. \A x \in 1..m : \E i \in 1..m : h[i] = x
    BY <2>1
  <2>3. l \in 1..(m + 1) /\ m + 1 \in 1..(m + 1)
    BY DEF Permutes
  <2>4. l = g[m + 1]
    OBVIOUS
  <2> HIDE DEF h, l
  <2>5. CASE z = l
    BY <2>3, <2>4, <2>5
  <2>6. CASE z < l
    <3>1. PICK i \in 1..m : h[i] = z
      BY <2>2, <2>3, <2>6
    <3> QED
      BY <2>1, <2>6, <3>1
  <2>7. CASE z > l
    <3>1. PICK i \in 1..m : h[i] = z - 1
      BY <2>2, <2>3, <2>7
    <3> QED
      BY <2>1, <2>3, <2>7, <3>1
  <2> QED
    BY <2>3, <2>5, <2>6, <2>7
<1> QED
  <2> HIDE DEF Upto
  <2>1. n \in Upto
    BY <1>1, <1>2, SetInduction
  <2> QED
    BY <2>1 DEF Upto

\* The sums of the first of n integers.
Adding(w, n) == CHOOSE f : f = [k \in 0..n |-> IF k = 0 THEN 0 ELSE f[k - 1] + w[k]]

LEMMA AddingRounds ==
    ASSUME NEW n \in Nat, NEW w, \A k \in 1..n : w[k] \in Int
    PROVE  /\ Adding(w, n) = [k \in 0..n |-> IF k = 0 THEN 0 ELSE Adding(w, n)[k - 1] + w[k]]
           /\ Adding(w, n)[0] = 0
           /\ \A k \in 1..n : Adding(w, n)[k] = Adding(w, n)[k - 1] + w[k]
           /\ \A k \in 0..n : Adding(w, n)[k] \in Int
<1> DEFINE Step(f, k) == IF k = 0 THEN 0 ELSE f[k - 1] + w[k]
           round == [k \in 1..n |-> [v \in Int |-> v + w[k]]]
<1>1. round \in Rounds(n, Int) /\ 0 \in Int
  BY DEF Rounds
<1>2. PICK f : IsRun(f, Int, 0, n, round)
  <2> HIDE DEF round
  <2> QED
    BY <1>1, LoopExists
<1>3. \A k \in 0..n : f[k] = Step(f, k)
  <2> SUFFICES ASSUME NEW k \in 0..n, k # 0 PROVE f[k] = Step(f, k)
    BY <1>2 DEF IsRun
  <2>1. k \in 1..n /\ k - 1 \in 0..n /\ f[k - 1] \in Int
    BY <1>2 DEF IsRun
  <2>2. f[k] = round[k][f[k - 1]]
    BY <1>2, <2>1 DEF IsRun
  <2> QED
    BY <2>1, <2>2
<1>4. f = [k \in 0..n |-> Step(f, k)]
  <2> HIDE DEF Step
  <2> QED
    BY <1>2, <1>3 DEF IsRun
<1> DEFINE r == Adding(w, n)
<1>5. r = [k \in 0..n |-> Step(r, k)]
  <2>1. Adding(w, n) = CHOOSE g : g = [k \in 0..n |-> Step(g, k)]
    BY DEF Adding
  <2> HIDE DEF Step
  <2> QED
    BY <1>4, <2>1
<1> HIDE DEF r
<1>6. r[0] = 0 /\ \A k \in 1..n : r[k] = r[k - 1] + w[k]
  BY <1>5
<1> DEFINE Upto == {k \in Nat : k <= n => r[k] \in Int}
<1>7. Nat \subseteq Upto
  <2>1. 0 \in Upto
    BY <1>6
  <2>2. \A k \in Nat : k \in Upto => k + 1 \in Upto
    <3> SUFFICES ASSUME NEW k \in Nat, k \in Upto, k + 1 <= n PROVE r[k + 1] \in Int
      OBVIOUS
    <3>1. k + 1 \in 1..n /\ (k + 1) - 1 = k /\ r[k] \in Int
      OBVIOUS
    <3> QED
      BY <1>6, <3>1
  <2> HIDE DEF Upto
  <2> QED
    BY <2>1, <2>2, SetInduction
<1>8. \A k \in 0..n : r[k] \in Int
  BY <1>7
<1> QED
  BY <1>5, <1>6, <1>8 DEF r

\* The same integers have the same sums, of lists of which only the first are
\* looked at too.
LEMMA AddingAlike ==
    ASSUME NEW n \in Nat, NEW m \in Nat, n <= m, NEW v, NEW w,
           \A k \in 1..n : v[k] \in Int, \A k \in 1..m : w[k] \in Int,
           \A k \in 1..n : v[k] = w[k]
    PROVE  Adding(v, n)[n] = Adding(w, m)[n]
<1> DEFINE a == Adding(v, n)
           b == Adding(w, m)
           Upto == {k \in Nat : k <= n => a[k] = b[k]}
<1>1. a[0] = 0 /\ \A k \in 1..n : a[k] = a[k - 1] + v[k]
  BY AddingRounds
<1>2. b[0] = 0 /\ \A k \in 1..m : b[k] = b[k - 1] + w[k]
  BY AddingRounds
<1> HIDE DEF a, b
<1>3. 0 \in Upto
  BY <1>1, <1>2
<1>4. \A k \in Nat : k \in Upto => k + 1 \in Upto
  <2> SUFFICES ASSUME NEW k \in Nat, k \in Upto, k + 1 <= n PROVE a[k + 1] = b[k + 1]
    OBVIOUS
  <2>1. k + 1 \in 1..n /\ k + 1 \in 1..m /\ (k + 1) - 1 = k /\ a[k] = b[k]
    OBVIOUS
  <2> QED
    BY <1>1, <1>2, <2>1
<1>5. n \in Upto
  <2> HIDE DEF Upto
  <2> QED
    BY <1>3, <1>4, SetInduction
<1> QED
  BY <1>5 DEF a, b

\* One integer can be taken out and added last.
LEMMA AddingLast ==
    ASSUME NEW n \in Nat, NEW w, \A k \in 1..(n + 1) : w[k] \in Int, NEW j \in 1..(n + 1),
           NEW v, \A k \in 1..n : v[k] = IF k < j THEN w[k] ELSE w[k + 1]
    PROVE  Adding(w, n + 1)[n + 1] = Adding(v, n)[n] + w[j]
<1> DEFINE a == Adding(w, n + 1)
           b == Adding(v, n)
           Upto == {k \in Nat : k <= n => a[IF k < j THEN k ELSE k + 1] =
                                          b[k] + IF k < j THEN 0 ELSE w[j]}
<1>1. \A k \in 1..n : v[k] \in Int
  OBVIOUS
<1>2. /\ a[0] = 0 /\ \A k \in 1..(n + 1) : a[k] = a[k - 1] + w[k]
      /\ \A k \in 0..(n + 1) : a[k] \in Int
  BY AddingRounds
<1>3. /\ b[0] = 0 /\ \A k \in 1..n : b[k] = b[k - 1] + v[k]
      /\ \A k \in 0..n : b[k] \in Int
  BY <1>1, AddingRounds
<1> HIDE DEF a, b
<1>4. 0 \in Upto
  BY <1>2, <1>3
<1>5. \A k \in Nat : k \in Upto => k + 1 \in Upto
  <2> SUFFICES ASSUME NEW k \in Nat, k \in Upto, k + 1 <= n
               PROVE  a[IF k + 1 < j THEN k + 1 ELSE k + 2] =
                        b[k + 1] + IF k + 1 < j THEN 0 ELSE w[j]
    OBVIOUS
  <2>1. a[IF k < j THEN k ELSE k + 1] = b[k] + IF k < j THEN 0 ELSE w[j]
    OBVIOUS
  <2>2. k \in 0..n /\ k + 1 \in 1..n /\ b[k + 1] = b[k] + v[k + 1] /\ b[k] \in Int
    BY <1>3
  <2>3. k + 1 \in 1..(n + 1) /\ a[k + 1] = a[k] + w[k + 1]
    BY <1>2
  <2>4. k + 2 \in 1..(n + 1) /\ a[k + 2] = a[k + 1] + w[k + 2]
    BY <1>2
  <2>5. v[k + 1] = IF k + 1 < j THEN w[k + 1] ELSE w[k + 2]
    BY <2>2
  <2>6. w[k + 1] \in Int /\ w[k + 2] \in Int /\ w[j] \in Int
    BY <2>3, <2>4
  <2>7. CASE k + 1 < j
    BY <2>1, <2>2, <2>3, <2>5, <2>6, <2>7
  <2>8. CASE k + 1 = j
    BY <2>1, <2>2, <2>3, <2>4, <2>5, <2>6, <2>8
  <2>9. CASE k + 1 > j
    BY <2>1, <2>2, <2>4, <2>5, <2>6, <2>9
  <2> QED
    BY <2>7, <2>8, <2>9
<1>6. n \in Upto
  <2> HIDE DEF Upto
  <2> QED
    BY <1>4, <1>5, SetInduction
<1>7. a[n + 1] = a[n] + w[n + 1] /\ b[n] \in Int /\ w[j] \in Int
  BY <1>2, <1>3
<1>8. a[n + 1] = b[n] + w[j]
  <2>1. a[IF n < j THEN n ELSE n + 1] = b[n] + IF n < j THEN 0 ELSE w[j]
    BY <1>6
  <2>2. CASE n < j
    <3>1. j = n + 1 /\ a[n] = b[n]
      BY <1>7, <2>1, <2>2
    <3> QED
      BY <1>7, <3>1
  <2>3. CASE ~(n < j)
    BY <2>1, <2>3
  <2> QED
    BY <2>2, <2>3
<1> QED
  BY <1>8 DEF a, b

\* The order of the integers does not change their sum.
LEMMA AddingInAnyOrder ==
    ASSUME NEW n \in Nat, NEW f, Permutes(f, n), NEW w, \A k \in 1..n : w[k] \in Int,
           NEW v, \A k \in 1..n : v[k] = w[f[k]]
    PROVE  Adding(v, n)[n] = Adding(w, n)[n]
<1> DEFINE Same(g, m, s, t) ==
              /\ Permutes(g, m) /\ (\A k \in 1..m : s[k] \in Int)
              /\ \A k \in 1..m : t[k] = s[g[k]]
              => Adding(t, m)[m] = Adding(s, m)[m]
           Upto == {m \in Nat : \A g, s, t : Same(g, m, s, t)}
<1>1. 0 \in Upto
  <2> SUFFICES ASSUME NEW s, NEW t PROVE Adding(t, 0)[0] = Adding(s, 0)[0]
    OBVIOUS
  <2>1. (\A k \in 1..0 : s[k] \in Int) /\ \A k \in 1..0 : t[k] \in Int
    OBVIOUS
  <2>2. Adding(t, 0)[0] = 0
    BY <2>1, AddingRounds
  <2>3. Adding(s, 0)[0] = 0
    BY <2>1, AddingRounds
  <2> QED
    BY <2>2, <2>3
<1>2. \A m \in Nat : m \in Upto => m + 1 \in Upto
  <2> SUFFICES ASSUME NEW m \in Nat, m \in Upto, NEW g, NEW s, NEW t, Permutes(g, m + 1),
                      \A k \in 1..(m + 1) : s[k] \in Int, \A k \in 1..(m + 1) : t[k] = s[g[k]]
               PROVE  Adding(t, m + 1)[m + 1] = Adding(s, m + 1)[m + 1]
    <3>1. SUFFICES ASSUME NEW m \in Nat, m \in Upto, NEW g, NEW s, NEW t
                   PROVE  Same(g, m + 1, s, t)
      <4> HIDE DEF Same
      <4> QED
        OBVIOUS
    <3> HIDE DEF Upto
    <3> QED
      BY <3>1
  <2> DEFINE h == Shortened(g, m)
             l == g[m + 1]
             rest  == [k \in 1..m |-> IF k < l THEN s[k] ELSE s[k + 1]]
             first == [k \in 1..m |-> t[k]]
  <2>1. /\ Permutes(h, m)
        /\ \A i \in 1..m : g[i] = IF h[i] < l THEN h[i] ELSE h[i] + 1
    BY ShortenedPermutes
  <2>2. l \in 1..(m + 1) /\ m + 1 \in 1..(m + 1) /\ t[m + 1] = s[l]
    BY DEF Permutes
  <2>3. \A k \in 1..(m + 1) : t[k] \in Int
    BY DEF Permutes
  <2>4. \A k \in 1..m : h[k] \in 1..m
    BY <2>1 DEF Permutes
  <2>5. m \in Upto
    OBVIOUS
  <2> HIDE DEF h, l, Upto
  <2>6. \A k \in 1..m : rest[k] = IF k < l THEN s[k] ELSE s[k + 1]
    OBVIOUS
  <2>7. \A k \in 1..m : rest[k] \in Int
    OBVIOUS
  <2>8. \A k \in 1..m : first[k] = t[k] /\ k \in 1..(m + 1)
    OBVIOUS
  <2> HIDE DEF rest, first
  <2>9. \A k \in 1..m : first[k] = rest[h[k]]
    <3> SUFFICES ASSUME NEW k \in 1..m PROVE first[k] = rest[h[k]]
      OBVIOUS
    <3>1. h[k] \in 1..m /\ first[k] = s[g[k]]
      BY <2>4, <2>8
    <3>2. g[k] = IF h[k] < l THEN h[k] ELSE h[k] + 1
      BY <2>1
    <3> QED
      BY <2>6, <3>1, <3>2
  <2>10. Adding(first, m)[m] = Adding(rest, m)[m]
    <3>1. Same(h, m, rest, first)
      BY <2>5 DEF Upto
    <3> QED
      BY <2>1, <2>7, <2>9, <3>1
  <2>11. Adding(s, m + 1)[m + 1] = Adding(rest, m)[m] + s[l]
    BY <2>2, <2>6, AddingLast
  <2>12. Adding(t, m + 1)[m + 1] = Adding(first, m)[m] + t[m + 1]
    <3>1. \A k \in 1..m : first[k] = IF k < m + 1 THEN t[k] ELSE t[k + 1]
      BY <2>8
    <3> QED
      BY <2>2, <2>3, <3>1, AddingLast
  <2> QED
    BY <2>2, <2>10, <2>11, <2>12
<1>3. n \in Upto
  <2> HIDE DEF Upto
  <2> QED
    BY <1>1, <1>2, SetInduction
<1>4. Same(f, n, w, v)
  <2> HIDE DEF Same
  <2> QED
    BY <1>3
<1> QED
  BY <1>4
=============================================================================
