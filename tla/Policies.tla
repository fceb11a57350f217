------------------------------ MODULE Policies ------------------------------
(***************************************************************************)
(* The terms of an offer (offers/policy.go, offers/mapper.go) and of a     *)
(* booking (booking/price.go, booking/mapper.go): what the two contexts    *)
(* make of the same policies on the wire, and what they answer about them. *)
(*                                                                         *)
(* A text of the wire is [form, value]: "absent", "readable" (the value is *)
(* what it says) or "unreadable".  A Go pointer is a set of at most one    *)
(* element.  Of a term's prose it matters which one it is; 0 is none.       *)
(***************************************************************************)
EXTENDS Integers, SequencesExt, Lists

CONSTANTS
    Instants,    \* the instants a deadline can name, the clock's values
    Fees,        \* what an amount can say, zero among them
    MaxNights    \* the longest stay and the longest limit on one

ASSUME TermsAssumption ==
    /\ Instants \subseteq Nat
    /\ Fees \subseteq Nat /\ 0 \in Fees
    /\ MaxNights \in Nat

-----------------------------------------------------------------------------
(* The policies as they arrive. *)

Text(Values) ==
    {[form |-> form, value |-> 0] : form \in {"absent", "unreadable"}}
        \union [form : {"readable"}, value : Values]

\* The percentage is compared as a text, and only "" and "0" are free.
Percentages == {"", "0", "100"}

CancellationResponse ==
    [amount : Text(Fees), deadline : Text(Instants), percentage : Percentages,
     numberOfNights : 0..1, type : {"", "FULL_STAY"}, policyType : {"", "NO_SHOW"},
     description : 0..2]

Statuses == {"NON_REFUNDABLE", "REFUNDABLE", "REFUNDABLE_UP_TO_DEADLINE", "UNKNOWN"}

AtMostOne(S) == {{}} \union {{x} : x \in S}

LengthOfStayResponse == [minimum : 0..MaxNights, maximum : 0..MaxNights, described : BOOLEAN]

-----------------------------------------------------------------------------
(* Conversions. *)

parseMoney(text) == IF text.form = "readable" THEN text.value ELSE 0

parseTimestamp(text) == IF text.form = "readable" THEN {text.value} ELSE {}

mapCancellation(c) ==
    [amount |-> parseMoney(c.amount), percentage |-> c.percentage,
     numberOfNights |-> c.numberOfNights, deadline |-> parseTimestamp(c.deadline),
     type |-> c.type, policyType |-> c.policyType, description |-> c.description]

isEmptyCancellation(c) ==
    /\ c.amount.form = "absent" /\ c.deadline.form = "absent"
    /\ c.percentage = "" /\ c.numberOfNights = 0
    /\ c.type = "" /\ c.policyType = "" /\ c.description = 0

\* What is compared of a term, and all that an answer is read from: not its prose.
Rules(c) ==
    [amount |-> c.amount, percentage |-> c.percentage, numberOfNights |-> c.numberOfNights,
     deadline |-> c.deadline, type |-> c.type, policyType |-> c.policyType]

\* As if the deadline had been left out of the comparison.
sameCancellation_AnyDeadline(a, b) ==
    [Rules(a) EXCEPT !.deadline = {}] = [Rules(b) EXCEPT !.deadline = {}]

sameCancellation(a, b) == Rules(a) = Rules(b)

\* The statements of an offer that say something, "cancellation" before "cancellations".
Statements(p) ==
    LET listed == <<p.cancellation>> \o p.cancellations
    IN  Kept(listed, {c \in ToSet(listed) : ~isEmptyCancellation(c)})

\* Each one is compared with the first of the list and with no other.
mergedCancellations(p) ==
    LET terms == [i \in DOMAIN Statements(p) |-> mapCancellation(Statements(p)[i])]
        others == {c \in ToSet(terms) : ~sameCancellation(terms[1], c)}
    IN  IF terms = <<>> THEN <<>> ELSE <<terms[1]>> \o Kept(Tail(terms), others)

\* The structured block wins over the two deprecated fields, limit by limit.
reconciled(deprecated, structured) ==
    IF \E s \in structured : s > 0 THEN CHOOSE s \in structured : TRUE ELSE deprecated

\* offers: the limits are kept when there is one, or prose about one.
mapLengthOfStay(p) ==
    LET minimum   == reconciled(p.minimum, {s.minimum : s \in p.lengthOfStay})
        maximum   == reconciled(p.maximum, {s.maximum : s \in p.lengthOfStay})
        described == \E s \in p.lengthOfStay : s.described
    IN  IF minimum = 0 /\ maximum = 0 /\ ~described THEN {}
        ELSE {[minimum |-> minimum, maximum |-> maximum]}

\* As if the structured block replaced the deprecated fields as a whole.
bookedLengthOfStay_AllOrNothing(p) ==
    LET limits == IF p.lengthOfStay = {} THEN [minimum |-> p.minimum, maximum |-> p.maximum]
                  ELSE CHOOSE l \in {[minimum |-> s.minimum, maximum |-> s.maximum] :
                                        s \in p.lengthOfStay} : TRUE
    IN  IF limits.minimum > 0 \/ limits.maximum > 0 THEN {limits} ELSE {}

\* booking: the limits are kept when there is one.
bookedLengthOfStay(p) ==
    LET minimum == reconciled(p.minimum, {s.minimum : s \in p.lengthOfStay})
        maximum == reconciled(p.maximum, {s.maximum : s \in p.lengthOfStay})
    IN  IF minimum > 0 \/ maximum > 0 THEN {[minimum |-> minimum, maximum |-> maximum]} ELSE {}

\* offers.mapPolicies: the parts an answer is given from.
mapPolicies(p) ==
    [cancellation |-> mergedCancellations(p), refundable |-> p.refundable,
     lengthOfStay |-> mapLengthOfStay(p)]

\* booking.mapPolicies: every entry is kept, an empty one too.
bookedPolicies(p) ==
    [cancellation |-> [i \in DOMAIN p.cancellations |-> mapCancellation(p.cancellations[i])],
     refundable |-> p.refundable, lengthOfStay |-> bookedLengthOfStay(p)]

-----------------------------------------------------------------------------
(* Answers. *)

IsFree(c) == c.amount = 0 /\ c.numberOfNights = 0 /\ c.percentage \in {"", "0"}

Answer(yes, certain) == [yes |-> yes, certain |-> certain]

\* As if only the first of the terms were read.
IsRefundable_FirstTermOnly(p) ==
    IF p.refundable = {"NON_REFUNDABLE"} THEN Answer(FALSE, TRUE)
    ELSE IF p.refundable \in {{"REFUNDABLE"}, {"REFUNDABLE_UP_TO_DEADLINE"}} THEN Answer(TRUE, TRUE)
    ELSE IF p.cancellation = <<>> THEN Answer(FALSE, FALSE)
    ELSE Answer(p.cancellation[1].deadline # {} \/ p.cancellation[1].amount = 0, TRUE)

\* A deadline is enough whatever it is, and an amount of zero whatever the other forms say.
IsRefundable(p) ==
    IF p.refundable = {"NON_REFUNDABLE"} THEN Answer(FALSE, TRUE)
    ELSE IF p.refundable \in {{"REFUNDABLE"}, {"REFUNDABLE_UP_TO_DEADLINE"}} THEN Answer(TRUE, TRUE)
    ELSE IF p.cancellation = <<>> THEN Answer(FALSE, FALSE)
    ELSE Answer(\E c \in ToSet(p.cancellation) : c.deadline # {} \/ c.amount = 0, TRUE)

\* As if the latest deadline of all terms were shown, a charge attached to it or not.
FreeCancellationUntil_AnyTerm(p) ==
    LET deadlines == UNION {c.deadline : c \in ToSet(p.cancellation)}
    IN  {d \in deadlines : \A e \in deadlines : e <= d}

\* The latest deadline of a free term, if there is one.
FreeCancellationUntil(p) ==
    LET deadlines == UNION {c.deadline : c \in {c \in ToSet(p.cancellation) : IsFree(c)}}
    IN  {d \in deadlines : \A e \in deadlines : e <= d}

Permits(lengthOfStay, nights) ==
    \A l \in lengthOfStay : /\ l.minimum > 0 => nights >= l.minimum
                            /\ l.maximum > 0 => nights <= l.maximum

\* As if a deadline counted once it has passed.
CanCancelFreeOfCharge_After(p, now) ==
    IF p.refundable = {"NON_REFUNDABLE"} THEN Answer(FALSE, TRUE)
    ELSE IF p.cancellation = <<>>
         THEN IF p.refundable = {"REFUNDABLE"} THEN Answer(TRUE, TRUE) ELSE Answer(FALSE, FALSE)
    ELSE Answer(\E c \in ToSet(p.cancellation) :
                   IsFree(c) /\ (c.deadline = {} \/ \E d \in c.deadline : now > d), TRUE)

CanCancelFreeOfCharge(p, now) ==
    IF p.refundable = {"NON_REFUNDABLE"} THEN Answer(FALSE, TRUE)
    ELSE IF p.cancellation = <<>>
         THEN IF p.refundable = {"REFUNDABLE"} THEN Answer(TRUE, TRUE) ELSE Answer(FALSE, FALSE)
    ELSE Answer(\E c \in ToSet(p.cancellation) :
                   IsFree(c) /\ (c.deadline = {} \/ \E d \in c.deadline : now < d), TRUE)
=============================================================================
