-------------------------- MODULE StayTermsProofs ---------------------------
(***************************************************************************)
(* What a guest was told stays true, for any offer, any list of its terms  *)
(* and any length of time.  The invariant says that of a list of terms     *)
(* only the set of their rules reaches an answer, so that neither prose   *)
(* nor the list a retrieval happens to return matters.                     *)
(***************************************************************************)
EXTENDS StayTerms, ListLemmas

PoliciesResponse ==
    [cancellation : CancellationResponse, cancellations : Seq(CancellationResponse),
     refundable : AtMostOne(Statuses), lengthOfStay : AtMostOne(LengthOfStayResponse),
     minimum : 0..MaxNights, maximum : 0..MaxNights]

RulesOf(terms) == {Rules(c) : c \in terms}
Read(responses) == {Rules(mapCancellation(c)) : c \in responses}

\* The rules the offer shows, and those the booking answers from.
Shown(p) == Read(Stated(p))
Known(p) == Read(Entries(p))

\* What the booking answers at time t, read from the set of its terms.
FreeAt(p, t) ==
    /\ p.refundable # {"NON_REFUNDABLE"}
    /\ IF Known(p) = {} THEN p.refundable = {"REFUNDABLE"}
       ELSE \E c \in Known(p) : IsFree(c) /\ (c.deadline = {} \/ \E d \in c.deadline : t < d)

QuotedTerms ==
    /\ quote.refundable = offered.refundable
    /\ quote.cancellation = mergedCancellations(offered)

BookedTerms ==
    \A b \in booked :
        /\ b.refundable = offered.refundable
        /\ RulesOf(ToSet(b.cancellation)) = Known(offered)
        /\ (b.cancellation = <<>>) <=> (Known(offered) = {})
        /\ b.lengthOfStay = bookedLengthOfStay(offered)

Told ==
    /\ \A a, b \in asked : a = b
    /\ \A a \in asked : \E t \in Nat : t <= now /\ (a.yes <=> FreeAt(offered, t))

StayInv ==
    /\ now \in Nat
    /\ offered \in PoliciesResponse
    /\ quote.lengthOfStay = mapLengthOfStay(offered)
    /\ QuotedTerms
    /\ BookedTerms
    /\ Told

-----------------------------------------------------------------------------
(* Lemmas. *)

\* A deadline that was read is an instant of the model.
LEMMA DeadlinesAreInstants ==
    ASSUME NEW p \in PoliciesResponse, NEW c \in Known(p)
    PROVE  c.deadline \subseteq Instants
<1>1. PICK r \in Entries(p) : c = Rules(mapCancellation(r))
  BY DEF Known, Read
<1>2. p.cancellation \in CancellationResponse /\ p.cancellations \in Seq(CancellationResponse)
  BY DEF PoliciesResponse
<1>3. ToSet(p.cancellations) \subseteq CancellationResponse
  BY <1>2 DEF ToSet
<1>4. r \in CancellationResponse
  BY <1>2, <1>3 DEF Entries, Stated
<1>5. r.deadline \in Text(Instants)
  BY <1>4 DEF CancellationResponse
<1>6. c.deadline = parseTimestamp(r.deadline)
  BY <1>1 DEF mapCancellation, Rules
<1>7. r.deadline.form = "readable" => r.deadline.value \in Instants
  BY <1>5 DEF Text
<1> QED
  BY <1>6, <1>7 DEF parseTimestamp

\* What is free is free before, too.
LEMMA FreeBefore ==
    ASSUME NEW p \in PoliciesResponse, NEW t \in Nat, NEW u \in Nat, t <= u, FreeAt(p, u)
    PROVE  FreeAt(p, t)
<1>1. CASE Known(p) = {}
  BY <1>1 DEF FreeAt
<1>2. CASE Known(p) # {}
  <2>1. PICK c \in Known(p) : IsFree(c) /\ (c.deadline = {} \/ \E d \in c.deadline : u < d)
    BY <1>2 DEF FreeAt
  <2>2. c.deadline \subseteq Nat
    BY DeadlinesAreInstants, TermsAssumption
  <2>3. c.deadline = {} \/ \E d \in c.deadline : t < d
    BY <2>1, <2>2
  <2> QED
    BY <1>2, <2>1, <2>3 DEF FreeAt
<1> QED
  BY <1>1, <1>2

\* A booking's answer is read from the set of its terms' rules.
LEMMA AnswerFromSet ==
    ASSUME NEW p, NEW b, NEW t,
           b.refundable = p.refundable, RulesOf(ToSet(b.cancellation)) = Known(p),
           (b.cancellation = <<>>) <=> (Known(p) = {})
    PROVE  CanCancelFreeOfCharge(b, t).yes <=> FreeAt(p, t)
<1>1. CASE p.refundable = {"NON_REFUNDABLE"}
  BY <1>1 DEF CanCancelFreeOfCharge, FreeAt, Answer
<1>2. CASE p.refundable # {"NON_REFUNDABLE"} /\ Known(p) = {}
  BY <1>2 DEF CanCancelFreeOfCharge, FreeAt, Answer
<1>3. CASE p.refundable # {"NON_REFUNDABLE"} /\ Known(p) # {}
  <2> DEFINE Free(c) == IsFree(c) /\ (c.deadline = {} \/ \E d \in c.deadline : t < d)
  <2>1. \A c : Free(c) <=> Free(Rules(c))
    BY DEF IsFree, Rules
  <2>2. CanCancelFreeOfCharge(b, t).yes <=> \E c \in ToSet(b.cancellation) : Free(c)
    BY <1>3 DEF CanCancelFreeOfCharge, Answer
  <2>3. FreeAt(p, t) <=> \E c \in Known(p) : Free(c)
    BY <1>3 DEF FreeAt
  <2> HIDE DEF Free
  <2> QED
    BY <2>1, <2>2, <2>3 DEF RulesOf
<1> QED
  BY <1>1, <1>2, <1>3

\* Whatever list a retrieval returns, its terms are the entries of the offer.
LEMMA ConfirmedKeepsTerms ==
    ASSUME NEW p \in PoliciesResponse, NEW q \in ConfirmedTerms(p)
    PROVE  /\ bookedPolicies(q).refundable = p.refundable
           /\ RulesOf(ToSet(bookedPolicies(q).cancellation)) = Known(p)
           /\ (bookedPolicies(q).cancellation = <<>>) <=> (Known(p) = {})
           /\ bookedPolicies(q).lengthOfStay = bookedLengthOfStay(p)
<1>1. PICK l \in BoundedSeq(Entries(p), MaxListed) :
        ToSet(l) = Entries(p) /\ q = [p EXCEPT !.cancellations = l]
  BY DEF ConfirmedTerms
<1>2. PICK n \in Nat : l \in [1..n -> Entries(p)]
  BY ListedAssumption DEF BoundedSeq, SeqOf
<1>3. /\ q.cancellations = l /\ q.refundable = p.refundable
      /\ q.lengthOfStay = p.lengthOfStay /\ q.minimum = p.minimum /\ q.maximum = p.maximum
  BY <1>1 DEF PoliciesResponse
<1>4. bookedPolicies(q).cancellation = [i \in 1..n |-> mapCancellation(l[i])]
  BY <1>2, <1>3 DEF bookedPolicies
<1>5. ToSet(bookedPolicies(q).cancellation) = {mapCancellation(c) : c \in Entries(p)}
  BY <1>1, <1>2, <1>4 DEF ToSet
<1>8. RulesOf(ToSet(bookedPolicies(q).cancellation)) = Known(p)
  BY <1>5 DEF RulesOf, Known, Read
<1>6. (bookedPolicies(q).cancellation = <<>>) <=> (Known(p) = {})
  <2>1. CASE n = 0
    BY <2>1, <1>1, <1>2, <1>4 DEF ToSet, Known, Read, RulesOf
  <2>2. CASE n # 0
    <3>1. 1 \in 1..n
      BY <2>2
    <3>2. bookedPolicies(q).cancellation # <<>>
      BY <3>1, <1>4
    <3>3. l[1] \in Entries(p)
      BY <3>1, <1>2
    <3> QED
      BY <3>2, <3>3 DEF Known, Read
  <2> QED
    BY <2>1, <2>2
<1>7. bookedPolicies(q).lengthOfStay = bookedLengthOfStay(p)
  BY <1>3 DEF bookedPolicies, bookedLengthOfStay
<1> QED
  BY <1>3, <1>6, <1>7, <1>8 DEF bookedPolicies

\* The statements that say something, as a list.
LEMMA StatementsAreStated ==
    ASSUME NEW p \in PoliciesResponse
    PROVE  Statements(p) \in Seq(CancellationResponse) /\ ToSet(Statements(p)) = Stated(p)
<1> DEFINE listed == <<p.cancellation>> \o p.cancellations
<1>1. p.cancellation \in CancellationResponse /\ p.cancellations \in Seq(CancellationResponse)
  BY DEF PoliciesResponse
<1>2. /\ listed \in Seq(CancellationResponse)
      /\ ToSet(listed) = {p.cancellation} \union ToSet(p.cancellations)
  BY <1>1, PrependElements
<1> HIDE DEF listed
<1>3. Statements(p) = Kept(listed, {c \in ToSet(listed) : ~isEmptyCancellation(c)})
  BY DEF Statements, listed
<1>4. /\ Statements(p) \in Seq(CancellationResponse)
      /\ ToSet(Statements(p)) = ToSet(listed) \cap {c \in ToSet(listed) : ~isEmptyCancellation(c)}
  BY <1>2, <1>3, KeptElements
<1> QED
  BY <1>2, <1>4 DEF Stated

\* What merging keeps, and what the rest has in common with the first of it.
LEMMA MergeKeepsTerms ==
    ASSUME NEW p \in PoliciesResponse
    PROVE  /\ ToSet(mergedCancellations(p)) \subseteq {mapCancellation(c) : c \in Stated(p)}
           /\ \A c \in Stated(p) :
                 \/ mapCancellation(c) \in ToSet(mergedCancellations(p))
                 \/ Rules(mapCancellation(c)) = Rules(mergedCancellations(p)[1])
           /\ RulesOf(ToSet(mergedCancellations(p))) = Shown(p)
           /\ (mergedCancellations(p) = <<>>) <=> (Shown(p) = {})
<1> DEFINE A      == {mapCancellation(c) : c \in Stated(p)}
           terms  == [i \in DOMAIN Statements(p) |-> mapCancellation(Statements(p)[i])]
           others == {c \in ToSet(terms) : ~sameCancellation(terms[1], c)}
           n      == Len(Statements(p))
           merged == mergedCancellations(p)
<1>1. Statements(p) \in Seq(CancellationResponse) /\ ToSet(Statements(p)) = Stated(p)
  BY StatementsAreStated
<1>2. n \in Nat /\ DOMAIN Statements(p) = 1..n
  BY <1>1
<1>3. ToSet(terms) = A
  BY <1>1 DEF ToSet
<1>4. terms \in Seq(A) /\ Len(terms) = n /\ DOMAIN terms = 1..n
  <2>1. \A i \in 1..n : terms[i] \in A
    BY <1>2, <1>3 DEF ToSet
  <2>2. terms \in [1..n -> A]
    BY <1>2, <2>1
  <2> HIDE DEF terms
  <2> QED
    BY <1>2, <2>2
<1>5. merged = IF terms = <<>> THEN <<>> ELSE <<terms[1]>> \o Kept(Tail(terms), others)
  BY DEF mergedCancellations
<1>8. Shown(p) = RulesOf(A) /\ \A c \in Stated(p) : mapCancellation(c) \in A
  BY DEF Shown, Read, RulesOf
<1> HIDE DEF A, terms, n, merged
<1>9. SUFFICES /\ ToSet(merged) \subseteq A
               /\ \A a \in A : a \in ToSet(merged) \/ Rules(a) = Rules(merged[1])
               /\ RulesOf(ToSet(merged)) = RulesOf(A)
               /\ (merged = <<>>) <=> (A = {})
  <2>1. (RulesOf(A) = {}) <=> (A = {})
    BY DEF RulesOf
  <2> QED
    BY <1>8, <1>9, <2>1 DEF A, merged
<1>6. CASE n = 0
  <2>1. terms = <<>>
    BY <1>4, <1>6
  <2>2. A = {}
    BY <1>3, <1>4, <1>6 DEF ToSet
  <2>3. ToSet(<<>>) = {}
    BY DEF ToSet
  <2> QED
    BY <1>5, <2>1, <2>2, <2>3
<1>7. CASE n # 0
  <2> DEFINE rest == Kept(Tail(terms), others)
  <2>1. terms # <<>> /\ 1 \in 1..n /\ terms[1] \in A
    BY <1>2, <1>4, <1>7
  <2>2. Tail(terms) \in Seq(A) /\ ToSet(terms) = {terms[1]} \union ToSet(Tail(terms))
    BY <1>4, <2>1, TailElements
  <2>3. rest \in Seq(A) /\ ToSet(rest) = ToSet(Tail(terms)) \cap others
    BY <2>2, KeptElements
  <2> HIDE DEF rest
  <2>4. merged = <<terms[1]>> \o rest
    BY <1>5, <2>1 DEF rest
  <2>5. merged # <<>> /\ ToSet(merged) = {terms[1]} \union ToSet(rest)
    BY <2>1, <2>3, <2>4, PrependElements
  <2>6. merged[1] = terms[1]
    BY <2>1, <2>3, <2>4
  <2>7. ToSet(merged) \subseteq A
    BY <1>3, <2>1, <2>3, <2>5
  <2>8. ASSUME NEW a \in A
        PROVE  a \in ToSet(merged) \/ Rules(a) = Rules(merged[1])
    BY <1>3, <2>2, <2>3, <2>5, <2>6 DEF sameCancellation
  <2>9. merged[1] \in ToSet(merged)
    BY <2>5, <2>6
  <2>10. RulesOf(ToSet(merged)) = RulesOf(A)
    BY <2>7, <2>8, <2>9 DEF RulesOf
  <2> QED
    BY <2>1, <2>5, <2>7, <2>8, <2>10
<1> QED
  BY <1>2, <1>6, <1>7

\* Both contexts permit the same stays of the same policies.
LEMMA SameStays ==
    ASSUME NEW p \in PoliciesResponse, NEW nights \in 1..MaxNights
    PROVE  Permits(bookedLengthOfStay(p), nights) = Permits(mapLengthOfStay(p), nights)
<1> DEFINE least == reconciled(p.minimum, {s.minimum : s \in p.lengthOfStay})
           most  == reconciled(p.maximum, {s.maximum : s \in p.lengthOfStay})
<1>1. \A s \in p.lengthOfStay : s.minimum \in 0..MaxNights /\ s.maximum \in 0..MaxNights
  BY DEF PoliciesResponse, AtMostOne, LengthOfStayResponse
<1>2. p.minimum \in 0..MaxNights /\ p.maximum \in 0..MaxNights
  BY DEF PoliciesResponse
<1>3. least \in Nat
  BY <1>1, <1>2, TermsAssumption DEF reconciled
<1>4. most \in Nat
  BY <1>1, <1>2, TermsAssumption DEF reconciled
<1> HIDE DEF least, most
<1>5. bookedLengthOfStay(p) = IF least > 0 \/ most > 0
                              THEN {[minimum |-> least, maximum |-> most]} ELSE {}
  BY DEF bookedLengthOfStay, least, most
<1>6. mapLengthOfStay(p) = IF least = 0 /\ most = 0 /\ ~(\E s \in p.lengthOfStay : s.described)
                           THEN {} ELSE {[minimum |-> least, maximum |-> most]}
  BY DEF mapLengthOfStay, least, most
<1>7. CASE least = 0 /\ most = 0
  <2>1. Permits(bookedLengthOfStay(p), nights)
    BY <1>5, <1>7 DEF Permits
  <2>2. Permits(mapLengthOfStay(p), nights)
    BY <1>6, <1>7 DEF Permits
  <2>3. Permits(bookedLengthOfStay(p), nights) \in BOOLEAN /\ Permits(mapLengthOfStay(p), nights) \in BOOLEAN
    BY DEF Permits
  <2> QED
    BY <2>1, <2>2, <2>3
<1>8. CASE ~(least = 0 /\ most = 0)
  BY <1>3, <1>4, <1>5, <1>6, <1>8
<1> QED
  BY <1>7, <1>8

-----------------------------------------------------------------------------
(* The invariant. *)

LEMMA StayInvariant == Spec => []StayInv
<1>1. Init => StayInv
  <2> SUFFICES ASSUME Init PROVE StayInv
    OBVIOUS
  <2>1. offered \in PoliciesResponse
    BY OfferedAssumption DEF Init, PoliciesResponse
  <2>2. quote.lengthOfStay = mapLengthOfStay(offered)
    BY DEF Init, mapPolicies
  <2>3. quote.refundable = offered.refundable /\ quote.cancellation = mergedCancellations(offered)
    BY DEF Init, mapPolicies
  <2>4. QuotedTerms
    BY <2>3 DEF QuotedTerms
  <2> QED
    BY <2>1, <2>2, <2>4 DEF Init, StayInv, BookedTerms, Told
<1>2. StayInv /\ [Next]_vars => StayInv'
  <2> SUFFICES ASSUME StayInv, [Next]_vars PROVE StayInv'
    OBVIOUS
  <2> USE DEF StayInv
  <2>1. CASE Retrieve
    <3>1. PICK q \in ConfirmedTerms(offered) : booked' = {bookedPolicies(q)}
      BY <2>1 DEF Retrieve
    <3>2. UNCHANGED <<now, offered, quote, asked>>
      BY <2>1 DEF Retrieve
    <3>3. BookedTerms'
      BY <3>1, <3>2, ConfirmedKeepsTerms DEF BookedTerms
    <3>4. Told'
      BY <3>2 DEF Told
    <3>5. QuotedTerms'
      BY <3>2 DEF QuotedTerms
    <3> QED
      BY <3>2, <3>3, <3>4, <3>5
  <2>2. CASE Ask
    <3>1. PICK b \in booked : asked' = {CanCancelFreeOfCharge(b, now)}
      BY <2>2 DEF Ask
    <3>2. UNCHANGED <<now, offered, quote, booked>>
      BY <2>2 DEF Ask
    <3>3. CanCancelFreeOfCharge(b, now).yes <=> FreeAt(offered, now)
      BY AnswerFromSet DEF BookedTerms
    <3>4. Told'
      BY <3>1, <3>2, <3>3 DEF Told
    <3>5. BookedTerms'
      BY <3>2 DEF BookedTerms
    <3>6. QuotedTerms'
      BY <3>2 DEF QuotedTerms
    <3> QED
      BY <3>2, <3>4, <3>5, <3>6
  <2>3. CASE Tick
    <3>1. now' = now + 1 /\ UNCHANGED <<offered, quote, booked, asked>>
      BY <2>3 DEF Tick
    <3>2. Told'
      BY <3>1 DEF Told
    <3>3. BookedTerms'
      BY <3>1 DEF BookedTerms
    <3>4. QuotedTerms'
      BY <3>1 DEF QuotedTerms
    <3> QED
      BY <3>1, <3>2, <3>3, <3>4
  <2>4. CASE UNCHANGED vars
    BY <2>4 DEF vars, QuotedTerms, BookedTerms, Told
  <2> QED
    BY <2>1, <2>2, <2>3, <2>4 DEF Next
<1> QED
  BY <1>1, <1>2, PTL DEF Spec

-----------------------------------------------------------------------------
(* Theorems. *)

\* Once a guest was told that cancelling is not free, or that nobody can say,
\* no later answer of CanCancelFreeOfCharge about that booking tells him it
\* is, however often it is retrieved and in whatever order its terms come.
THEOREM NeverFreeOnceCharged == Spec => NeverFreeAgain
<1>1. StayInv /\ StayInv' /\ [Next]_vars
        => [\A before \in asked, after \in asked' : after.yes => before.yes]_vars
  <2> SUFFICES ASSUME StayInv, StayInv', Next,
                      NEW before \in asked, NEW after \in asked', after.yes
               PROVE  before.yes
    OBVIOUS
  <2> USE DEF StayInv
  <2>1. CASE Ask
    <3>1. PICK b \in booked : asked' = {CanCancelFreeOfCharge(b, now)}
      BY <2>1 DEF Ask
    <3>2. FreeAt(offered, now)
      BY <3>1, AnswerFromSet DEF BookedTerms
    <3>3. PICK t \in Nat : t <= now /\ (before.yes <=> FreeAt(offered, t))
      BY DEF Told
    <3> QED
      BY <3>2, <3>3, FreeBefore
  <2>2. CASE Retrieve \/ Tick
    <3>1. UNCHANGED <<offered, asked>>
      BY <2>2 DEF Retrieve, Tick
    <3>2. after \in asked
      BY <3>1
    <3> QED
      BY <3>2 DEF Told
  <2> QED
    BY <2>1, <2>2 DEF Next
<1> QED
  BY <1>1, StayInvariant, PTL DEF Spec, NeverFreeAgain

\* The offer and the booking permit the same stays: reconciling the structured
\* block with the deprecated fields separately in the two mappers leaves no
\* stay that one accepts and the other refuses.
THEOREM SameStayLimits == Spec => []StayLimitsAgree
<1>1. StayInv => StayLimitsAgree
  BY SameStays DEF StayInv, BookedTerms, StayLimitsAgree
<1> QED
  BY <1>1, StayInvariant, PTL

\* Merging "cancellation" and "cancellations" drops no charge and no deadline:
\* comparing each statement with the first of the list and with no other
\* leaves out only those that say what that first one says, in other words
\* perhaps.
THEOREM MergeLosesNoTerm == Spec => []NoTermIsLost
<1>1. StayInv => NoTermIsLost
  BY MergeKeepsTerms DEF StayInv, QuotedTerms, NoTermIsLost
<1> QED
  BY <1>1, StayInvariant, PTL

\* Until the instant shown beside "free cancellation until" the booking calls
\* cancelling free, whatever list of its terms a retrieval returned, unless
\* the offer states that it is not refundable.
THEOREM FreeUntilMeansFree == Spec => []FreePromiseKept
<1>1. StayInv => FreePromiseKept
  <2> SUFFICES ASSUME StayInv, NEW b \in booked, NEW d \in FreeCancellationUntil(quote),
                      now < d, quote.refundable # {"NON_REFUNDABLE"}
               PROVE  CanCancelFreeOfCharge(b, now) = Answer(TRUE, TRUE)
    BY DEF FreePromiseKept
  <2>1. PICK c \in ToSet(quote.cancellation) : IsFree(c) /\ d \in c.deadline
    BY DEF FreeCancellationUntil
  <2>2. RulesOf(ToSet(quote.cancellation)) = Shown(offered)
    BY MergeKeepsTerms DEF StayInv, QuotedTerms
  <2>3. Rules(c) \in Known(offered)
    BY <2>1, <2>2 DEF RulesOf, Shown, Known, Read, Entries
  <2>4. /\ RulesOf(ToSet(b.cancellation)) = Known(offered)
        /\ b.cancellation # <<>> /\ b.refundable # {"NON_REFUNDABLE"}
    BY <2>3 DEF StayInv, QuotedTerms, BookedTerms
  <2>5. PICK e \in ToSet(b.cancellation) : Rules(e) = Rules(c)
    BY <2>3, <2>4 DEF RulesOf
  <2>6. IsFree(e) /\ d \in e.deadline
    BY <2>1, <2>5 DEF Rules, IsFree
  <2>7. \E f \in ToSet(b.cancellation) :
           IsFree(f) /\ (f.deadline = {} \/ \E g \in f.deadline : now < g)
    BY <2>6
  <2> QED
    BY <2>4, <2>7 DEF CanCancelFreeOfCharge, Answer
<1> QED
  BY <1>1, StayInvariant, PTL

\* What a booking calls free with certainty, its offer called refundable with
\* certainty, unless its list has an empty entry: the two contexts weigh the
\* same terms differently, and nothing else makes booking the more generous.
THEOREM NeverMoreGenerous == Spec => []NeverMoreGenerousThanOffered
<1>1. StayInv => NeverMoreGenerousThanOffered
  <2> SUFFICES ASSUME StayInv, NEW b \in booked,
                      CanCancelFreeOfCharge(b, now) = Answer(TRUE, TRUE),
                      \A c \in ToSet(offered.cancellations) : ~isEmptyCancellation(c)
               PROVE  IsRefundable(quote) = Answer(TRUE, TRUE)
    BY DEF NeverMoreGenerousThanOffered
  <2>1. CanCancelFreeOfCharge(b, now).yes
    BY DEF Answer
  <2>2. FreeAt(offered, now)
    BY <2>1, AnswerFromSet DEF StayInv, BookedTerms
  <2>3. quote.refundable # {"NON_REFUNDABLE"}
    BY <2>2 DEF FreeAt, StayInv, QuotedTerms
  <2>4. CASE quote.refundable \in {{"REFUNDABLE"}, {"REFUNDABLE_UP_TO_DEADLINE"}}
    BY <2>3, <2>4 DEF IsRefundable
  <2>5. CASE quote.refundable \notin {{"REFUNDABLE"}, {"REFUNDABLE_UP_TO_DEADLINE"}}
    <3>1. PICK c \in Known(offered) : IsFree(c)
      BY <2>2, <2>5 DEF FreeAt, StayInv, QuotedTerms
    <3>2. Entries(offered) = Stated(offered)
      BY DEF Entries, Stated
    <3>3. c \in Shown(offered)
      BY <3>1, <3>2 DEF Known, Shown
    <3>4. /\ RulesOf(ToSet(quote.cancellation)) = Shown(offered)
          /\ quote.cancellation # <<>>
      BY <3>3, MergeKeepsTerms DEF StayInv, QuotedTerms
    <3>5. PICK e \in ToSet(quote.cancellation) : Rules(e) = c
      BY <3>3, <3>4 DEF RulesOf
    <3>6. e.amount = 0
      BY <3>1, <3>5 DEF Rules, IsFree
    <3>7. \E f \in ToSet(quote.cancellation) : f.deadline # {} \/ f.amount = 0
      BY <3>6
    <3> QED
      BY <2>3, <2>5, <3>4, <3>7 DEF IsRefundable, Answer
  <2> QED
    BY <2>4, <2>5
<1> QED
  BY <1>1, StayInvariant, PTL
=============================================================================
