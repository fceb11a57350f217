------------------------------ MODULE StayTerms -----------------------------
(***************************************************************************)
(* What a guest is told about cancelling, from the offer to the booking,   *)
(* while time passes.  The offers context answers from the offer's terms,  *)
(* the booking context from the terms the booking comes back with, each    *)
(* time it is retrieved.  Amadeus, which is external, repeats in a booking *)
(* the entries of its offer, an empty one too: in any order, some more     *)
(* than once, and in one list where the offer has a "cancellation" and     *)
(* "cancellations".                                                        *)
(***************************************************************************)
EXTENDS Policies

CONSTANTS
    Offered,     \* the policies that offers come with
    MaxListed    \* the longest list of terms of a booking

ASSUME OfferedAssumption ==
    Offered \subseteq
        [cancellation : CancellationResponse, cancellations : Seq(CancellationResponse),
         refundable : AtMostOne(Statuses), lengthOfStay : AtMostOne(LengthOfStayResponse),
         minimum : 0..MaxNights, maximum : 0..MaxNights]

ASSUME ListedAssumption == MaxListed \in Nat

VARIABLES
    now,        \* time.Now() where the guest asks
    offered,    \* the policies of the offer, as they arrived
    quote,      \* Offer.Policies
    booked,     \* Booking.Offer.Policies, once there is a booking
    asked       \* the last answer of CanCancelFreeOfCharge

vars == <<now, offered, quote, booked, asked>>

\* What an offer states, in whichever member.
Stated(p) == {c \in {p.cancellation} \union ToSet(p.cancellations) : ~isEmptyCancellation(c)}

\* What there is to repeat: a member is absent or states something, an entry of
\* the list can be there and state nothing.
Entries(p) == Stated(p) \union ToSet(p.cancellations)

\* The form in which a booking repeats an offer's entries.
ConfirmedTerms(p) ==
    {[p EXCEPT !.cancellations = list] :
        list \in {l \in BoundedSeq(Entries(p), MaxListed) : ToSet(l) = Entries(p)}}

Init ==
    /\ now = 0
    /\ offered \in Offered
    /\ quote = mapPolicies(offered)
    /\ booked = {}
    /\ asked = {}

\* Create, and every Get after it.
Retrieve ==
    /\ \E p \in ConfirmedTerms(offered) : booked' = {bookedPolicies(p)}
    /\ UNCHANGED <<now, offered, quote, asked>>

Ask ==
    /\ \E b \in booked : asked' = {CanCancelFreeOfCharge(b, now)}
    /\ UNCHANGED <<now, offered, quote, booked>>

Tick ==
    /\ now + 1 \in Instants
    /\ now' = now + 1
    /\ UNCHANGED <<offered, quote, booked, asked>>

Next == Retrieve \/ Ask \/ Tick

Spec == Init /\ [][Next]_vars

-----------------------------------------------------------------------------
(* Properties. *)

\* What was shown beside "free cancellation until" in the search is kept after
\* the booking: until that instant the booking answers that cancelling is
\* free.  An offer that states NON_REFUNDABLE is the exception: it shows the
\* deadline of a free term all the same (a finding in the README).
FreePromiseKept ==
    \A b \in booked : \A d \in FreeCancellationUntil(quote) :
        now < d /\ quote.refundable # {"NON_REFUNDABLE"}
            => CanCancelFreeOfCharge(b, now) = Answer(TRUE, TRUE)

\* Once a guest has been told that cancelling costs something, or that nobody
\* can say, no later answer about the same booking tells him it is free,
\* whatever the order in which a retrieval lists the terms.
NeverFreeAgain ==
    [][\A before \in asked, after \in asked' : after.yes => before.yes]_vars

\* Merging "cancellation" and "cancellations" makes no term up, and drops none
\* but those that charge what the first of the list charges, under the same
\* conditions: no charge and no deadline of the offer is missing from what the
\* guest is shown.  Prose is: a term that differs from the first in its
\* description alone is dropped with it (a finding in the README).
NoTermIsLost ==
    /\ ToSet(quote.cancellation) \subseteq {mapCancellation(c) : c \in Stated(offered)}
    /\ \A c \in Stated(offered) :
          \/ mapCancellation(c) \in ToSet(quote.cancellation)
          \/ Rules(mapCancellation(c)) = Rules(quote.cancellation[1])

\* A booking is more generous than its offer for one reason only.  What it calls
\* free with certainty, the offer called refundable with certainty - unless the
\* list has an empty entry: offers leaves it out, and booking keeps it and reads
\* it as a term that charges nothing (a finding in the README).
NeverMoreGenerousThanOffered ==
    \A b \in booked :
        CanCancelFreeOfCharge(b, now) = Answer(TRUE, TRUE) =>
            \/ IsRefundable(quote) = Answer(TRUE, TRUE)
            \/ \E c \in ToSet(offered.cancellations) : isEmptyCancellation(c)

\* The two contexts reconcile the structured length-of-stay block with the
\* deprecated fields separately and still permit the same stays.
StayLimitsAgree ==
    \A b \in booked : \A nights \in 1..MaxNights :
        Permits(b.lengthOfStay, nights) = Permits(quote.lengthOfStay, nights)

=============================================================================
