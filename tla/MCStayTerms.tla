----------------------------- MODULE MCStayTerms ----------------------------
(* Offers with up to three cancellation statements, and stays with limits.  *)
EXTENDS StayTerms

absent == [form |-> "absent", value |-> 0]
says(v) == [form |-> "readable", value |-> v]

empty ==
    [amount |-> absent, deadline |-> absent, percentage |-> "", numberOfNights |-> 0,
     type |-> "", policyType |-> "", description |-> 0]

free(d)   == [empty EXCEPT !.deadline = says(d), !.policyType = "NO_SHOW"]
charge    == [empty EXCEPT !.amount = says(50), !.deadline = says(1)]
noShow    == [empty EXCEPT !.amount = says(50), !.policyType = "NO_SHOW"]
oneNight  == [empty EXCEPT !.numberOfNights = 1, !.deadline = says(2)]
allOfIt   == [empty EXCEPT !.percentage = "100", !.deadline = [absent EXCEPT !.form = "unreadable"]]
nothing   == [empty EXCEPT !.amount = says(0), !.percentage = "0"]
misread   == [empty EXCEPT !.amount = [absent EXCEPT !.form = "unreadable"]]
prose(t)  == [empty EXCEPT !.description = t]
worded    == [charge EXCEPT !.description = 1]
fullStay  == [empty EXCEPT !.type = "FULL_STAY"]

Terms == {free(1), free(2), charge, noShow, oneNight, allOfIt, nothing, misread, fullStay,
          prose(1), worded}

policies(c, cs, refundable, minimum, stay) ==
    [cancellation |-> c, cancellations |-> cs, refundable |-> refundable,
     minimum |-> minimum, maximum |-> 0, lengthOfStay |-> stay]

CancellationTerms ==
    {policies(c, cs, r, 0, {}) :
        c \in {empty} \union Terms,
        cs \in BoundedSeq({empty, noShow, prose(2)}, 1)
               \union {<<t, u>> : t \in {free(1), charge, allOfIt},
                                  u \in {free(1), oneNight, empty, worded}},
        r \in AtMostOne({"NON_REFUNDABLE", "REFUNDABLE", "UNKNOWN"})}

StayTermsOffered ==
    {policies(free(1), <<>>, {}, m, AtMostOneStay) :
        m \in 0..2, AtMostOneStay \in AtMostOne([minimum : 0..3, maximum : 0..3, described : BOOLEAN])}

AllOffered == CancellationTerms \union StayTermsOffered
=============================================================================
