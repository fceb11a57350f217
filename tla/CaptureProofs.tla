---------------------------- MODULE CaptureProofs ----------------------------
(* Theorems about the capture tool, for any hotels and any bounds: it makes   *)
(* no more requests than its loops allow, it does not overlook a hotel that   *)
(* had rooms all along, and the fixtures it leaves belong together.           *)
EXTENDS Capture, FiniteSetTheorems, TLAPS

N == Cardinality(Hotels)

Steps == {"city", "keyword", "content", "bookable", "searchAll", "searchOne",
          "converted", "offer"} \cup Ended

LEMMA NumberOfHotels == N \in Nat
  BY HotelsAreFinite, FS_CardinalityType DEF N

(* The hotels of the chain, in some order, are a sequence as long as they are *)
(* many, and none is missing.                                                 *)
LEMMA ChainIsEveryHotel ==
    \A ids \in SetToSeqs(Hotels) : ids \in Seq(Hotels) /\ Len(ids) = N /\ Range(ids) = Hotels
  <1> TAKE ids \in SetToSeqs(Hotels)
  <1>1. ids \in [1..N -> Hotels] /\ \A i, j \in 1..N : i # j => ids[i] # ids[j]
    BY DEF SetToSeqs, N
  <1>2. ids \in Seq(Hotels) /\ Len(ids) = N
    BY <1>1, NumberOfHotels
  <1>3. Range(ids) = Hotels
    <2>1. ids \in Injection(1..N, Hotels)
      BY <1>1 DEF Injection, IsInjective
    <2>2. IsFiniteSet(1..N) /\ Cardinality(1..N) = N
      BY NumberOfHotels, FS_Interval
    <2>3. ids \in Surjection(1..N, Hotels)
      BY <2>1, <2>2, HotelsAreFinite, FS_Injection DEF N
    <2> QED
      BY <2>3, <1>1 DEF Surjection, Range
  <1> QED
    BY <1>2, <1>3

-----------------------------------------------------------------------------
(* Where the tool is and what it has: the invariant the others rest on.       *)
LoopInv ==
    /\ pc \in Steps
    /\ attempt \in 0..MaxAttempts
    /\ requests \in Nat /\ faults \in Nat
    /\ pc \in {"searchAll", "searchOne", "converted"} => bookable \in SetToSeqs(Hotels)
    /\ pc \in {"searchOne", "converted"} => remaining \in Seq(Hotels) /\ Len(remaining) <= N

(* What each loop has spent by the time it is where it is.                    *)
SpentInv ==
    /\ pc = "city" => requests = 0
    /\ pc = "keyword" => requests <= 1
    /\ pc = "content" => requests <= 2
    /\ pc = "bookable" => requests <= 3
    /\ pc = "searchAll" => requests <= 4 + attempt
    /\ pc = "searchOne" => requests + Len(remaining) <= 5 + MaxAttempts + N - 1
    /\ pc = "converted" => requests + Len(remaining) <= 4 + MaxAttempts + 2 * N
    /\ pc = "offer" => requests <= 4 + MaxAttempts + 2 * N
    /\ pc \in Ended => requests <= 5 + MaxAttempts + 2 * N

LEMMA CountInit == Init => LoopInv /\ SpentInv
  BY BoundsAreNatural DEF Init, LoopInv, SpentInv, Steps, Ended

LEMMA CountStep == LoopInv /\ SpentInv /\ [Next]_vars => LoopInv' /\ SpentInv'
  <1> SUFFICES ASSUME LoopInv, SpentInv, [Next]_vars
               PROVE  LoopInv' /\ SpentInv'
    OBVIOUS
  <1> USE BoundsAreNatural, NumberOfHotels
      DEF LoopInv, SpentInv, Steps, Ended, Fault, Fails, Reply, Asked, NoRequest, capture
  <1>1. ASSUME ListCity PROVE LoopInv' /\ SpentInv'
    BY <1>1 DEF ListCity
  <1>2. ASSUME ListKeyword PROVE LoopInv' /\ SpentInv'
    BY <1>2 DEF ListKeyword
  <1>3. ASSUME GetContent PROVE LoopInv' /\ SpentInv'
    BY <1>3 DEF GetContent
  <1>4. ASSUME bookableHotels PROVE LoopInv' /\ SpentInv'
    BY <1>4 DEF bookableHotels
  <1>5. ASSUME searchRemaining PROVE LoopInv' /\ SpentInv'
    <2>1. bookable \in Seq(Hotels) /\ Len(bookable) = N
      BY <1>5, ChainIsEveryHotel DEF searchRemaining
    <2>2. CASE NoRequest /\ FallBack /\ UNCHANGED attempt
      BY <1>5, <2>1, <2>2 DEF searchRemaining, FallBack
    <2>3. CASE MoreAttempts /\ (Fault \/ Reply) /\ FallBack /\ UNCHANGED attempt
      BY <1>5, <2>1, <2>3 DEF searchRemaining, MoreAttempts, FallBack
    <2>4. ASSUME NEW body, MoreAttempts, Reply, Found(body), UNCHANGED attempt
          PROVE  LoopInv' /\ SpentInv'
      BY <1>5, <2>1, <2>4 DEF searchRemaining, MoreAttempts, Found
    <2>5. ASSUME NEW named, MoreAttempts, Reply, Drop(named), UNCHANGED pc
          PROVE  LoopInv' /\ SpentInv'
      BY <1>5, <2>5 DEF searchRemaining, MoreAttempts, Drop
    <2> QED
      BY <1>5, <2>2, <2>3, <2>4, <2>5, Zenon DEF searchRemaining
  <1>6. ASSUME searchOne PROVE LoopInv' /\ SpentInv'
    <2>1. bookable \in Seq(Hotels) /\ Len(bookable) = N
      BY <1>6, ChainIsEveryHotel DEF searchOne
    <2>2. CASE remaining = <<>>
      BY <1>6, <2>2 DEF searchOne
    <2>3. CASE remaining # <<>>
      <3>1. Tail(remaining) \in Seq(Hotels) /\ Len(Tail(remaining)) = Len(remaining) - 1
            /\ Len(remaining) \in Nat \ {0}
        BY <1>6, <2>3 DEF searchOne
      <3>2. CASE (Fault \/ Reply) /\ NextHotel
        <4>1. /\ pc = "searchOne" /\ pc' = pc /\ remaining' = Tail(remaining)
              /\ requests' = requests + 1 /\ faults' \in Nat /\ UNCHANGED <<bookable, attempt>>
          BY <1>6, <3>2, SMTT(30) DEF searchOne, NextHotel
        <4> QED
          BY <3>1, <4>1
      <3>3. ASSUME NEW body, Reply, Found(body)
            PROVE  LoopInv' /\ SpentInv'
        BY <1>6, <2>1, <2>3, <3>1, <3>3, SMTT(30) DEF searchOne, Found
      <3> QED
        BY <1>6, <2>3, <3>2, <3>3, Zenon DEF searchOne
    <2> QED
      BY <2>2, <2>3
  <1>7. ASSUME captureConverted PROVE LoopInv' /\ SpentInv'
    <2>1. CASE remaining = <<>>
      BY <1>7, <2>1 DEF captureConverted
    <2>2. CASE remaining # <<>>
      <3>1. Tail(remaining) \in Seq(Hotels) /\ Len(Tail(remaining)) = Len(remaining) - 1
            /\ Len(remaining) \in Nat \ {0}
        BY <1>7, <2>2 DEF captureConverted
      <3>2. /\ pc = "converted" /\ pc' \in {"converted", "offer"}
            /\ remaining' = Tail(remaining) /\ requests' = requests + 1 /\ faults' \in Nat
            /\ UNCHANGED <<bookable, attempt>>
        BY <1>7, <2>2, SMTT(30) DEF captureConverted
      <3> QED
        BY <3>1, <3>2, SMTT(30)
    <2> QED
      BY <2>1, <2>2
  <1>8. ASSUME GetOffer PROVE LoopInv' /\ SpentInv'
    <2>1. /\ pc = "offer" /\ pc' \in {"done", "failed"} /\ UNCHANGED attempt
          /\ NoRequest \/ Fault \/ Reply
      BY <1>8, Zenon DEF GetOffer
    <2> QED
      BY <2>1, SMTT(30)
  <1>9. ASSUME SellOutOrReopen PROVE LoopInv' /\ SpentInv'
    BY <1>9 DEF SellOutOrReopen, tool
  <1>10. ASSUME UNCHANGED vars PROVE LoopInv' /\ SpentInv'
    BY <1>10 DEF vars
  <1> QED
    BY <1>1, <1>2, <1>3, <1>4, <1>5, <1>6, <1>7, <1>8, <1>9, <1>10 DEF Next, ToolStep, Terminated

(* Whatever a refusal names, the tool never makes more requests than its      *)
(* loops allow: four before the search, one for each search over a set, one   *)
(* for each hotel in each of the two loops over hotels, and the offer.        *)
THEOREM BoundedRequests == Spec => []RequestsAreBounded
  <1>1. LoopInv /\ SpentInv => RequestsAreBounded
    BY BoundsAreNatural, NumberOfHotels, SMTT(30) DEF LoopInv, SpentInv, RequestsAreBounded, Steps, Ended, N
  <1> QED
    BY <1>1, CountInit, CountStep, PTL DEF Spec

-----------------------------------------------------------------------------
(* A hotel that was ever without rooms is on record, and of the hotels asked  *)
(* one by one those behind the tool are, unless a request failed.             *)
SoldOutInv ==
    /\ Hotels \ rooms \subseteq soldOut
    /\ pc = "searchOne" /\ faults = 0 => Hotels \subseteq soldOut \cup Range(remaining)
    /\ AvailabilityIsFound

LEMMA RangeOfTail ==
    ASSUME NEW s \in Seq(Hotels), s # <<>>
    PROVE  Range(s) = {Head(s)} \cup Range(Tail(s)) /\ Head(s) \in Hotels
  <1>1. Len(s) \in Nat \ {0} /\ Head(s) = s[1] /\ s[1] \in Hotels
    OBVIOUS
  <1>2. DOMAIN s = 1..Len(s) /\ DOMAIN Tail(s) = 1..(Len(s) - 1)
    OBVIOUS
  <1>3. \A i \in 1..(Len(s) - 1) : Tail(s)[i] = s[i + 1]
    OBVIOUS
  <1>4. ASSUME NEW i \in 1..Len(s) PROVE s[i] = s[1] \/ s[i] \in Range(Tail(s))
    <2>1. CASE i = 1
      BY <2>1
    <2>2. CASE i # 1
      <3>1. i - 1 \in 1..(Len(s) - 1) /\ Tail(s)[i - 1] = s[i]
        BY <1>1, <1>3, <2>2
      <3> QED
        BY <1>2, <3>1 DEF Range
    <2> QED
      BY <2>1, <2>2
  <1>5. ASSUME NEW i \in 1..(Len(s) - 1) PROVE Tail(s)[i] \in Range(s)
    <2>1. i + 1 \in 1..Len(s)
      BY <1>1
    <2> QED
      BY <1>2, <1>3, <2>1 DEF Range
  <1>6. s[1] \in Range(s)
    BY <1>1, <1>2 DEF Range
  <1> QED
    BY <1>1, <1>2, <1>4, <1>5, <1>6 DEF Range

LEMMA SoldOutStep == LoopInv /\ SoldOutInv /\ [Next]_vars => SoldOutInv'
  <1> SUFFICES ASSUME LoopInv, SoldOutInv, [Next]_vars
               PROVE  SoldOutInv'
    OBVIOUS
  <1> USE DEF SoldOutInv, AvailabilityIsFound
  <1>1. CASE ToolStep
    <2>1. UNCHANGED <<rooms, soldOut>>
      BY <1>1 DEF ToolStep
    <2>2. CASE ListCity \/ ListKeyword \/ GetContent \/ bookableHotels \/ captureConverted \/ GetOffer
      <3>1. pc' \notin {"searchOne", "noAvailability"}
        BY <2>2 DEF ListCity, ListKeyword, GetContent, bookableHotels, captureConverted, GetOffer,
                    Fails
      <3> QED
        BY <2>1, <3>1
    <2>3. CASE searchRemaining
      <3>1. Range(bookable) = Hotels /\ pc' # "noAvailability"
        BY <2>3, ChainIsEveryHotel DEF searchRemaining, LoopInv, FallBack, Found
      <3>2. pc' = "searchOne" => remaining' = bookable
        BY <2>3 DEF searchRemaining, FallBack, Found
      <3> QED
        BY <2>1, <3>1, <3>2
    <2>4. CASE searchOne
      <3>1. CASE remaining = <<>>
        <4>1. Range(remaining) = {}
          BY <3>1 DEF Range
        <4> QED
          BY <2>1, <2>4, <3>1, <4>1 DEF searchOne, NoRequest
      <3>2. CASE Fault /\ NextHotel
        BY <2>1, <2>4, <3>2 DEF searchOne, Fault, NextHotel, LoopInv
      <3>3. CASE remaining # <<>> /\ Reply /\ Named(<<Head(remaining)>>) # {} /\ NextHotel
        <4>1. Range(remaining) = {Head(remaining)} \cup Range(Tail(remaining))
              /\ Head(remaining) \in Hotels
          BY <2>4, <3>3, RangeOfTail DEF searchOne, LoopInv
        <4>2. Head(remaining) \notin rooms
          BY <3>3 DEF Named, Range
        <4> QED
          BY <2>1, <2>4, <3>3, <4>1, <4>2 DEF searchOne, NextHotel, Reply
      <3>4. ASSUME NEW body, Found(body) PROVE SoldOutInv'
        BY <2>1, <3>4 DEF Found
      <3> QED
        BY <2>4, <3>1, <3>2, <3>3, <3>4, Zenon DEF searchOne
    <2> QED
      BY <1>1, <2>2, <2>3, <2>4 DEF ToolStep
  <1>2. CASE SellOutOrReopen
    BY <1>2 DEF SellOutOrReopen, tool, Ended
  <1>3. CASE UNCHANGED vars
    BY <1>3 DEF vars
  <1> QED
    BY <1>1, <1>2, <1>3 DEF Next, Terminated

(* The tool says that no hotel has rooms only if none had rooms throughout,   *)
(* or a request failed for another reason.                                    *)
THEOREM NoHotelOverlooked == Spec => []AvailabilityIsFound
  <1>1. Init => SoldOutInv
    BY DEF Init, SoldOutInv, AvailabilityIsFound
  <1>2. SoldOutInv => AvailabilityIsFound
    BY DEF SoldOutInv
  <1> QED
    BY <1>1, <1>2, CountInit, CountStep, SoldOutStep, PTL DEF Spec

-----------------------------------------------------------------------------
(* The search the tool goes on with is the one in its fixture, and an offer   *)
(* fixture is written last, from that search.                                 *)
FixtureInv ==
    /\ DOMAIN files = Fixtures
    /\ pc \in {"converted", "offer", "done"} =>
          \E body : search = {body} /\ files["search"] = {body}
    /\ pc # "done" => files["offer-by-id"] = {}
    /\ FixturesBelongTogether

(* The offer by ID is of the hotel it was asked for.                          *)
LEMMA OfferIsOfItsHotel ==
    ASSUME NEW h
    PROVE  firstOfferID(Body(SetToSeq({h}), {h}, FALSE)) = {h}
  <1>1. IsFiniteSet({h}) /\ Cardinality({h}) = 1
    BY FS_Singleton
  <1>2. [i \in 1..1 |-> h] \in [1..Cardinality({h}) -> {h}] /\ IsInjective([i \in 1..1 |-> h])
    BY <1>1 DEF IsInjective
  <1>3. SetToSeq({h}) \in [1..1 -> {h}]
    BY <1>1, <1>2 DEF SetToSeq
  <1>4. {i \in DOMAIN SetToSeq({h}) : SetToSeq({h})[i] \in {h}} = {1} /\ SetToSeq({h})[1] = h
    BY <1>3
  <1>5. Min({1}) = 1
    BY DEF Min
  <1> QED
    BY <1>4, <1>5 DEF firstOfferID, Body

LEMMA FirstOfferIsOne == \A body : firstOfferID(body) = {} \/ \E h : firstOfferID(body) = {h}
  BY DEF firstOfferID

LEMMA FixtureStep == FixtureInv /\ [Next]_vars => FixtureInv'
  <1> SUFFICES ASSUME FixtureInv, [Next]_vars
               PROVE  FixtureInv'
    OBVIOUS
  <1> USE DEF FixtureInv, FixturesBelongTogether, capture, Fixtures
  <1>1. CASE ListCity
    BY <1>1 DEF ListCity, Fails
  <1>2. CASE ListKeyword
    BY <1>2 DEF ListKeyword
  <1>3. CASE GetContent
    BY <1>3 DEF GetContent, Fails
  <1>4. CASE bookableHotels
    BY <1>4 DEF bookableHotels, Fails
  <1>5. CASE searchRemaining
    <2>1. ASSUME NEW body, Found(body) PROVE FixtureInv'
      BY <1>5, <2>1 DEF searchRemaining, Found
    <2>2. CASE pc' \in {"searchAll", "searchOne"} /\ UNCHANGED files
      BY <1>5, <2>2 DEF searchRemaining
    <2> QED
      BY <1>5, <2>1, <2>2 DEF searchRemaining, FallBack
  <1>6. CASE searchOne
    <2>1. ASSUME NEW body, Found(body) PROVE FixtureInv'
      BY <1>6, <2>1 DEF searchOne, Found
    <2>2. CASE pc' \in {"searchOne", "noAvailability"} /\ UNCHANGED files
      BY <1>6, <2>2 DEF searchOne
    <2> QED
      BY <1>6, <2>1, <2>2 DEF searchOne, NextHotel
  <1>7. CASE captureConverted
    <2>1. pc = "converted" /\ pc' \in {"converted", "offer"} /\ UNCHANGED search
      BY <1>7 DEF captureConverted
    <2>2. \/ UNCHANGED files
          \/ \E body : files' = [files EXCEPT !["search-converted"] = {body}]
      BY <1>7, Zenon DEF captureConverted
    <2> QED
      BY <2>1, <2>2
  <1>8. CASE GetOffer
    <2> DEFINE id == firstOfferID(CHOOSE body \in search : TRUE)
    <2>1. PICK body : search = {body} /\ files["search"] = {body}
      BY <1>8 DEF GetOffer
    <2>2. id = firstOfferID(body)
      BY <2>1
    <2>3. pc = "offer" /\ UNCHANGED search /\ pc' \in {"done", "failed"}
      BY <1>8, Zenon DEF GetOffer
    <2>4. CASE UNCHANGED files
      BY <2>1, <2>3, <2>4
    <2>5. CASE id # {} /\ pc' = "done"
               /\ files' = [files EXCEPT !["offer-by-id"] = {Body(SetToSeq(id), id, FALSE)}]
      <3>1. firstOfferID(Body(SetToSeq(id), id, FALSE)) = id
        BY <2>5, FirstOfferIsOne, OfferIsOfItsHotel
      <3>2. files'["offer-by-id"] = {Body(SetToSeq(id), id, FALSE)} /\ files'["search"] = {body}
        BY <2>1, <2>5
      <3>3. DOMAIN files' = Fixtures
        BY <2>5
      <3> QED
        BY <2>1, <2>2, <2>3, <2>5, <3>1, <3>2, <3>3
    <2> QED
      BY <1>8, <2>4, <2>5, Zenon DEF GetOffer
  <1>9. CASE SellOutOrReopen
    BY <1>9 DEF SellOutOrReopen, tool
  <1>10. CASE UNCHANGED vars
    BY <1>10 DEF vars
  <1> QED
    BY <1>1, <1>2, <1>3, <1>4, <1>5, <1>6, <1>7, <1>8, <1>9, <1>10 DEF Next, ToolStep, Terminated

(* The offer-by-id fixture is of the first offer of the search fixture beside *)
(* it, however the search went and whatever failed.                           *)
THEOREM FixturesAreOfOneRun == Spec => []FixturesBelongTogether
  <1>1. Init => FixtureInv
    BY DEF Init, FixtureInv, FixturesBelongTogether, Fixtures
  <1>2. FixtureInv => FixturesBelongTogether
    BY DEF FixtureInv
  <1> QED
    BY <1>1, <1>2, FixtureStep, PTL DEF Spec
=============================================================================
