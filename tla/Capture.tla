------------------------------ MODULE Capture ------------------------------
(* The capture tool, internal/capture/main.go: the one program of the         *)
(* repository that talks to Amadeus in a sequence of requests of its own,     *)
(* retries a search that Amadeus fails as a whole, and leaves files behind.   *)
(* One action is one request together with what the tool does with its        *)
(* answer. Hotels sell out and reopen, and requests fail, between any two of  *)
(* them.                                                                      *)
EXTENDS Integers, SequencesExt, FiniteSetsExt

CONSTANTS
    Hotels,         \* property codes
    MaxAttempts,    \* searches over a whole set before the fallback; 4 in the code
    MaxChanges,     \* bound: how often availability changes during a run
    MaxFaults       \* bound: requests that fail for a reason of their own

ASSUME BoundsAreNatural == {MaxAttempts, MaxChanges, MaxFaults} \subseteq Nat
ASSUME HotelsAreFinite == IsFiniteSet(Hotels)

Fixtures == {"hotels-by-city", "hotels-by-keyword", "hotel", "search",
             "search-converted", "offer-by-id"}

VARIABLES
    pc,             \* the request the tool makes next, or how it ended
    bookable,       \* the properties of the bookable chain, in order
    remaining,      \* those the current loop has still to ask for
    attempt,        \* captureOffers: searches over a set made so far
    search,         \* the body captureOffers returned: at most one
    warnings,       \* fixtures the tool said it could not capture
    files,          \* testdata: the answer each fixture holds, if this run wrote it
    rooms,          \* Amadeus: the hotels that have rooms
    priced,         \* Amadeus: the hotels whose own currency is the one asked for
    soldOut,        \* history: the hotels that had no rooms at some moment of the run
    requests,       \* history: the requests made so far
    faults,         \* requests that failed for a reason of their own
    changes         \* changes of availability so far

vars == <<pc, bookable, remaining, attempt, search, warnings, files, rooms,
          priced, soldOut, requests, faults, changes>>
tool == <<pc, bookable, remaining, attempt, search, warnings, files>>

Ended == {"done", "noAvailability", "failed"}

---------------------------------------------------------------------------
(* Answers *)

(* A search or offer body: the hotels it prices, in order, each with or       *)
(* without offers, and whether it carries conversion rates.                   *)
Body(hotels, withOffers, rates) ==
    [hotels |-> hotels, offers |-> withOffers, rates |-> rates]

(* What Amadeus answers a search over a set with: every hotel priced, or a    *)
(* refusal of the whole search that may name hotels without rooms, not        *)
(* necessarily all of them and not necessarily hotels of this search.         *)
Answers(hotels) ==
    IF Range(hotels) \subseteq rooms
    THEN { Body(hotels, withOffers, FALSE) : withOffers \in {{}, Range(hotels)} }
    ELSE {}
Named(hotels) == IF Range(hotels) \subseteq rooms THEN {} ELSE SUBSET (Hotels \ rooms)

firstOfferID(body) ==
    LET offering == { i \in DOMAIN body.hotels : body.hotels[i] \in body.offers }
    IN IF offering = {} THEN {} ELSE {body.hotels[Min(offering)]}

(* capture writes what it keeps of an answer; trimOffers keeps the first      *)
(* hotel.                                                                     *)
capture(fixture, answer) == files' = [files EXCEPT ![fixture] = {answer}]
trimOffers(body) == [body EXCEPT !.hotels = SubSeq(@, 1, 1), !.offers = @ \cap {body.hotels[1]}]

---------------------------------------------------------------------------
Init ==
    /\ pc = "city" /\ attempt = 0 /\ search = {} /\ warnings = {}
    /\ bookable = <<>> /\ remaining = <<>>
    /\ files = [f \in Fixtures |-> {}]
    /\ rooms \in SUBSET Hotels /\ priced \in SUBSET Hotels
    /\ soldOut = Hotels \ rooms
    /\ requests = 0 /\ faults = 0 /\ changes = 0

(* A request that gets no usable answer: the network, a timeout, the token, a *)
(* body that is not JSON, or the five minutes the run is given.               *)
Asked == requests' = requests + 1
Fault == faults < MaxFaults /\ faults' = faults + 1 /\ Asked
Fails == pc' = "failed" /\ UNCHANGED <<bookable, remaining, attempt, search, warnings, files>>
Reply == Asked /\ UNCHANGED faults
NoRequest == UNCHANGED <<requests, faults>>

(* run, up to the search: the hotel list, the autocomplete list, the content  *)
(* of the first hotel and the list of the bookable chain. Only the second     *)
(* may fail. A city without hotels ends the run, its empty list written.      *)
ListCity ==
    /\ pc = "city"
    /\ \/ Fault /\ Fails
       \/ /\ Reply /\ pc' = "failed" /\ capture("hotels-by-city", {})
          /\ UNCHANGED <<bookable, remaining, attempt, search, warnings>>
       \/ /\ Reply /\ pc' = "keyword" /\ capture("hotels-by-city", Hotels)
          /\ UNCHANGED <<bookable, remaining, attempt, search, warnings>>
ListKeyword ==
    /\ pc = "keyword" /\ pc' = "content"
    /\ \/ Fault /\ warnings' = warnings \cup {"hotels-by-keyword"} /\ UNCHANGED files
       \/ Reply /\ capture("hotels-by-keyword", Hotels) /\ UNCHANGED warnings
    /\ UNCHANGED <<bookable, remaining, attempt, search>>
GetContent ==
    /\ pc = "content"
    /\ \/ Fault /\ Fails
       \/ /\ Reply /\ pc' = "bookable" /\ capture("hotel", Hotels)
          /\ UNCHANGED <<bookable, remaining, attempt, search, warnings>>
bookableHotels ==
    /\ pc = "bookable"
    /\ \/ Fault /\ Fails
       \/ Reply /\ Fails                        \* no property of the chain in the city
       \/ /\ Reply /\ pc' = "searchAll"
          /\ \E ids \in SetToSeqs(Hotels) : bookable' = ids /\ remaining' = ids
          /\ UNCHANGED <<attempt, search, warnings, files>>

(* As if the tool stopped where it falls back.                                *)
FallBack_GivesUp == pc' = "noAvailability" /\ remaining' = bookable

(* captureOffers. While refusals name hotels, search again without them, at   *)
(* most MaxAttempts times; then ask for the bookable hotels one at a time.    *)
MoreAttempts == attempt < MaxAttempts /\ remaining # <<>>
without(ids, named) == SelectSeq(ids, LAMBDA h : h \notin named)
(* As if the attempts were not counted.                                       *)
Drop_Uncounted(named) == remaining' = without(remaining, named) /\ UNCHANGED attempt
Drop(named) == remaining' = without(remaining, named) /\ attempt' = attempt + 1
Found(body) ==
    /\ capture("search", body) /\ search' = {body}
    /\ pc' = "converted" /\ remaining' = bookable
FallBack == pc' = "searchOne" /\ remaining' = bookable

searchRemaining ==
    /\ pc = "searchAll"
    /\ \/ /\ ~MoreAttempts
          /\ NoRequest /\ FallBack /\ UNCHANGED <<attempt, search, files>>
       \/ /\ MoreAttempts
          /\ Fault /\ FallBack /\ UNCHANGED <<attempt, search, files>>
       \/ /\ MoreAttempts
          /\ \E body \in Answers(remaining) : Reply /\ Found(body) /\ UNCHANGED attempt
       \/ /\ MoreAttempts
          /\ \E named \in Named(remaining) :
                IF named = {}
                THEN Reply /\ FallBack /\ UNCHANGED <<attempt, search, files>>
                ELSE /\ Drop(named)
                     /\ Reply /\ UNCHANGED <<pc, search, files>>
    /\ UNCHANGED <<bookable, warnings>>

NextHotel == remaining' = Tail(remaining) /\ UNCHANGED <<pc, search, files>>

(* As if the loop went on after a hit and kept the first body.                *)
searchOne_KeepsAsking ==
    /\ pc = "searchOne"
    /\ \/ /\ remaining = <<>> /\ NoRequest
          /\ pc' = IF search = {} THEN "noAvailability" ELSE "converted"
          /\ remaining' = bookable /\ UNCHANGED <<search, files>>
       \/ remaining # <<>> /\ Fault /\ NextHotel
       \/ /\ remaining # <<>> /\ Reply
          /\ \/ Named(<<Head(remaining)>>) # {} /\ NextHotel
             \/ \E body \in Answers(<<Head(remaining)>>) :
                   /\ capture("search", body)
                   /\ search' = IF search = {} THEN {body} ELSE search
                   /\ remaining' = Tail(remaining) /\ UNCHANGED pc
    /\ UNCHANGED <<bookable, attempt, warnings>>

searchOne ==
    /\ pc = "searchOne"
    /\ \/ /\ remaining = <<>> /\ NoRequest
          /\ pc' = "noAvailability" /\ UNCHANGED <<remaining, search, files>>
       \/ remaining # <<>> /\ Fault /\ NextHotel
       \/ /\ remaining # <<>> /\ Reply
          /\ \/ Named(<<Head(remaining)>>) # {} /\ NextHotel
             \/ \E body \in Answers(<<Head(remaining)>>) : Found(body)
    /\ UNCHANGED <<bookable, attempt, warnings>>

(* captureConverted: hotel by hotel, until one answers with rates. The file   *)
(* is written before the rates are looked for.                                *)
hasConversionRates(body) == body.rates
captureConverted ==
    /\ pc = "converted"
    /\ \/ /\ remaining = <<>> /\ NoRequest
          /\ pc' = "offer" /\ warnings' = warnings \cup {"search-converted"}
          /\ UNCHANGED <<remaining, files>>
       \/ /\ remaining # <<>> /\ remaining' = Tail(remaining) /\ UNCHANGED <<pc, files, warnings>>
          /\ Fault \/ (Reply /\ Head(remaining) \notin rooms)
       \/ /\ remaining # <<>> /\ Head(remaining) \in rooms /\ Reply
          /\ LET h == Head(remaining)
                 body == Body(<<h>>, {h}, h \notin priced)
             IN /\ capture("search-converted", trimOffers(body))
                /\ remaining' = Tail(remaining)
                /\ pc' = IF hasConversionRates(body) THEN "offer" ELSE pc
          /\ UNCHANGED warnings
    /\ UNCHANGED <<bookable, attempt, search>>

(* The last request: the first offer of the search, by its ID. An offer that  *)
(* is gone by then, or a request that fails, fails the run.                   *)
GetOffer ==
    /\ pc = "offer"
    /\ LET id == firstOfferID(CHOOSE body \in search : TRUE)
       IN \/ /\ id = {} /\ NoRequest
             /\ pc' = "done" /\ warnings' = warnings \cup {"offer-by-id"} /\ UNCHANGED files
          \/ /\ id # {} /\ Fault
             /\ pc' = "failed" /\ UNCHANGED <<warnings, files>>
          \/ /\ id # {} /\ id \subseteq rooms /\ Reply
             /\ pc' = "done" /\ capture("offer-by-id", Body(SetToSeq(id), id, FALSE))
             /\ UNCHANGED warnings
          \/ /\ id # {} /\ ~(id \subseteq rooms) /\ Reply
             /\ pc' = "failed" /\ UNCHANGED <<warnings, files>>
    /\ UNCHANGED <<bookable, remaining, attempt, search>>

ToolStep ==
    /\ \/ ListCity \/ ListKeyword \/ GetContent \/ bookableHotels
       \/ searchRemaining \/ searchOne \/ captureConverted \/ GetOffer
    /\ UNCHANGED <<rooms, priced, soldOut, changes>>

(* Amadeus: a hotel sells its last room, or has rooms again.                  *)
SellOutOrReopen ==
    /\ pc \notin Ended /\ changes < MaxChanges
    /\ \E h \in Hotels :
          /\ rooms' = IF h \in rooms THEN rooms \ {h} ELSE rooms \cup {h}
          /\ soldOut' = IF h \in rooms THEN soldOut \cup {h} ELSE soldOut
    /\ changes' = changes + 1
    /\ UNCHANGED <<tool, priced, requests, faults>>

Terminated == pc \in Ended /\ UNCHANGED vars

Next == ToolStep \/ SellOutOrReopen \/ Terminated

Spec == Init /\ [][Next]_vars

---------------------------------------------------------------------------
(* Properties *)

(* "No property in the captured set has availability" is only said when every *)
(* bookable hotel was without rooms at some moment of the run, or a request   *)
(* failed for another reason: refusals that name nobody, name strangers, or   *)
(* name one hotel at a time never hide a hotel that had rooms all along.      *)
AvailabilityIsFound ==
    pc = "noAvailability" /\ faults = 0 => Hotels \subseteq soldOut

(* The fixtures of a run belong together: the offer-by-id fixture it wrote is *)
(* of an offer of the search fixture it wrote, however often captureOffers    *)
(* had to search, and the mapper tests read the two side by side.             *)
FixturesBelongTogether ==
    \A offer \in files["offer-by-id"] : \E body \in files["search"] :
        firstOfferID(offer) = firstOfferID(body)

(* The tool ends whatever the refusals name, hotels of another search or the  *)
(* same hotel again included: it never makes more requests than its loops     *)
(* allow, and deadlock is checked, so that it stops only where it says so.    *)
RequestsAreBounded == requests <= 5 + MaxAttempts + 2 * Cardinality(Hotels)
=============================================================================
