# A verification project for the Amadeus hotel SDK

TLA+ models of the Go SDK in `src/` (`amadeus-hotel-integration/v2`), TLC
configurations that check them on small instances, and theorems checked by
TLAPS. The SDK searches Amadeus for hotels and rates and books them. It is a
library: the concurrency is the application's (any number of goroutines share
one client), the failures are the network's and the server's, and the state
that matters is the token cache in the client and the orders on the server.

Contents: [the system](#the-system), [the plan](#the-plan),
[the modules](#the-modules), [the runs](#the-runs), [fairness](#fairness),
[the proofs](#the-proofs), [where code and comments disagree](#where-code-and-comments-disagree),
[what is not modelled](#what-is-not-modelled).

## The system

| Component | State it keeps | Operations | Talks to |
|---|---|---|---|
| token manager (`internal/amadeus/auth.go`) | `mu`, `cached`, `expiresAt` | `token`, `invalidate`, `authenticate` | the authorization server, over HTTP, with `mu` held |
| HTTP client (`internal/amadeus/client.go`) | none of its own; one frame per call | `Do`, `DoRaw`, `Ping`, `send`, `attempt` | the token manager; the API server |
| logging (`internal/amadeus/logging.go`) | none | `logRequest`, `logResponse`, `logFailure`, `logAuthFailure`, `redactBody` | the application's `slog.Logger` |
| facade (`sdk.go`, `config.go`) | the wired client | `New`, `Ping`, `Config.validate` | everything below it |
| booking (`booking/`) | none; the orders live at Amadeus and the application keeps their IDs | `Create`, `Get`, `GetByReference`, `Cancel`, `Modify`, `Delete` | `Do` |
| offers (`offers/`) | none | `Search`, `Get`; grouping, conversion, policies, capacity on the result | `Do`, `money` |
| inventory (`inventory/`) | none | search by city, position, hotel, keyword | `Do` |
| content (`content/`) | none | hotel descriptions | `Do` |
| money (`money/`) | none: value types | parse, add, round, convert, split | - |
| codes, datetime, geo, media, apierr, `internal/mapping` | none | tables, value types, conversions | - |
| capture tool (`internal/capture`) | the fixture files; the hotels still to ask for | `run`, `captureOffers`, `captureConverted` | `DoRaw`, the API server |
| `internal/amadeustest`, `livetest` | - | test servers and tests | - |

How they interact: a service method validates its input, translates it to a
wire type, and calls `amadeus.Do`. `Do` calls `send`, which makes an `attempt`:
obtain a token (possibly exchanging credentials for one, with the mutex held),
put the request on the wire, read the answer. A first 401 calls `invalidate` and
makes one more attempt. A status outside 2xx or an `errors` array is an error;
otherwise the body is decoded and mapped to the domain. `New` does the same with
a ping unless told to skip it.

What is hard, and what makes each component correct:

* **Token manager and HTTP client.** Goroutines expire, reject and renew one
  cached token at once; the mutex is held across a network exchange; requests,
  answers and contexts fail at any point. Correct means: exchanges never
  overlap; no path leaks the mutex; a retry carries a newer token than the one
  rejected; a request outlives its token by no more than the refresh window leaves; a
  request is executed at most once; success is reported only for an
  executed request with a usable answer; every call returns.
* **Booking, going out.** Guests, rooms, memberships and payment refer to one
  another, validation is spread over loops with early returns, and Go's
  `omitempty` drops what looks empty. Correct means: what is sent can be read in
  one way only, on the terms of the caller, with a checked card; and nothing
  that could be booked is turned away.
* **Booking, coming back.** A lost answer leaves an order nobody has the ID of;
  each endpoint returns its result in another place; absent members decode to
  zero values; placeholders look like references. Correct means: one `Create`
  makes at most one order, no ID that was sent is mislaid, a `PATCH` changes nothing it
  was not told to, and what is reported done was done. A 2xx answer without the order is
  reported as done with an empty `Order`: the properties say what then holds.
* **Offers and money.** Offers of one room arrive scattered, in several
  currencies, with prices missing and rates for only some of them; they are
  regrouped, converted, rounded and ordered by a comparator with three fallbacks.
  Correct means: no offer is lost or shown twice, the "from" price is the lowest,
  the two searches for the lowest agree, and the order of the answer does not show.
* **Amounts and bills.** Decimal texts of any scale become machine integers that
  wrap; sums over many steps are aligned, saturated and rounded; two mappers read
  the same price, for the offer and for the booking. Correct means: exact inside the
  range, shares that add up, and one answer from both. What happens beyond the range is
  not checked.
* **Terms.** The wire states a policy in two members of different age, with
  deadlines that may be unreadable; the offer and the booking answer the same
  question from different code while time passes. Correct means: no charge and no
  deadline is lost, what was promised free is free until then, and no answer becomes
  kinder later.
* **Browsing.** A list feeds a search, a search feeds a re-verification, and rooms
  are sold and repriced, and rates move, in between. Correct means: nothing is sent that
  Amadeus rejects, the price confirmed is the one shown unless price or rate moved, a
  guessed capacity is not certain, and what a hotel publishes can be found.
* **Logging.** A body is logged from three places, at two levels, on every attempt.
  Correct means: no secret in any record.
* **The capture tool.** Amadeus refuses a whole search for one hotel and may or may
  not name it, while hotels sell out and reopen. Correct means: a bookable hotel is
  found, the fixtures belong to one run, and the tool ends.

Every place in the code where one of these can go wrong is listed under
`hazards` in `PROJECT.json`, with the properties that cover it, and a note where they
cover it in part. Six have none. In three the code goes wrong, which a property could only
leave out: the comparator is no order where a currency has no rate (`grouping.go:105`),
sums wrap at the smallest integer (`amount.go:214`), and any deadline makes an offer
refundable (`policy.go:98`). `New` blocks for ever on a silent server if the caller's HTTP
client has no timeout (`sdk.go:120`), which is configuration; a search that Amadeus fails
as a whole is passed on (`offers/service.go:95`), which has no state here and is covered
where the capture tool handles it; and a deadline without a zone is read as UTC
(`mapping.go:53`), where the models have one clock.

## The plan

Most important first: what spends money and what every call depends on.

| # | Modules | State |
|---|---|---|
| 1 | `TokenManager`, `Transport`, `CallContract`: the token cache, the calls on it, the contract they implement | done, proved but for liveness |
| 2 | `ReservationRules`, `Reservation`: what `Create` accepts and sends | done, proved |
| 3 | `ModificationRules`, `Orders`: the six operations against a server, over `CallContract` | done, proved |
| 4 | `Money`, `Conversion`, `Grouping`: offers compared, converted, grouped and ordered by the stable sort with the converting comparator; `Cheapest` | done, proved |
| 5 | `Amounts`, `Prices`, `Bill`: parse, write, add, subtract, multiply, divide, at the width of an integer; the two price mappers | done, proved, the order of tax lines while they are in range |
| 6 | `Policies`, `StayTerms`: the merge of cancellation terms and everything asked of them while time passes | done, proved |
| 7 | `Queries`, `Inventory`, `Offers`, `Rooms`, `Media`, `ContentWire`, `Content`, `Geo`, `Browse`: the read-only contexts, one after the other | done, proved |
| 8 | `Logging`, `OrderAnswers`, `Answers`: what reaches the log, and what an answer becomes | done, proved |
| 9 | `Capture`: the capture tool | done, proved |

Abstract specifications: `CallContract` is what the transport promises to the
services, and `Transport` implements it; `TokenSpec` is what `Transport` refines
in its token part. `Orders` uses `CallContract` and nothing else of the
transport, so the two halves compose.

## The modules

`PROJECT.json` (`map`) gives for each definition the lines it models.

**`TokenManager`** - the mutex `mu`, `cached`, `expiresAt`; for each goroutine its
`stage` in `token`, `authenticate` or `invalidate` and the `bearer` it holds; the
server's tokens (`issued`, `honoured`, `goodUntil`) and a clock. One action per
step between which another goroutine can run: `Ask` (reach `mu.Lock`),
`UseCached`, `BeginExchange` (lock, stale, request out), `Grant` (the server),
`StoreGrant` (answer stored, unlock), `ExchangeFails` (every error return of
`authenticate`, deferred unlock), `Release`, `Reject` (401 seen), `Invalidate`
(which clears the cache whatever it holds). Tokens are numbered in the order of
their grants and 0 is `""`. Every grant has the same `Lifetime`, which stands for
`expires_in`.

**`Transport`** extends it with `New`, `Ping` and `Do`. A call is `authorising`,
`sent`, `answered`, `returned`; `attempt` is 1 or 2. `Answer` is the server: it
executes a request whose token it accepts and answers with a usable body, an
undecodable one, a 2xx with an `errors` array, or a failure status. Two
over-approximations: a call cancelled while it waits for the mutex may still put
its request on the wire, where the code would notice the context at
`http.Client.Do`; and a request may fail at any moment, whether or not it was
executed. An assumption: the HTTP client has a timeout, as the default one does.
`Config.HTTPClient` may bring one that has none.

**`CallContract`** - a call is begun, perhaps executed, finished: at most one
execution, and success only after it. It has no tokens, no attempts, no time.

**`ReservationRules`** - `Reservation.validate`, `Payment.validate` and
`Card.validate` as the set of faults they collect, with their early returns, and
`toRequest`. A text field is `""`, `"ok"` or `"bad"`; a Go pointer is a set of at
most one element; a length is a number; a wire field that `omitempty` drops reads
`""`. **`Reservation`** is `Create` up to the call: one draft, accepted and sent
or rejected.

**`ModificationRules`** - `Modification.validate` and `toUpdateRequest`. The
`PATCH` body has for each changeable field `{v}` or `{}`.

**`Orders`** - goroutines run the six operations. `Begin` validates and starts a
call of `CallContract`; `Execute` is the order server, which is external and
modelled from the requests the service sends and the answers its comments and
tests describe; `Return` is the code after `Do`. The server gives an order one
booking with one provider, on the terms of its first room; any 2xx answer of its may lack
`data` or `included`, or hold an empty object there. The application
remembers the order IDs it was given (`known`); `lost` records the `Create`s
that returned an error, `bare` those that were answered without the order.

**`Money`** - an amount is `units / 10^scale`, its units an integer of a bounded width
(`MaxInt` stands for `math.MaxInt64`, `MaxScale` for `maxScale`). `Compare` with its
saturating `align`, `MulAmount`, `Round` digit by digit, and the currency rule of
`Money`. An operation that can refuse returns a set of at most one result.
Multiplication is unbounded before it is reduced, as `big.Int` is.

**`Conversion`** is `Convert` and `ConvertOrOriginal`, with the rates of one search.

**`Grouping`** extends it: one search result (`hotel`: offers and rates) and what
`GroupByRoom`, `GroupByCategory` and `Cheapest` return for it. Strings that are
only compared (IDs, room types, categories) are numbers in their order, 0 the
empty one. The comparator is the set of pairs it holds of (`Cheaper`).

**`Lists`** is the loop the SDK filters its lists with, a new slice to which each wanted
element is appended (`Kept`), and `sort.SliceStable`, which is external: the Go library
sorts up to twenty elements by stable insertion, which matters because the comparator
need not be an order. Where it is one, a list has only one sorted form, and what the
library does with longer lists comes to the same. The loops are recursive functions,
as is `Money.TenTo`, the powers of ten one multiplication after the other: the provers
know nothing of the library's `SelectSeq` and folds, nor of `^` with a variable exponent.

**`Amounts`** extends `Money` with the rest of an amount: reading and writing decimal
texts, sums, products, division, rates, and what a wrapped integer does to each.
**`Prices`** is the price block of an offer and of a booking on the wire, and the two
mappers that read it. **`Bill`** is a caller who adds, subtracts, multiplies and
divides the price of an offer, books, and compares. `exact` is what the bill
should be; `strained` says that an operand or a result has left the range in which
it can be.

**`Policies`** - the policies on the wire, the offers and the booking mapper of them,
and `IsRefundable`, `FreeCancellationUntil`, `Permits`, `CanCancelFreeOfCharge`. A
text is absent, readable or unreadable; of prose it matters which one it is. `Rules` is what
the merge compares of a term. **`StayTerms`** is time: an offer quoted, its
booking retrieved again and again with its entries, empty ones too, in any order and some
of them repeated, questions asked in between.

**`Geo`**, **`Media`**, **`Rooms`**, **`Inventory`**, **`Offers`**, **`ContentWire`**, **`Content`** -
the wire types of the read-only contexts and their mappers, reduced to what tells
two answers apart; members that are only copied are one member. **`Queries`** is what
each query refuses and the parameters it sends; a list is the text it is joined to.
**`Browse`** composes them: four ways to a list of hotels, a search of some of them, a
re-verification of any offer that a search can have returned (the application may have
kept its ID), a property's page, over a server that sells and reprices between the calls
and answers each search and each re-verification with rates of its own.

**`OrderAnswers`** - the answer of the booking endpoints and `mapOrder`, `Reference`,
`IsConfirmed`. **`Logging`** - a JSON body is a function from the paths of its leaves to
their values; `redactValue` cuts a path at its first sensitive key. **`Answers`** is
one goroutine's calls, from the encoded request to the returned order, with every
record that the client writes on the way.

**`Capture`** - one action per request of the tool together with what it does with the
answer; the order of the hotels, the refusals (which may name no hotel, or a
stranger), sell-outs and faults are the server's and the network's.

**`TransportProofs`** (with the theorems of the token manager), **`BookingProofs`** (of
`Reservation` and `Orders`), **`MoneyProofs`** (of `Grouping` and `Bill`),
**`BrowseProofs`**, **`StayTermsProofs`**, **`AnswersProofs`** and **`CaptureProofs`** hold
the theorems, **`ListLemmas`** what they share about loops, lists and permutations; the
**`MC...`** modules hold only inputs and symmetry for TLC.
A definition whose name ends in an underscore and a phrase, such as
`Invalidate_KeepsToken`, is a plausible bug in the definition after it: it is
never part of a specification, and the check that the properties can fail puts
it in the place of the definition it follows.

## The runs

| Run | Cfg | Instance | Shows |
|---|---|---|---|
| `transport` | `MCTransport` | 2 goroutines, 2 calls, 2 tokens, clock to 6, window 1, timeout 2, lifetime 3 | token and call safety, `ImplementsContract` |
| `transport_live` | `MCTransportLive` | 2 goroutines, 3 calls, 2 tokens, clock to 1 | every call returns |
| `token_burst` | `MCTokenBurst` | 3 goroutines, no clock | violated: `OneTokenPerBurst` |
| `reservation` | `MCReservation` | 7,941 drafts | safety of what is sent, completeness of what is accepted |
| `orders` | `MCOrders` | 2 goroutines, 3 operations, 2 orders | safety of the booking service |
| `cleared` | `MCCleared` | the same | violated: `ClearedMeansCleared` |
| `grouping` | `MCGrouping` | some 20,000 search results | grouping, ordering, the cheapest offer, conversion |
| `bill` | `MCBill` | integers of a byte, 2 fraction digits, 15 prices, 14 rates | arithmetic, texts, tax totals, the two price mappers, rates |
| `stay_terms` | `MCStayTerms` | 866 offers of up to 3 terms, 4 instants, lists of up to 4 | promises kept over time, the two contexts agree |
| `browse` | `MCBrowse` | 2 hotels, 3 offers, 3 currencies, 3 sets of rates, queries on both sides of their limits | requests, re-verification, capacity, content |
| `answers` | `MCAnswers` | 2 calls, 2 cards, 13 orders, 3 levels | no secret in a log, no reservation from an empty answer |
| `capture` | `MCCapture` | 3 hotels, 2 searches over a set, 2 changes, 1 fault | the capture tool finds, matches and ends |

Why the bounds are enough for the interesting cases to happen:

* *Transport.* A stale `invalidate` needs two goroutines that hold one token and a
  second grant; at-most-once needs two attempts. Two goroutines, two calls and
  two tokens have all of these, with revocation, expiry and the constructor's
  ping before them. When the server runs out of tokens to grant, exchanges fail, which it
  may do at any time. `OneTokenPerBurst` gets a third token, the one a burst should not
  need, and three goroutines so that the burst is one; with the clock frozen
  (`MaxTime = 0`) only revocation makes a token bad,
  which is enough for a violation that is not about time.
* *Time* is in units of the refresh window: the timeout is two of them, as 60 s are of
  30 s. With a lifetime of three a token leaves the cache, expires and is overrun before
  the clock reaches six, with time left for the retry. The real lifetime, half an hour,
  is longer still than both, which `LittleOverrun` does not depend on.
* *Reservation.* Up to three guests with equal and different IDs (0 included), up
  to three rooms of two places, a limit of two rooms, every subset of memberships,
  and every validated field at each of its classes and on both sides of each
  limit. Faults in different groups of fields are independent in the code, so each
  group is varied against a correct rest.
* *Orders.* A double booking needs a lost answer and one more operation; an
  undone change needs two modifications after a `Create`. Eight modifications
  cover one field, two fields, the cleared request, the empty change and two
  faulty ones.
* *Grouping.* Three offers are what a comparator that is not transitive needs to
  put a dearer one first, and each listing order of their IDs is a result of its
  own. Prices are missing, equal, equal once rounded, rounded to nothing, in one
  currency and in two; rates cover none, one or both of them, with a target that
  has a minor unit and one that has not. Rooms share a type, a category, or
  neither. `MaxScale` is small enough for a rate times a
  price to shed a digit, and `MaxInt` for one product to be refused.
* *Bill.* `MaxInt = 127` is reached by a few additions of 1.20, and `MaxScale = 2`
  has room for one amount to be coarser than another, so that aligning, saturating and
  shedding digits all happen; the sums go on until every reachable bill is seen. Tax
  lines come in up to two currencies, one unreadable; rates have up to two digits
  more than the scale holds, with every way to round.
* *Stay terms.* Two statements decide any answer, a third makes a repetition that is not
  of the first; four instants put one before, between and after two deadlines. A
  list of up to four repeats one of three entries. Terms differ in each of their fields, in
  their prose alone, or state nothing.
* *Browse.* One hotel twice and one more hotel than a search takes; a currency that is
  answered with either of two rates or with one that cannot be read, and searches without a
  currency; capacities in fields, in descriptions, in both and in neither; a page with one
  empty field, and codes that another catalog holds. Between any two calls
  one hotel sells or reprices.
* *Answers.* The retry and a failure after it need one call; a second call shows that
  nothing of the first is left. Orders have no, one and two bookings in every status.
* *Capture.* With three hotels a refusal can name none, some or all of those left, and
  with two searches over a set the tool runs out of them; one hotel can sell out and
  reopen.

`CHECK_DEADLOCK FALSE` is set, where it is, because the bounded systems stop: the calls are
used up, or `Create` has returned.

`capture` (978,420 states) and `transport` (743,095) are the largest; `stay_terms` has
207,904 and `bill` 244,204. `browse` has 71,616, each with many parts.

## Fairness

Only `transport_live` needs it. `MovesOn` is weakly fair: what a call does without
the mutex depends on the goroutine and on the HTTP client, which ends every
exchange and attempt by its timeout if the server does not answer. `TakesMutex` is
strongly fair: `sync.Mutex` in starvation mode hands itself to a goroutine that
has waited for a millisecond before any newcomer. Nothing is assumed of the
server, of the network or of the clock, and a caller need not begin anything.

## The proofs

All theorems hold for every set of goroutines, every bound and every input. The
assumptions are the `ASSUME`s beside the constants: bounds are naturals;
`NoCaller` is not a goroutine; in a draft guests, rooms and the guests of a room are
slices, the length of a request is a natural and `ArrivingAt` a pointer
(`DraftsAssumption`); the members of a modification are pointers
(`ModificationsAssumption`); offers, prices, answers and rate texts are of the wire's
types (`OfferedAssumption`, `WireAssumption`, `BillAssumption`); a hotel's offers have IDs
of their own and amounts of the machine's width, and rates are positive
(`HotelsAssumption`); queries, answers, offers and contents are of the types of their
requests and responses, what rates an answer may carry is known of each currency that is
searched in, and an offer's ID tells the hotel and the currency it was found in
(`QueriesAssumption`, `AnswersAssumption`): an ID is opaque to the SDK, and Amadeus gives
each priced offer its own; rates may come, go and move between two answers, but those to
one search and to the re-verification of its offers convert to the same currency
(`ConversionAssumption`), which is what `offers/service.go:48` says of the conversion
context; the figures and lengths of words are naturals (`FiguresAssumption`,
`NumbersAssumption`, `LengthAssumption`); the hotels of the capture tool are finitely many; no word that is
not a secret is one.

The token manager, the transport and the calls on it:

* `TokenInvariant`. Typing, mutual exclusion, and the order of tokens: no token
  anywhere is newer than the last one granted; a goroutine whose token was
  rejected and that is past `invalidate` sees in the cache only newer tokens. The
  last part is what makes `RetryUsesNewerToken` follow from a step. It needs the
  mutex: a grant on its way is the newest, because exchanges do not overlap.
* `ImplementsTokenManager` shows each step of `Transport` to be a step of
  `TokenNext` or a stutter, so the theorems above carry over
  (`TransportExclusion`, `TransportNewerToken`).
* `TypeCorrect` and `AtMostOnce` rest on an invariant that ties a call's phase to
  its attempt, response and execution count: a call awaiting a second attempt was
  answered 401 and so not executed. `AtMostOnce` maps initial states and steps to
  those of `CallContract`. `OnlyUsableIsSuccess` adds to it what the last answer was.
* `SpareAfterRejection`: without rejections a burst costs one token request. This
  is what remains true of the comment that `token_burst` refutes.
* `LittleOverrun`: a request on the wire may carry a token that ran out, but only since
  two timeouts less the window, or two timeouts less the lifetime where a token was used
  straight from its exchange. The invariant (`ClockInv`) follows a token from the grant
  over its arrival, up to one timeout later, to the request, up to another one later.
  Nothing is assumed of the three durations. With the defaults the bound is 90 s; it is
  none at all only if the window is as long as two timeouts.

The booking service:

* `ResolveAlways`, `CardsChecked`: what was accepted has no fault, and the absence
  of each fault is what the wire needs. `NothingIsDropped` reads the body back member
  by member: `omitempty` drops only what the caller left empty, given `Expressible`,
  and the places of the guests are distinct, so the rooms can be read back from them.
  `BookableIsAccepted` goes the other way: each fault about guests and rooms
  contradicts that every guest has exactly one place.
* `OneOrderPerCreate`, `NoIDIsMislaid`: operations are numbered apart, a call that
  was not executed has made no order and has no answer, only a `Create` makes an
  order, and its answer carries that order's ID or is recorded in `bare`.
* `NoChangeUndone`: a step of the server other than a modification leaves every term of
  every booking as it was, and a modification changes those that the caller set.
* `ReportedIsDone`, `PlaceholdersAreAbsent`: an answer on its way is that of the operation
  it answers, and stays so while other goroutines change orders; one without the order
  comes back blank, from four of the six operations, and the deed is done all the same; a
  placeholder is in no member from which the service takes a number.

Offers, grouped and converted:

* `NoOfferIsLost`: the loop finds each key once (`KeysAreSeen`), a bucket has the offers of
  its key, each once, and the sort keeps what it is given (`SortedElements`), order or no
  order.
* `OrderSurvivesConversion`: the two roundings, digit by digit, come to one of the exact
  product (`ConvertedWorth`: what is shed in two goes is shed in one, and zeros are shed
  without a trace, so the scales of amount and rate do not matter), and that one
  keeps order. Comparison may cut an amount off at the largest integer; it then never
  reports the wrong one as lower (`CompareTells`).
* `FromPriceIsTheLowest`, `ListingDoesNotShow`, `OneCheapestPrice`: wherever the prices of a
  hotel are `Comparable`, the comparator tells of each two what their worths tell
  (`ComparedAsShown`), so it orders offers and groups totally (`CheaperIsTotal`,
  `FirstGroupIsTotal`), the insertion sort puts them in that order (`InsertedInOrder`), and
  there is one such list (`OneOrder`). `Comparable` is what the comments assume: one
  currency once converted, no price rounded to nothing, none beyond what the machine's
  integers hold at the finest scale shown.

Terms and bills:

* `NeverFreeOnceCharged`, `SameStayLimits`: of an offer's terms only the set they form
  reaches an answer (`BookedTerms`), so the list a retrieval returns does not
  matter; and what is free at an instant was free before it (`FreeBefore`), which
  needs deadlines to be instants.
* `MergeLosesNoTerm`: the elements of a filtered list are those wanted (`KeptElements`),
  by induction over the steps of the loop; what the merge drops has the `Rules` of the
  term it puts first, and no answer reads anything else of a term. `FreeUntilMeansFree` and
  `NeverMoreGenerous` then compare the two contexts' answers through the set of terms
  alone; a booking's terms are its offer's and, if the list has an empty entry, one that
  charges nothing.
* `NothingIsLostAdding`: an amount is compared by its `Worth`, the integer it is at the
  finest scale. Scaling up loses nothing while the worth is in range (`RaisedIsExact`,
  by `TenToSum`), no sum or product in range wraps, and a product that sheds digits
  for want of room sheds zeros. Quotient and remainder put the amount back together
  (`DivModIsExact`). Ranges leave out the smallest integer: `Sub` negates its operand.
* `BookedAsQuoted`: both mappers read the same texts with the same functions, and the
  total of the taxes depends on their lines alone (`SameTaxesSameTotal`, by induction
  over the sum).
* `TaxesInAnyOrder`: `TaxOrderDoesNotMatter` under a hypothesis the run's prices all meet,
  `TaxesInRange`: the sizes of the lines that are charged on top are together in the
  range of the finest scale. A permutation without its last place is one again
  (`ShortenedPermutes`), so it is onto and integers have the same sum in any order
  (`AddingInAnyOrder`). A total is described by what no order changes (`Summarises`):
  its worth is the sum, its scale the finest of the lines, its currency that of each
  line that has one; `OneMoreLine` keeps that up, and worth and scale decide the units.
  Outside the range it is false: of 1, 1 and -1 in amounts up to 1.27, `Add` saturates
  before the credit arrives or does not, as the lines come.
* `RatesAreRounded`: reading some digits of a text, then the rest, gives the value of all
  of them (`MoreDigits`); what `ParseRate` cuts off is a digit and a rest, and the
  digit alone decides the half (`HalfAwayFromZero`). It is about texts that have a
  digit; the empty text is an error.
* `TextIsReadBack`: one width fits a number (`OneWidth`), and reading the first digits
  written gives the number without its last ones (`DigitsAreRead`). Trimming cuts off
  zeros alone, so what is read is the same value at a coarser scale (`EqualOnceRaised`),
  whose digits are the first ones of the text again (`SameDigitsAgain`).

From a list of hotels to an offer:

* `NothingRejectedIsSent`: the parameters of a query are a set of functions, each of one name
  under one condition (`SetIsConditional`), so what holds of each holds of all of them
  (`ParamsAcceptable`), and the conditions are those under which Amadeus accepts the
  value. A list is sent as the text it is joined to, which is empty for one empty text:
  codes are not empty (`CodesAreNotEmpty`), hotel IDs are refused if they are, and the
  fields of a page are left out of the statement. What a pair of parameters has to satisfy
  (a range and its currency, the two dates)
  and the number of hotels follow from `validate`: a search or a page that it refuses
  sends nothing.
* `GuessesAreNotCertain`: `MaxPersonCapacity` finds its answer in the first place that has
  one, and that place decides its source (`CapacitySource`). The invariant
  (`OffersFound`) is that every offer shown is the mapping of one that a hotel had, whatever
  was sold and repriced since.
* `PriceConfirmedIsPriceShown`: by the same invariant an offer, found or verified, was
  mapped with the rates of its answer, which are some that its currency may come with. The
  displayed total is a function of the price and of the one rate for its currency
  (`SameRateSameFigure`), and in the target's currency wherever that rate can be used
  (`ConvertsWhereUsable`, `ConversionTells`); the target is the same for both answers by
  `ConversionAssumption`.
* `PublishedIsFound`: a page is the mapping of contents that were published, and of that
  mapping the rest is shown member by member. Two lists of which the same places are wanted
  keep the same number (`KeptAlike`), which counts photographs and texts (`SplitTells`);
  the first of the widest, narrowest or nearest is there because a set of naturals has a
  least, and one with a bound a greatest (`BestHasAddress`, `NearestKnown`).

Logging and the capture tool:

* `SecretsStaySecret`: redaction leaves of a body only words that are no secrets,
  provided each secret stands under a key that is redacted (`RedactedIsClean`), and
  every body the SDK encodes is such a body (`RequestsAreHarmless`).
  `EmptyAnswersAreNoReservations` ties what was returned to the last answer, the empty one
  included.
* `BoundedRequests`, `NoHotelOverlooked`, `FixturesAreOfOneRun`: a refusal that is acted on
  uses up an attempt, a request by itself a hotel; a hotel the fallback has passed
  was sold out when it was asked for, or the request failed; the file and the
  search in memory are written together.

Types are proved for the token manager and the transport. Elsewhere a value of a
wrong type makes the evaluation of a property or an action fail, and the shapes a
proof needs are part of its invariant.

Induction over data is done with sets: `SetInduction` says that a set of naturals with 0
and each successor is all of them, and `LoopExists` that a loop of `n` rounds over a
set of values has a run, which is the recursive function that a definition names.
The library's induction theorems take an operator as a parameter, which no
installed prover can instantiate.

Only model-checked:

* `EveryCallReturns`: liveness, like `ENABLED`, is out of the prover's reach.

Neither proved nor checked: the order of the taxes outside `TaxesInRange`, where a partial
sum may saturate in one order of the lines and not in another (no price of the run is
there), and what an amount beyond the range comes to.

## Where code and comments disagree

Two runs end in a counterexample to something the repository says of itself:

1. `auth.go:53`: a burst of goroutines costs one token request. A late
   `invalidate` drops a token that was fine. (`token_burst`)
2. `service.go:72`: a pointer to `""` clears the special request. `omitempty` leaves
   it out. (`cleared`)

The others were met while reading and modelling; `PROJECT.json` (`findings`) quotes
each with its lines. Those that a property had to be stated around:

* A request in flight can race the expiry (`auth.go:21`): 30 s of window, 60 s of
  timeout. `transport` has them in this ratio, and `OverrunIsBounded` says by how much a
  request can outlive its token: up to 90 s.
* A 2xx answer without the order is an empty `Order` and no error (`service.go:150`,
  `:209`, `:277`, and `:238` for an empty `included`). `SuccessMeansDone` asks that the deed
  was done and lets the order be blank; `OrphansAreAccountedFor` names such a `Create` as a
  reason why nobody knows an order.
* The memberships of guests that `GuestIDs` does not list are dropped by `Modify`
  (`booking/mapper.go:194`), which `SuccessMeansDone` excludes.
* A term that differs from the first in its prose alone is dropped as a duplicate
  (`offers/mapper.go:417`); `NoTermIsLost` is about what a term charges and when.
* A content query with one empty field sends an empty parameter (`content/service.go:72`),
  which `SentIsAcceptable` leaves out.
* `Get` shows a price at the rates of its own answer (`offers/service.go:121`), which may
  have moved since the search; `ReverifyShowsWhatSearchShowed` compares the figures where
  they have not.
* A goroutine that waits for `mu` cannot be cancelled (`auth.go:57`).
* `toRequest` drops the membership of a guest in another room, and gives an arrival
  without a time the year 1 (`mapper.go:58`). `Expressible` excludes these drafts.
* The lowest-priced offer need not come first where a currency has no rate
  (`grouping.go:105`): ties by ID between currencies make the comparator no order.
  `FromPriceIsLowestOfComparable` says where it does.
* `Round` rounds one digit at a time, and 1.45 becomes 2 (`amount.go:286`).
* An amount too large for the other's scale ties with the largest that fits, so `Compare`
  is no order there (`amount.go:355`). `Comparable` excludes such prices.
* Sums, products and rates at the smallest and largest integer wrap
  (`amount.go:143`, `amount.go:214`). `strained` and the ranges in `RateIsNearest` and
  `TextKeepsValue` exclude them.
* A penalty stated as `FULL_STAY` counts as free (`price.go:201`); a non-refundable
  offer shows the deadline of a free term all the same (`policy.go:110`), which
  `FreePromiseKept` excludes; any deadline makes an offer refundable
  (`policy.go:98`); a refundable booking without terms is promised free with
  certainty (`price.go:164`); an unreadable deadline becomes none, and so free for
  ever, and an empty entry is no term of the offer but a free one of the booking
  (`offers/mapper.go:316`), which `NeverMoreGenerousThanOffered` names as its exception.
* A picture whose only renditions have no known width has no address
  (`media.go:166`), which `PhotosHaveAnAddress` excludes.
* A telephone number given only in parts is dropped (`content/mapper.go:226`), and
  `TotalArea` is the largest room's (`content/mapper.go:476`).
* The capture tool leaves a converted fixture without rates behind when it fails to
  find one with them (`main.go:195`), and calls a run out of time one without
  availability (`main.go:305`), which is why `AvailabilityIsFound` asks for no faults.

## What is not modelled

* URL building, JSON encoding, headers, the layout of a log line: data and formatting.
* Goroutines that share a `Reservation` value and change it while it is sent: the
  API takes it by value and says nothing of its slices and maps.
* Members of responses that are copied and not read with another: names, addresses,
  labels, the guests and cards of an order as text.
* Text: bytes against characters, regular expressions (a description is the set of
  numbers each pattern finds), the Luhn sum (a card number is right or wrong), the
  layout of a date.
* `Float64`, `MustParseAmount` and the JSON form of money; great-circle distance,
  which is floating point; the calendar, which is the Go library's.
* Time zones: the models have one clock.
* The code tables, which are constants with labels, and the test servers, which were
  read as documentation of what Amadeus does.
