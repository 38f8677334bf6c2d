# Specifications of The RIDE

TLA+ models of the ride-hailing program in `src/`: a NestJS backend (one Node.js
process, PostgreSQL through Prisma, Redis, OSRM for routes, a socket.io gateway)
and an Angular frontend with a rider, a driver and an admin dashboard.

## The system

| Part | State | Operations | Talks to |
|------|-------|------------|----------|
| `RidesService` (`modules/rides`) | `pendingRequests`, a Map in memory: current driver, declined drivers, 30 s timer per request; `RideRequest` rows | create, accept, decline, timeout, search for the next driver, cancel | matching, trips, gateway, database |
| `TripsService` (`modules/trips`) | `Trip` rows | create (on accept), `updateState` | drivers, database |
| `MatchingService` (`modules/matching`) | none | `findMatches`, `findMatchesWithExpansion`, `getNextCandidate` | locations, database, OSRM |
| `WsGateway` (`ws`) | `connectedClients`, `driverSockets`, `riderSockets` in memory | connect (authenticates asynchronously), disconnect, inbound location / accept / decline, outbound offers and statuses | auth, rides, locations |
| `LocationsService`, `RedisService` | Redis: GEO set, presence key (120 s), last position (240 s) | location update (throttled), nearby search, removal | Redis |
| `DriversService` (`modules/drivers`) | `Driver` rows, presence in Redis | status PATCH, BUSY / ONLINE for trips, approval | database, Redis |
| `AuthService` (`modules/auth`) | `User` and `Driver` rows | register, login, token check | database |
| driver dashboard, `WebSocketService` | signals, a countdown and its handle | profile, go online / offline, offer, countdown, accept / reject, trip buttons | HTTP, socket.io |
| rider dashboard, `RideService` | signals | booking, request, cancel, statuses | HTTP, socket.io |
| admin dashboard | the list it loaded | load, approve, reject | HTTP |

How a ride happens: a rider POSTs a request; `RidesService` inserts the row,
makes a Map entry and asks `MatchingService` for candidates (Redis neighbours
that are ONLINE and APPROVED in the database, ranked by OSRM durations); it sends
the offer to the best one over its socket and arms a timer.  An accept runs
`TripsService.create`, three database writes in a row; a decline, the timer or a
missing socket sends the request to the next candidate; when none is left the
request EXPIRES.  The rider hears of all this through `sendStatusToRider`.

What makes it hard:

- every handler is cut at its `await`s, and the Map entry, the timer and the
  driver's status are shared by all of them with no lock, no transaction and no
  conditional write;
- accept, decline, timeout, cancel and restart race for the same request, and two
  requests race for the same driver;
- memory (Map, timers, sockets) dies with the process, the database does not;
- a rejected promise that nobody awaits (timer, disconnect) ends the process;
- sockets register themselves asynchronously, so old and new connections of one
  user overlap;
- Redis presence is written by three handlers, in parts, and expires;
- the pages go on without waiting for the backend: answers are emitted and not
  acknowledged, responses find another state than the one their request was sent
  from, and a status is taken for whatever ride is on the screen;
- registration and approval check first and write later, without a transaction.

## What makes each part correct

| Part | Correct when | Stated as |
|------|--------------|-----------|
| dispatch | one driver at a time decides a request; a trip goes to the driver that holds the offer, or to nobody; every request comes to an end its rider hears of | `OfferProtocol`, `AcceptExcludesOthers`, `TimerHasOpenOffer`, `OneSearchPerRequest`, `NobodyIsAskedTwice`, `EveryRequestSettles`, ... |
| trips | states follow each other; a driver is BUSY as long as it rides and no longer | `StagesInOrder`, `BusyHasOpenTrip` |
| matching | the best of the drivers that may be asked is asked, and nobody is left out | `ProposalIsBest`, `GivesUpWhenExhausted` |
| sockets | messages go to the live socket of their user | `CleanSessionIsReachable`, `RegisteredSocketIsOwn`, `ConnectedClientsAreLive` |
| presence | a driver that sends is found where it is, a driver that is gone is not found | `SendingDriverIsFound`, `PositionIsFresh`, `PositionCatchesUp`, `SilentDriverIsForgotten` |
| accounts, approval | an email is registered once, and completely if it was reported as done; a verdict is final once no review is in flight | `RegisterOnce`, `SuccessMeansComplete`, `VerdictStands`, `DriverSocketNeedsProfile` |
| driver app | an offer the backend waits on is answered, once; a ride stays on the screen | `SilenceIsVisible`, `OneAnswerUnlessOrphaned`, `RideIsKept` |
| rider app | the driver on the screen has the trip; a spinner is served; one search at a time | `MatchedScreenHasTrip`, `SpinnerIsServed`, `SecondSearchMeansAbandoned` |

## Modules

| Module | What it is |
|--------|------------|
| `OfferProtocol` | abstract: what dispatching promises about offers and trips |
| `RideDispatch` | `RidesService` with the parts of trips, drivers, matching and gateway it runs through |
| `RideDispatchProofs` | the theorems about it, whatever fails, and those about it when nothing does |
| `OfferProtocolProofs` | that it implements `OfferProtocol` |
| `TripLifecycle` | `TripsService` alone: creation and concurrent state updates |
| `TripLifecycleProofs` | the theorems about it |
| `Matching` | the pipeline of `MatchingService` for one request in a neighbourhood that stands still |
| `MatchingProofs` | the theorems about it |
| `WsSessions` | the socket registry of `WsGateway` |
| `DriverPresence` | what Redis knows of one driver, command by command |
| `DriverPresenceProofs` | the theorems about it |
| `Accounts` | registration, login and the approval of drivers |
| `Access` | `Accounts` and `WsSessions` together: who gets a socket, and registered |
| `AccessProofs` | the theorems about it |
| `DriverApp`, `RiderApp` | the two dashboards, one operator per handler |
| `RideApps` | `RideDispatch` with the pages at its ends, and the links between |
| `RideAppsProofs` | the theorems about it: what the driver's page does to offers, and to the dispatch behind it |
| `RiderEndProofs` | the theorems about it: what the rider's page can be trusted for |
| `MC*` | the same modules with model values for TLC |

### From the code to the models

The backend is one Node.js process: a handler runs alone until its next `await`.
So a handler is a stage (the write or the reply it waits for), and an action is
what it does between two awaits; every other handler may run while it waits.

`RideDispatch`.  `requestStatus`, `driverStatus` and `trip` are the database;
`pendingRequests`, `currentDriver`, `declinedDrivers` and `timeoutHandle` are the
fields of the Map entry, one function each, kept apart from the Map's keys
because handlers hold on to an entry that was deleted; `driverSockets` is the
gateway's Map.  `search[r][c]` is the handler that looks for the next driver of
`r`, named by what caused it (the creation, or driver `c` declining, timing out
or having no socket); `answers[r][d][n]` is the n-th answer `d`'s app gives to
the offer; `canceling[r]` is `cancelRequest`.  `offers` and `riderStatus` are what
clients received.

| Code | Actions |
|------|---------|
| `createRideRequest`, `startMatching` | `CreateRideRequest`, `StartMatching` |
| `findMatches...`, `getNextCandidate` as dispatch sees them | `FindAvailable` |
| `sendOfferToDriver` | `OfferSent`, `OfferUnsent`, `OfferAbandoned` |
| `handleNoDriversFound` | `NoCandidate`, `MarkExpired`, `NotifyNoDrivers` |
| `handleDriverTimeout` | `TimeoutFires`, then the search it starts |
| `handleDriverDecline` | `DriverDecline`, `AnswerIgnored`, then the search |
| `handleDriverAccept` with `TripsService.create` | `DriverAccept`, `SetDriverBusy`, `MarkMatched`, `CreateTrip` or `CreateTripRejected`, `NotifyMatched` or `NotifyFails` |
| `cancelRequest` | `CancelRead`, `CancelUnlist`, `CancelWrite` |
| gateway, driver status PATCH | `DriverConnects`, `DriverDisconnects`, `UpdateDriverStatus` |
| exceptions, restarts | `SearchFails`, `ExpireFails`, `AcceptFails`, `CancelFails`, `Crash` |

An exception in a search ends an HTTP or WebSocket handler, whose filter answers
the client; in the search a timer started nobody catches it, and the process
goes down (`SearchThrows`).  A restart forgets memory and keeps the database.

`TripLifecycle`.  `create` is `Create`, `SetDriverBusy`, `InsertTrip`; `updateState`
is `ReadTrip` (which checks the transition), `ReleaseDriver` when the trip ends,
`WriteState`.  `visited` is a history variable.  The MATCHING state of the
transition table has no trip and is left out.

`Matching`.  `FindMatches` is the composition of the code's list operations,
literally in their order: the GEO search with its COUNT, the presence filter, the
status filter, the stable sort by score, the cut.  `Next` is what dispatch asks
for: `findMatchesWithExpansion` once, then `getNextCandidate`.

`WsSessions`.  `handleConnection` is `Connect` up to its await, then
`Authenticated`, `AuthenticatedWithoutProfile` (a driver whose row came without a
profile) or `AuthenticationFails`; `handleDisconnect` is `Disconnect`, or
`DisconnectEarly` for a socket that has no user yet.  `driverSockets` and
`riderSockets` live and die alike and are one function, `registered`.  `clean` and
`cutOff` are history variables: they say for which users and sockets the
properties make a claim.

`Accounts`.  A person stands for an email.  `registration[h]` is the handler of one
submission: `CheckEmail`, then after the hash `CreateUser`, then `CreateProfile` for
a driver; `RegisterFails` is any of the two inserts throwing, the unique key
included.  `tokens` are the people that are signed in.  `updateApprovalStatus` is
`ReviewDriver` (the click, the read and its check) and `WriteVerdict`; `listed` is
what the admin's page loaded, as old as it may be.  `settled` is a history variable:
drivers with a verdict that no review in flight could replace.

`Access` joins the two: a socket needs a person that is signed in
(`OpensSocket`), `validateUser` finds the profile or not (`FindsProfile`,
`FindsNoProfile`), and a socket that is turned away signs its person out, as
`WebSocketService` does.  A restart (`Restart`) ends the handlers of both.

`DriverApp` and `RiderApp`.  A page runs one handler at a time to its end, so a
handler is an operator from the page's record to the next one; the fields are the
signals, `countdown` the handle of the interval, `orphaned` an interval whose
handle was overwritten, `profile` and `change` the HTTP calls in flight, `inbox` and
`outbox` the socket's two directions.  `shown` and `abandoned` of the rider's page
are ghosts: whose match is shown, and that a search was left.

`RideApps` extends `RideDispatch`: a step of the backend that speaks to a client
puts the message in the page's inbox (`SendOffer`, `GiveUp`, `TimeOut`,
`AnnounceMatch`), and the answers of the driver come out of its outbox
(`AnswerArrives`).  A driver's link may break (`LinkBreaks`), which
loses what is on its way, and opens again.  `played` says which ends are pages; at
the other end any client makes requests or answers once, as in `RideDispatch`.
The rider's cancel does nothing to the backend because the request it sends
names no ride (`activeRide.id` is undefined) and a path the backend does not serve.
With no cancellation and no failures in this instance, `OfferAbandoned` and
`CreateTripRejected` never occur here: the runs of `RideDispatch` cover them.

| Code | Operators of the pages | Actions of `RideApps` |
|------|------------------------|-----------------------|
| `handleRideOffer`, the interval | `HandleRideOffer`, `Tick` | `OfferArrives`, `CountdownTicks` |
| `acceptOffer`, `rejectOffer`, trip buttons | `AcceptOffer`, `RejectOffer`, `ArriveAtPickup`, `StartTrip`, `CompleteTrip` | `DriverClicks`, `AnswerArrives` |
| `loadProfile`, `goOnline`, `goOffline` | `ProfileArrives`, `GoOnline`, `GoOffline`, `ChangeArrives`, `ChangeFails` | `ReadProfile`, `WriteStatus`, `ResponseArrives` |
| booking, `requestRide`, `cancelRequest` | `StartBooking`, `ChoosePlace`, `ConfirmPickup`, `RequestRide`, `Responded`, `RequestFails`, `CancelRequest` | `RiderClicks`, `HandleRequest`, `RequestReturns` |
| `riderStatus$` | `HandleStatus` | `StatusArrives` |

`DriverPresence`.  `geo`, `online` and `lastpos` are the three Redis keys; an
action is one command with the code that runs on its reply, in the order of the
one connection.  `updates` are the `updateDriverLocation` calls in flight,
`removal` the calls `handleDisconnect` starts and does not await, `patch` the
Redis half of the status PATCH.  Positions are points of a line.

`batchUpdateDriverLocation` is an ioredis pipeline and no MULTI: its three commands
get one answer and succeed or fail one by one (`Pipeline`).  All of them are done
(`BatchUpdate`); GEOADD refuses the coordinate, because `isValidCoordinate` admits
latitudes up to 90 and GEOADD only those up to about 85.05 (`BatchRefused`, for the places
outside `GeoRange`; it needs no fault); or any of them fail (`BatchFails`).  In the
last two cases the caller gets the error and what was done stays.  `UpdateFails` is a
failure of one of the reads, or of the SETEX of a throttled report.

History says for which states `PositionIsFresh` makes a claim.  `reported` is the place
the app sent last.  `missed` is set when the call with that place failed, in part or
whole, or ended `misled`: it was throttled, either while an older call was still in
flight, so that both compared themselves with the position before (a move away and back is
then stored as the move away), or by a last position that is not where the driver is
found (`torn`: a pipeline that failed in part left the two keys apart, and both are still
there).  The code guards against none of the three: TLC finds the property violated if
any one of them is dropped.  What the code does promise of them, that they do not
last, is `PositionCatchesUp`.

## Checks

Times are for two workers; states are distinct states.

| Run | Instance | States | Shows |
|-----|----------|--------|-------|
| `dispatch_safety` | 1 request, 3 drivers, one answer per offer, cancellation, all failures | 537 168 | accept, timer and search exclude each other; no trip of an expired request or of a driver that declined; `matched` is the last word; `OfferProtocol` is implemented |
| `dispatch_live` | 1 request, 2 drivers, cancellation, status PATCHes, no failures, fair | 84 032 | requests settle, the Map drains, an entry is always driven by something, riders are told of their trips |
| `dispatch_answers` | 1 request, 2 drivers, two answers per offer, cancellation, all failures | 231 976 | even then there is one search at a time, and nobody is asked twice |
| `dispatch_announce` | the same without failures and cancellation | stops | a trip whose rider is not told (finding 1) |
| `dispatch_cancel` | 1 request, 1 driver | stops | CANCELED over MATCHED (finding 2) |
| `dispatch_busy` | 2 requests, 2 drivers | stops | an offer to a BUSY driver (finding 3) |
| `trips_safety` | 2 trips, 1 driver, 2 callers each, PATCHes, all failures | 231 696 | states in order; BUSY only with a trip |
| `trips_ended` | 1 trip, 2 callers | stops | a final state overwritten (finding 4) |
| `matching` | 5 drivers, 2 candidates, scores 1..3, every radius | about 440 000 | the pipeline proposes what its plain definition says |
| `sessions` | 2 people, 2 submissions, 1 admin, 3 sockets | 1 600 720 | what of the rows and of the registry can be relied on |
| `apps` | 2 requests, 1 driver, a countdown of 2, one change of status; each end played in turn | 1 647 448 | what the two screens can be trusted for |
| `presence` | places 0..3, of which GEOADD refuses 3, threshold 2, 2 updates, 1 session, 1 removal, 2 faults, fair | 655 886 | no drift; found while it sends, at a position that becomes fresh again; forgotten when it stops |

The bounds.

- Requests share nothing but the drivers' statuses and sockets.  What concerns
  one request is checked with one request, and the status a search meets is
  arbitrary because the search may find any set of ONLINE drivers, or none;
  `OfferGoesToFreeDriver`, which relates two requests, is the run with two.
- Three drivers let one decline, one time out and one accept; the fourth would
  repeat one of them.  Two answers are the least that can contradict each other;
  with two, two drivers are enough for an answer of a driver that is no longer
  current.  The theorems below do not depend on either number.
- Two callers of `updateState` are the two people a trip has; an admin would be a
  third one doing the same.  Two trips of one driver are what it takes for the end
  of one to free a driver that has another.
- In `matching` five drivers are one more than a GEO search returns
  (`SearchCount` is 4), so every cut is at work, and three scores give
  ties as well as strict orders.
- In `sessions` three sockets are two overlapping sessions of one person and a clean
  one afterwards, or one of the other person meanwhile.  Two submissions are the
  least that can pass the check together.  One admin is enough for two
  verdicts at once, because Approve and Reject can be in flight together and the
  list may be old.
- In `apps` two requests with one driver are what it takes to overwrite a
  countdown and to have an old request speak to a new screen, and a countdown of two
  what it takes to see it reset.  One change of status (`MaxChanges`) can be answered
  at any later time.  Answers wait in the page's outbox after two per
  offer (`MaxAnswers`).  Both ends at once would multiply what each of them shows:
  the page of a driver never sees the rider's, and the backend between them is
  given every behaviour of any client instead.  The run has one driver and no
  failures of the backend; those are `dispatch_safety`.
- On the road of `presence` a step of one place is below the threshold and two of
  them are not: the least on which throttled moves can add up.  Two updates in
  flight are the least that can interleave, and one removal may meet either.  Two
  faults let a pipeline fail in part and a later command, PATCH or the process
  after it; place 3 is one GEOADD refuses, within a step of one it accepts.  One
  session at a time is enough, because the removal of the one before may still be in
  flight when the next one reports.

Deadlock is checked except in `matching`, whose search ends, and in `trips_ended`, where a trip that reached a final state is left alone.

### Fairness

`RideDispatch`: weak fairness of each handler in flight (the database and the
routing service answer, or fail) and of each timer (Node fires a timer that is
due and not cleared).  Nothing is assumed of clients: drivers may never connect,
stay silent or disconnect for good, riders may cancel or not.  Weak
fairness is enough because a handler's step, once enabled, stays enabled until the
handler takes it.  Liveness is checked without failures, since with them the code
does leave requests behind (hazards `rides.service.ts:66` and `:35`).

`DriverPresence`: weak fairness of Redis' replies, and of the TTL of presence
when neither an update nor a PATCH is in flight to renew it.  A driver that
keeps sending is not promised that its TTL ever lapses.

`PositionCatchesUp` has premises of its own, which say when it claims anything: the
driver goes on sending places GEOADD accepts, one report at a time, and the last
position lapses (`LastPositionLapses`) if nothing sets it again.  The last one is what its
TTL of 240 s is, as a throttled report renews the presence key only; it is a premise
and not part of `Fairness`, so the other properties do not rest on it.

## Findings

1. `dispatch_announce`: `handleDriverAccept` uses `currentDriver` again after
   awaiting the creation of the trip (`rides.service.ts:209`).  A decline of the same
   driver in between sets it to null; the handler throws, the trip exists, the
   rider is not told and the entry stays.  The driver dashboard can send both
   answers.
2. `dispatch_cancel`: `cancelRequest` checks a status it read and writes CANCELED
   without looking again; an accept in between is overwritten.
3. `dispatch_busy`: searches of two requests that overlap offer both to the same
   driver, the second while it is BUSY.
4. `trips_ended`: two `updateState` calls that read the same open trip both write;
   the second replaces a final state.

Other weaknesses met while modelling, for which there is no run of their own: a socket
that closes late unregisters the user's new one; candidates are cut to five before
drivers that declined are taken out, and the wider radius is used for the first
proposal only, so a request may expire with free drivers near; the pipeline that
`redis.service.ts:200` calls atomic fails command by command; and `getRoute` turns every
failure into the exception that `scoreAndRankCandidates` throws on, so that one driver
without a route fails the search for all, and nothing is filtered out as
`matching.service.ts:225` says.
The hazards in `PROJECT.json` give their lines.

## Proofs

`tlapm` checks every step; TLC checked each property, and each invariant that is
proved, on the instances above.

`RideDispatchProofs`, for every set of requests and drivers, any `MayCancel`,
`StatusWrites` and `Faults`:

- `TypeCorrect`: types, for any number of answers.
- Under `MaxAnswers = 1`, that is, for apps that answer an offer once, which the
  server does not enforce and finding 1 is about: `AcceptsExclude`,
  `TimersHaveOffers`, `ExpiredNeverRides`, `TripsAreOffered` and `MatchedIsFinal`.

They all follow from `IInv` (`Invariance`).  None of the properties is inductive
alone.  That an accept excludes the search needs to know that the driver who
accepts is still the current one and that no timer is armed; that in turn needs
`OfferInv`: while a search runs its request is offered to nobody, and as long as it
is listed everybody asked has declined, except the current driver.  This is
what keeps a late answer of a driver that was passed over from being taken for
current, because `OfferUnsent` leaves a driver without a socket current that
was never offered the ride.  `AcceptInv` carries the status the three writes of `create` have reached,
`TripInv` what a trip closes for good, so that neither a search nor a timer can
turn up afterwards, and `WordInv` that the rider heard of a trip that
exists and whose request is off the Map.  The proof has one lemma for the steps of
a search, one for those of an answer, one for what else concerns a request, one for the
restart and one for exceptions; requests that a step does not touch keep their
part of the invariant because it speaks of their own fields only.

`OfferProtocolProofs`, also under `MaxAnswers = 1`: `OfferProtocolImplemented`, that
`RideDispatch` implements `OfferProtocol`.  The holder of a request is its current
driver or nobody (`HolderIsCurrent`, which gets rid of the `CHOOSE` of the mapping);
an open offer has its timer armed (`ArmedInv`), so that an accept finds its driver
holding the request; and the current driver changes only while a search runs, when
nobody holds it.  `OfferSent` maps to `Offer`, `CreateTrip` to `Assign`, and all else
to `Release` of the requests that lose their holder, possibly of none.

For any number of answers there are `OneSearch` and `DriversAreAskedOnce`.  Of `IInv`
only what does not depend on the answers is left (`OneSearchInv`), and one conjunct is
weaker: with several answers a timer may be armed for a request that is no longer
listed, because a driver that accepts and then declines starts a search, and the
accept unlists the request after that search has sent its offer.  That nobody is asked
twice follows from `AskedInv`: while a search runs, listed or not, everybody that was
offered the request is in `declinedDrivers`, the driver a late answer or timer left
behind included, and the one step that arms a timer (`TimersAreForNewDrivers`) is
a search's.

The steps keep `IInv` from any state where nobody has answered twice so far
(`NextInv` assumes `AnswersOnce` before and after the step, not `MaxAnswers = 1`).
So the same lemma serves the composition below, where answering once is not an
assumption but follows from what the page does.

The last part of `RideDispatchProofs` is for apps that answer once and handlers that
do not fail (hazards `rides.service.ts:66` and `:35` are what failures leave behind):

- `PendingIsDriven`: a listed request has a search, a timer or an accept at work
  on it (`Driven`).  It holds through restarts too, as they empty the list.  Whatever
  ends, a search, a timer or an accept, hands over to the next in the same step or
  unlists the request; `IInv` is what tells that no step ends the work of another.
- `TripsAreAnnounced`: a trip's accept goes on until the rider is told, which is
  where finding 1 strikes when a driver answers twice.
- `BusyDriversHaveTrips`, if drivers cannot PATCH themselves BUSY: a driver stays
  BUSY for the request that made it so (`OccupiesOn`), whatever the requests that share
  it with that one do.

`TripLifecycleProofs`, for any trips, drivers, callers and failures:

- `TripTypeCorrect`: types.
- `TripsPassEveryStage`: `StagesInOrder`.  The invariant (`StageInv`) says of every
  call in flight that the state before the one it will write has been visited.
  What it read may be stale by the time it writes, but history only grows, so the
  check made on it stays good enough for this (and not for `EndedIsFinal`).
- `BusyDriversRide`: `BusyHasOpenTrip`, if drivers cannot PATCH themselves BUSY (the
  DTO would let them; the app offers ONLINE and OFFLINE).  The invariant
  (`BusyInv`) asks that the open trip is one no call is about to end
  after having freed the driver: a driver that is made BUSY again between the two
  writes of `updateState` is BUSY for another trip.

`AccessProofs`, for any people, submissions, admins and sockets, whatever fails and
however often the process restarts:

- `RegistryIsOwn`, `ClientsAreLive`, `CleanIsReachable`: the registry.  The invariant
  (`SessionInv`) adds the life of a socket (`LifeInv`: who validates is not attached
  and is open, unless it was cut off), that no registered socket is one that was let
  in without a profile, so that its disconnect clears the key (`RegistryInv`), and
  that a user in `clean` has one session that is not over (`CleanInv`).
- `AccessTypeCorrect`, `RegistersOnce`, `SuccessIsComplete`: a registration that
  inserted its user is the only one of that email to do so, and finds no
  profile when it inserts one (`RegistrationInv`).
- `VerdictIsFinal`: no review in flight is of a driver in `settled` (`ReviewInv`),
  and a profile is only inserted where there is none.
- `RegisteredDriversHaveProfiles`: rows and profiles never go away (`RowsStay`), and
  the owner of a socket has a row because a token came with it (`OwnersInv`).

The sockets of `Access` take the steps of `WsSessions` (`SocketsTakeSessionSteps`), so its
part of the proof does not mention accounts.

`DriverPresenceProofs`, for any number of places, sessions, updates, removals and
faults: `PresenceTypeCorrect` and `PositionsAreFresh`.  `PositionIsFresh` speaks of moments
when no update is in flight, so the invariant (`PresenceInv`) says what an
update in flight owes: the GEO member and the last position agree where both exist,
unless a pipeline left them apart (`KeysAgree`); the last update of the queue carries
the last reported place (`NewestIsReported`); the oldest one, if it was throttled and not
misled, is near the GEO member (`ThrottledIsNear`), and one that was throttled behind
another is known to be misled (`OverlapIsKnown`); and with an empty queue the place
reported last is near it, unless `missed` (`QuietIsNear`).  The theorem claims nothing of
a report that failed in part or whole, or was misled; the next one that goes through ends
the exception.  Each skipped move is measured against the position written last,
not against the move before it, and that is why skipped moves do not add up.

`MatchingProofs`, for any number of drivers, of candidates and of scores:
`MatchingTypeCorrect`, `ProposalsAreBest` and `SearchesExhaust`.  The code filters, sorts
and cuts lists, and `SelectSeq` and `SortSeq`, being recursive, would take an induction.
So `Matching` says what the n-th element of the result is: the kept one that
has n - 1 kept ones before it (`Kept`), the one that n - 1 others go before (`Sorted`).
One lemma serves both: in a finite set with a strict total order the number of smaller
elements takes every value up to the size of the set (`Ranks`, from the fact that an injection
between finite sets of one size is onto).  That `Kept` is filter is checked by TLC for all lists of
up to four drivers (`KeptIsFilter`, in `MCMatching`).  Then `FindMatchesFacts`: the
candidates are sorted drivers of the pool, and whoever of the pool is not among
them comes after them all, and only if the list is full.  The invariant
(`MatchingInv`) adds that whoever was asked is on the list every later search of this
neighbourhood returns (`AskedInv`), which is why the list is exhausted when nobody is left
on it, and that a search is widened only where the first radius had nobody (`ExpandedInv`).

`RideAppsProofs`, for any requests and drivers, any number of answers and any choice of
the ends that are played by their app:

- `AppsTypeCorrect`, and `AppsDispatch`: with the pages at its ends, the backend does
  what `RideDispatch` does, so its theorems hold here.
- `SilencesAreVisible`, `OneAnswerEach` and `RidesAreKept` follow from `DriverEndInv`.  A
  page whose mark `orphaned` is not set has the handle of the countdown that runs, and
  runs one while it shows an offer (`CountdownInv`).  An offer is then in one place, the
  inbox, the countdown or the outbox, or was answered once (`PlacesInv`, `OnceInv`).
- `OrderlyUntilOrphaned`: as long as no page has orphaned a countdown (`NobodyOrphaned`)
  every app answers once, `IInv` holds, and with it what is proved under
  `MaxAnswers = 1`.  This ties the assumption of those theorems, and finding 1,
  to the line that overwrites a handle (`driver-dashboard.component.ts:395`).

Preparing these proofs corrected a property.  `SilenceIsVisible` used to speak of every
timer that is armed.  That is false with two drivers: an orphaned countdown of `d1`
accepts and then declines, the offer goes to `d2` with a timer of its own, the accept
unlists the request, and the answer of `d2` is ignored while its timer runs on.  The
run with one driver could not show it.  The property is now about requests that are
listed, the only ones the backend waits for.

`RiderEndProofs`, for the same constants:

- `MatchesAreMade`: `NotifyKnows` (the accept that is about to tell the rider has its
  trip) and `TripStays` (the insert refuses a second trip of one request) keep every `matched` that was sent true (`MatchInv`), however
  many requests the rider has left behind.
- `StayingRidersSearchOnce`: as long as the rider gives nothing up, one of its requests
  is alive at most: posted, worked on, or refused with the refusal on its way
  (`OneBooking`).  The refusal must be part of it: the page returns to the form
  when it reads `no_drivers`, and must not find another request alive then.
- `SpinnersAreServed`, if one end is played by its page and the client at the other
  end, if it is a driver, answers an offer once; and `SpinnersAreServedUntilOrphaned`,
  if both are, until a driver's page orphans a countdown.  The invariant (`SpinnerInv`)
  follows each `matching` that is on its way: its request is being worked on, or a last
  word about it is further back in the inbox, so that a spinner which an old message
  starts again is stopped again.  A dispatch where drivers answer twice can leave a
  request behind with nothing at work on it (finding 1), so the limit is real.

The invariants `DriverEndInv`, `MatchInv`, `OneBookingInv` and `SpinnerInv` were
checked by TLC on the instance of `apps` before, and `MatchingInv` on that of `matching`.

What is only model-checked: liveness (`EveryRequestSettles`,
`PendingRequestsDrain`, `SendingDriverIsFound`, `PositionCatchesUp`,
`SilentDriverIsForgotten`), which is out of the prover's reach.
That a spinner stops is stated without fairness: `SpinnerIsServed` says that
something in flight will stop it, and `dispatch_live` that what is in flight ends.

## Not modelled

- Leaving a page, entering it again and logging out while something is in flight:
  the replayed offer of `WebSocketService` (a hazard), late responses to a page that is
  gone, rides a reload forgets.
- The driver's location reports in the page (`DriverPresence` takes any sequence of
  them) and the driver's marker on the rider's map.
- Two clicks of a driver on Go Online or Go Offline in flight at once.
- The admin's statistics, the checks of forms, the map component: presentation.
- Passwords, the expiry of tokens, several browsers of one person.
- Guards, health checks, bootstrap and configuration: stateless.
- Queries that change no state, the update of a driver's vehicle, logging.
- Messages and buttons for what the backend never sends: `trip_started`,
  `trip_completed`, `ride:cancelled`, `trip:update`, and the trip calls of the
  driver's buttons, which need a `currentTrip` that nothing sets.
- Routing, scores and the geometry of the earth: OSRM's answer is any
  score, or none, and a distance is one on a line.
- In `RideDispatch`, which of a driver's sockets an offer goes to; that is
  `WsSessions`.  In `DriverPresence`, which radius a search uses; that is
  `Matching`.

## Plan

1. Dispatch and trips composed, from a request to the end of its ride, for
   requests that share drivers: what becomes of the status BUSY.
2. Pages that are left and entered again.
