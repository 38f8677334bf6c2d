--------------------------- MODULE RiderEndProofs ---------------------------
(***************************************************************************)
(* What the rider's page can rely on, for every set of requests and        *)
(* drivers and every choice of the ends that are played by their app: a    *)
(* match it shows was made, a rider that stays with a search has no other, *)
(* and, until a driver's page orphans a countdown, the spinner is served.  *)
(***************************************************************************)
EXTENDS RideAppsProofs

(***************************************************************************)
(* The steps of the whole, as the rider's end sees them.                   *)
(***************************************************************************)

\* A handler of the backend that has no last word for the rider.
Progresses(r) ==
    \/ StartMatching(r) \/ TimeoutFires(r)
    \/ \E c \in Cause :
          \/ FindAvailable(r, c) \/ OfferAbandoned(r, c) \/ NoCandidate(r, c) \/ MarkExpired(r, c)
          \/ \E d \in Driver : OfferSent(r, c, d) \/ OfferUnsent(r, c, d)
    \/ \E d \in Driver, n \in AnswerIndex :
          \/ Answer(r, d, n) \/ SetDriverBusy(r, d, n) \/ MarkMatched(r, d, n)
          \/ CreateTrip(r, d, n) \/ CreateTripRejected(r, d, n) \/ NotifyFails(r, d, n)

\* What a handler of the page makes of it: another step of the form, the POST,
\* a rider that leaves a search, the response to the POST, and a message read.
Choosing == {"idle", "selecting_pickup", "selecting_dropoff"}

Books(a, b) ==
    /\ b.inbox = a.inbox /\ b.posting = a.posting /\ b.abandoned = a.abandoned
    /\ a.state \in Choosing /\ b.state \in Choosing

Posts(a, b, r) ==
    /\ b.inbox = a.inbox /\ b.posting = a.posting \cup {r} /\ b.abandoned = a.abandoned
    /\ a.state \in Choosing /\ b.state = "searching"

Leaves(a, b) == b.inbox = a.inbox /\ b.abandoned /\ b.state = "idle"

Responds(a, b, r) ==
    /\ b.inbox = a.inbox /\ b.posting = a.posting \ {r} /\ b.abandoned = a.abandoned
    /\ b.state = a.state /\ b.shown = a.shown /\ b.matchedDriver = a.matchedDriver

Reads(a, b) ==
    /\ a.inbox # <<>>
    /\ b.inbox = Tail(a.inbox) /\ b.posting = a.posting /\ b.abandoned = a.abandoned
    /\ \/ Head(a.inbox).status = "matching" /\ b.state = "searching"
       \/ /\ Head(a.inbox).status = "matched" /\ b.state = "matched"
          /\ b.shown = Head(a.inbox).request /\ b.matchedDriver = Head(a.inbox).driver
       \/ Head(a.inbox).status = "no_drivers" /\ b.state = "idle"
       \/ /\ Head(a.inbox).status = "driver_declined" /\ b.state = a.state
          /\ b.shown = a.shown /\ b.matchedDriver = a.matchedDriver

\* The handlers, one by one.
LEMMA RiderHandlerEffects ==
  ASSUME NEW a \in R!App
  PROVE  /\ a.state = "idle" => Books(a, R!StartBooking(a))
         /\ a.state \in {"selecting_pickup", "selecting_dropoff"} => Books(a, R!ChoosePlace(a))
         /\ a.state = "selecting_pickup" => Books(a, R!ConfirmPickup(a))
         /\ a.state = "selecting_dropoff" =>
               \A r \in Request : Posts(a, R!RequestRide(a, r), r)
         /\ Leaves(a, R!CancelRequest(a))
         /\ \A r \in Request : Leaves(a, R!RequestFails(a, r))
         /\ \A r \in Request : Responds(a, R!Responded(a, r), r)
         /\ a.inbox # <<>> => Reads(a, R!HandleStatus(a))
<1>1. /\ a.state = "idle" => Books(a, R!StartBooking(a))
      /\ a.state \in {"selecting_pickup", "selecting_dropoff"} => Books(a, R!ChoosePlace(a))
      /\ a.state = "selecting_pickup" => Books(a, R!ConfirmPickup(a))
  BY DEF R!StartBooking, R!ChoosePlace, R!ConfirmPickup, R!App, Books, Choosing
<1>2. ASSUME NEW r \in Request
      PROVE  /\ a.state = "selecting_dropoff" => Posts(a, R!RequestRide(a, r), r)
             /\ Leaves(a, R!RequestFails(a, r))
             /\ Responds(a, R!Responded(a, r), r)
  BY DEF R!RequestRide, R!RequestFails, R!Responded, R!App, Posts, Leaves, Responds, Choosing
<1>3. Leaves(a, R!CancelRequest(a))
  BY DEF R!CancelRequest, R!ResetState, R!App, Leaves
<1>4. ASSUME a.inbox # <<>> PROVE Reads(a, R!HandleStatus(a))
  <2> DEFINE msg == Head(a.inbox)
             b   == [a EXCEPT !.inbox = Tail(@)]
  <2>1. a.inbox \in Seq(R!Message)
    BY DEF R!App
  <2>2. msg \in R!Message /\ Tail(a.inbox) \in Seq(R!Message)
    BY <1>4, <2>1
  <2>3. msg.status \in R!Statuses
    BY <2>2 DEF R!Message
  <2>4. R!HandleStatus(a) =
           CASE msg.status = "matching"   -> [b EXCEPT !.state = "searching"]
             [] msg.status = "matched"    -> [b EXCEPT !.state = "matched", !.shown = msg.request,
                                                       !.matchedDriver = msg.driver]
             [] msg.status = "no_drivers" -> R!ResetState(b)
             [] OTHER                     -> b
    BY DEF R!HandleStatus
  <2>5. /\ b \in R!App /\ b.inbox = Tail(a.inbox) /\ b.posting = a.posting
        /\ b.abandoned = a.abandoned /\ b.state = a.state /\ b.shown = a.shown
        /\ b.matchedDriver = a.matchedDriver
    BY <2>2 DEF R!App
  <2> HIDE DEF b
  <2>6. CASE msg.status = "matching"
    BY <1>4, <2>4, <2>5, <2>6 DEF R!App, Reads
  <2>7. CASE msg.status = "matched"
    BY <1>4, <2>4, <2>5, <2>7 DEF R!App, Reads
  <2>8. CASE msg.status = "no_drivers"
    BY <1>4, <2>4, <2>5, <2>8 DEF R!App, R!ResetState, Reads
  <2>9. CASE msg.status = "driver_declined"
    BY <1>4, <2>4, <2>5, <2>9 DEF Reads
  <2> QED BY <2>3, <2>6, <2>7, <2>8, <2>9 DEF R!Statuses
<1> QED BY <1>1, <1>2, <1>3, <1>4

\* A handler of the page ran.
RiderPageMoves ==
    /\ "rider" \in played
    /\ UNCHANGED <<vars, played, driverApp>>
    /\ \/ Books(riderApp, riderApp') \/ Leaves(riderApp, riderApp') \/ Reads(riderApp, riderApp')
       \/ \E r \in Request : /\ requestStatus[r] = "NONE" /\ r \notin riderApp.posting
                             /\ Posts(riderApp, riderApp', r)
       \/ \E r \in Request : requestStatus[r] # "NONE" /\ Responds(riderApp, riderApp', r)

\* The backend went on with a request, and may have said so.
RiderWaits(r) ==
    /\ Progresses(r)
    /\ \/ UNCHANGED riderApp
       \/ TellRider(r, "driver_declined", None)
       \/ TellRider(r, "matching", None) /\ r \in pendingRequests'

RiderRefused(r, c)    == NotifyNoDrivers(r, c) /\ TellRider(r, "no_drivers", None)
RiderMatched(r, d, n) == NotifyMatched(r, d, n) /\ TellRider(r, "matched", d)

RequestCreated(r) ==
    /\ CreateRideRequest(r)
    /\ "rider" \in played => r \in riderApp.posting
    /\ UNCHANGED riderApp

RiderUntouched ==
    UNCHANGED <<requestStatus, trip, entry, search, answers, offers, riderStatus, riderApp>>

\* The steps of the rider's page, by what they do to it.
LEMMA RiderMoves ==
  ASSUME AppsTypeOK, RiderEnd, "rider" \in played
  PROVE  RiderPageMoves \/ \E r \in Request : RequestCreated(r) /\ UNCHANGED played
<1>1. riderApp \in R!App
  BY DEF AppsTypeOK
<1>2. ASSUME NEW b, RiderRuns(b)
      PROVE  UNCHANGED <<vars, played, driverApp>> /\ riderApp' = b
  BY <1>2 DEF RiderRuns
<1>3. CASE RiderClicks
  <2>1. \/ \E b : RiderRuns(b) /\ (Books(riderApp, b) \/ Leaves(riderApp, b))
        \/ \E b : HasFreshRequest /\ RiderRuns(b) /\ Posts(riderApp, b, FreshRequest)
    <3>1. HasFreshRequest => FreshRequest \in Request
      BY FreshFacts
    <3> QED BY <1>1, <1>3, <3>1, RiderHandlerEffects DEF RiderClicks
  <2> QED BY <1>2, <2>1, FreshFacts DEF RiderPageMoves
<1>4. ASSUME NEW r \in Request, HandleRequest(r) PROVE RequestCreated(r) /\ UNCHANGED played
  BY <1>4 DEF HandleRequest, Unseen, Waits, RequestCreated
<1>5. ASSUME NEW r \in Request, RequestReturns(r) PROVE RiderPageMoves
  BY <1>1, <1>2, <1>5, RiderHandlerEffects DEF RequestReturns, RiderPageMoves
<1>6. CASE StatusArrives
  BY <1>1, <1>2, <1>6, RiderHandlerEffects DEF StatusArrives, RiderPageMoves
<1> QED BY <1>3, <1>4, <1>5, <1>6 DEF RiderEnd

\* What the handlers of the backend tell the rider ...
LEMMA BackendTellsRider ==
  ASSUME NEW r \in Request, Backend(r)
  PROVE  /\ UNCHANGED played
         /\ \/ RiderWaits(r)
            \/ \E c \in Cause : RiderRefused(r, c)
            \/ \E d \in Driver, n \in AnswerIndex : RiderMatched(r, d, n)
<1> USE DEF Unseen, Tell, Waits
<1>1. CASE StartMatching(r) /\ Unseen
  BY <1>1 DEF RiderWaits, Progresses
<1>2. CASE TimeOut(r)
  <2>1. TimeoutFires(r) /\ UNCHANGED <<played, pendingRequests>>
    BY <1>2 DEF TimeOut, TimeoutFires
  <2>2. UNCHANGED riderApp \/ (TellRider(r, "matching", None) /\ r \in pendingRequests)
    BY <1>2 DEF TimeOut
  <2> QED BY <2>1, <2>2 DEF RiderWaits, Progresses
<1>3. ASSUME NEW c \in Cause, Search(r, c)
      PROVE  UNCHANGED played /\ (RiderWaits(r) \/ RiderRefused(r, c))
  BY <1>3 DEF Search, SendOffer, GiveUp, RiderWaits, Progresses, RiderRefused
<1>4. ASSUME NEW d \in Driver, NEW n \in AnswerIndex, Accept(r, d, n)
      PROVE  UNCHANGED played /\ (RiderWaits(r) \/ RiderMatched(r, d, n))
  BY <1>4 DEF Accept, AnnounceMatch, RiderWaits, Progresses, RiderMatched
<1> QED BY <1>1, <1>2, <1>3, <1>4 DEF Backend

\* ... and those of the driver's end.
LEMMA DriverEndTellsRider ==
  ASSUME AppsTypeOK, NEW d \in Driver, DriverEnd(d) \/ AnyDriver(d) \/ LinkOpens(d)
  PROVE  UNCHANGED played /\ (RiderUntouched \/ \E r \in Request : RiderWaits(r))
<1> USE DEF Unseen, Tell, Waits, vars, db, clients
<1>1. CASE \/ OfferArrives(d) \/ CountdownTicks(d) \/ DriverClicks(d) \/ ReadProfile(d)
           \/ WriteStatus(d) \/ ResponseArrives(d) \/ LinkBreaks(d) \/ LinkOpens(d)
  BY <1>1 DEF OfferArrives, CountdownTicks, DriverClicks, ReadProfile, WriteStatus,
     ResponseArrives, LinkBreaks, LinkOpens, DriverRuns, UpdateDriverStatus, DriverConnects,
     DriverDisconnects, RiderUntouched
<1>2. CASE AnswerArrives(d)
  <2> DEFINE r == Head(driverApp[d].outbox).request
  <2>1. r \in Request
    <3>1. driverApp[d].outbox \in Seq(D!Message) /\ driverApp[d].outbox # <<>>
      BY <1>2 DEF AnswerArrives, AppsTypeOK, D!App
    <3>2. Head(driverApp[d].outbox) \in D!Message
      BY <3>1
    <3> QED BY <3>2 DEF D!Message
  <2> QED BY <1>2, <2>1 DEF AnswerArrives, RiderWaits, Progresses, Answer
<1>3. CASE AnyDriver(d)
  <2>1. 1 \in AnswerIndex
    BY DispatchAssumption DEF AnswerIndex
  <2> QED BY <1>3, <2>1 DEF AnyDriver, DriverDisconnects, UpdateDriverStatus, RiderUntouched,
             RiderWaits, Progresses, Answer
<1> QED BY <1>1, <1>2, <1>3 DEF DriverEnd

\* Every step, as the rider's end sees it.
LEMMA RiderSees ==
  ASSUME AppsTypeOK, AppsNext
  PROVE  \/ RiderPageMoves
         \/ /\ UNCHANGED played
            /\ \/ RiderUntouched
               \/ \E r \in Request : RiderWaits(r) \/ RequestCreated(r)
               \/ \E r \in Request, c \in Cause : RiderRefused(r, c)
               \/ \E r \in Request, d \in Driver, n \in AnswerIndex : RiderMatched(r, d, n)
<1>1. CASE "rider" \notin played /\ AnyRider
  <2>1. RequestCreated(FreshRequest) /\ UNCHANGED played /\ FreshRequest \in Request
    BY <1>1, FreshFacts DEF AnyRider, RequestCreated, Unseen, Waits
  <2> QED BY <2>1
<1> QED
  BY <1>1, BackendTellsRider, DriverEndTellsRider, RiderMoves DEF AppsNext

-----------------------------------------------------------------------------
(***************************************************************************)
(* Messages, on their way and read.                                        *)
(***************************************************************************)
Gets(a, b, r, status, d) ==
    /\ b.inbox = Append(a.inbox, [request |-> r, status |-> status, driver |-> d])
    /\ b.state = a.state /\ b.posting = a.posting /\ b.abandoned = a.abandoned
    /\ b.shown = a.shown /\ b.matchedDriver = a.matchedDriver

\* A rider without a page is told nothing.
LEMMA Told ==
  ASSUME AppsTypeOK, NEW r, NEW status, NEW d, TellRider(r, status, d)
  PROVE  UNCHANGED riderApp \/ ("rider" \in played /\ Gets(riderApp, riderApp', r, status, d))
<1>1. riderApp \in R!App
  BY DEF AppsTypeOK
<1>2. Gets(riderApp, R!Deliver(riderApp, r, status, d), r, status, d)
  BY <1>1 DEF Gets, R!Deliver, R!App
<1> QED BY <1>2 DEF TellRider

\* The new message is the last one.
LEMMA MessageAdded ==
  ASSUME NEW a \in R!App, NEW b, NEW r \in Request, NEW status \in R!Statuses, NEW d \in Cause,
         Gets(a, b, r, status, d)
  PROVE  /\ Len(a.inbox) \in Nat /\ Len(b.inbox) = Len(a.inbox) + 1
         /\ b.inbox[Len(a.inbox) + 1] = [request |-> r, status |-> status, driver |-> d]
         /\ \A i \in 1 .. Len(a.inbox) : b.inbox[i] = a.inbox[i] /\ i \in 1 .. Len(b.inbox)
         /\ \A i \in 1 .. Len(b.inbox) : i \in 1 .. Len(a.inbox) \/ i = Len(a.inbox) + 1
<1>1. [request |-> r, status |-> status, driver |-> d] \in R!Message
  BY DEF R!Message, Cause
<1>2. a.inbox \in Seq(R!Message)
  BY DEF R!App
<1> QED BY <1>1, <1>2, OneMore DEF Gets

\* The message read is the first one.
LEMMA MessageTaken ==
  ASSUME NEW a \in R!App, NEW b, Reads(a, b)
  PROVE  /\ Head(a.inbox) = a.inbox[1] /\ 1 \in 1 .. Len(a.inbox)
         /\ a.inbox[1] \in R!Message /\ Len(a.inbox) \in Nat
         /\ Len(b.inbox) = Len(a.inbox) - 1
         /\ \A i \in 1 .. Len(b.inbox) : b.inbox[i] = a.inbox[i + 1] /\ i + 1 \in 1 .. Len(a.inbox)
         /\ \A i \in 1 .. Len(a.inbox) : i # 1 =>
               i - 1 \in 1 .. Len(b.inbox) /\ a.inbox[i] = b.inbox[i - 1]
<1>1. a.inbox \in Seq(R!Message) /\ a.inbox # <<>> /\ b.inbox = Tail(a.inbox)
  BY DEF R!App, Reads
<1>2. Head(a.inbox) \in R!Message
  BY <1>1
<1> QED BY <1>1, <1>2, FirstAndRest

-----------------------------------------------------------------------------
(***************************************************************************)
(* The match on the screen.                                                *)
(***************************************************************************)

\* handleDriverAccept tells the rider of the trip that it made.
NotifyKnows == \A r \in Request, d \in Driver, n \in AnswerIndex :
    answers[r][d][n] = "notify" => trip[r] = d

\* The trip is there before notifyMatched runs, and stays.
LEMMA NotifyKnowsStep ==
  ASSUME TypeOK, NotifyKnows, [Next]_vars
  PROVE  NotifyKnows'
<1> USE DEF db, entry, clients
<1> SUFFICES ASSUME NEW q \in Request, NEW e \in Driver, NEW m \in AnswerIndex,
                    answers'[q][e][m] = "notify"
             PROVE  trip'[q] = e
  BY DEF NotifyKnows
<1>1. CASE answers[q][e][m] = "notify"
  BY <1>1, TripStays, DispatchAssumption DEF NotifyKnows
<1>2. CASE \E r \in Request, d \in Driver, n \in AnswerIndex : CreateTrip(r, d, n)
  <2>1. PICK r \in Request, d \in Driver, n \in AnswerIndex : CreateTrip(r, d, n)
    BY <1>2
  <2>2. CASE r = q /\ d = e /\ n = m
    BY <2>1, <2>2 DEF CreateTrip, TypeOK
  <2>3. CASE ~ (r = q /\ d = e /\ n = m)
    <3>1. answers'[q][e][m] = answers[q][e][m]
      BY <2>1, <2>3, AnswerAfter DEF CreateTrip
    <3> QED BY <1>1, <3>1
  <2> QED BY <2>2, <2>3
<1>3. CASE \E r \in Request, d \in Driver, n \in AnswerIndex, stage \in {"busy", "match", "create", "done"} :
              AnswerGoesTo(r, d, n, stage)
  <2>1. answers'[q][e][m] = answers[q][e][m]
    BY <1>3, AnswerAfter
  <2> QED BY <1>1, <2>1
<1>4. CASE UNCHANGED answers \/ ServerRestarts
  BY <1>1, <1>4 DEF ServerRestarts, Accepting, AcceptStages
<1>5. CASE UNCHANGED vars
  BY <1>4, <1>5 DEF vars
<1>6. ASSUME NEW r \in Request, NEW c \in Cause, SearchFails(r, c) \/ ExpireFails(r, c)
      PROVE  UNCHANGED answers \/ ServerRestarts
  BY <1>6 DEF SearchFails, ExpireFails, SearchThrows
<1>7. ASSUME NEW r \in Request, NEW c \in Cause, SearchStep(r, c) PROVE UNCHANGED answers
  BY <1>7 DEF SearchStep, FindAvailable, OfferSent, OfferUnsent, OfferAbandoned, NoCandidate,
     MarkExpired, NotifyNoDrivers
<1>8. ASSUME NEW r \in Request, NEW d \in Driver, NEW n \in AnswerIndex,
             Answer(r, d, n) \/ AcceptStep(r, d, n) \/ AcceptFails(r, d, n), ~ CreateTrip(r, d, n)
      PROVE  \E stage \in {"busy", "match", "create", "done"} : AnswerGoesTo(r, d, n, stage)
  BY <1>8 DEF Answer, AcceptStep, AcceptFails, DriverAccept, DriverDecline, AnswerIgnored,
     SetDriverBusy, MarkMatched, CreateTripRejected, NotifyMatched, NotifyFails
<1>9. ASSUME NEW r \in Request,
             \/ StartMatching(r) \/ TimeoutFires(r) \/ CancelStep(r)
             \/ CreateRideRequest(r) \/ CancelRead(r) \/ CancelFails(r)
      PROVE  UNCHANGED answers
  BY <1>9 DEF StartMatching, TimeoutFires, CancelStep, CancelUnlist, CancelWrite,
     CreateRideRequest, CancelRead, CancelFails
<1>10. CASE \/ \E d \in Driver : DriverConnects(d) \/ DriverDisconnects(d)
            \/ \E d \in Driver, status \in StatusWrites : UpdateDriverStatus(d, status)
            \/ Crash
  BY <1>4, <1>10 DEF DriverConnects, DriverDisconnects, UpdateDriverStatus, Crash
<1> QED
  BY <1>2, <1>3, <1>4, <1>5, <1>6, <1>7, <1>8, <1>9, <1>10 DEF Next, Environment, Failure

\* What the page shows, and what it is going to.
MatchInv ==
    /\ NotifyKnows
    /\ MatchedScreenHasTrip
    /\ riderApp.state = "matched" => riderApp.shown \in Request /\ riderApp.matchedDriver \in Driver
    /\ \A i \in 1 .. Len(riderApp.inbox) :
          riderApp.inbox[i].status = "matched" => riderApp.inbox[i].driver \in Driver

\* Whatever comes next keeps the invariant of matches.
LEMMA MatchStep == AppsTypeOK /\ MatchInv /\ [AppsNext]_allVars => MatchInv'
<1> SUFFICES ASSUME AppsTypeOK, MatchInv, [AppsNext]_allVars PROVE MatchInv'
  OBVIOUS
<1>1. /\ TypeOK /\ riderApp \in R!App /\ [Next]_vars
      /\ \A i \in 1 .. Len(riderApp.inbox) : riderApp.inbox[i].request \in Request
  <2>1. riderApp.inbox \in Seq(R!Message)
    BY DEF AppsTypeOK, R!App
  <2>2. \A i \in 1 .. Len(riderApp.inbox) : riderApp.inbox[i] \in R!Message
    BY <2>1
  <2>3. \A i \in 1 .. Len(riderApp.inbox) : riderApp.inbox[i].request \in Request
    BY <2>2 DEF R!Message
  <2> QED BY <2>3, AppsStepDispatches DEF AppsTypeOK
<1>2. NotifyKnows' /\ \A r \in Request : trip[r] # None => trip'[r] = trip[r]
  BY <1>1, NotifyKnowsStep, TripStays DEF MatchInv
<1>3. ASSUME UNCHANGED riderApp PROVE MatchInv'
  BY <1>1, <1>2, <1>3, DispatchAssumption DEF MatchInv, MatchedScreenHasTrip
<1>4. ASSUME NEW r \in Request, NEW status \in R!Statuses, NEW d \in Cause,
             Gets(riderApp, riderApp', r, status, d),
             status = "matched" => d \in Driver /\ trip[r] = d
      PROVE  MatchInv'
  <2>0. riderApp \in R!App
    BY <1>1
  <2>1. /\ Len(riderApp.inbox) \in Nat
        /\ riderApp'.inbox[Len(riderApp.inbox) + 1] = [request |-> r, status |-> status, driver |-> d]
        /\ \A i \in 1 .. Len(riderApp.inbox) : riderApp'.inbox[i] = riderApp.inbox[i]
        /\ \A i \in 1 .. Len(riderApp'.inbox) :
              i \in 1 .. Len(riderApp.inbox) \/ i = Len(riderApp.inbox) + 1
    BY <1>4, <2>0, MessageAdded
  <2>2. ASSUME NEW i \in 1 .. Len(riderApp'.inbox), riderApp'.inbox[i].status = "matched"
        PROVE  /\ riderApp'.inbox[i].driver \in Driver
               /\ trip'[riderApp'.inbox[i].request] = riderApp'.inbox[i].driver
    <3>1. CASE i \in 1 .. Len(riderApp.inbox)
      <4>1. riderApp'.inbox[i] = riderApp.inbox[i] /\ riderApp.inbox[i].request \in Request
        BY <1>1, <2>1, <3>1
      <4>2. /\ trip[riderApp.inbox[i].request] = riderApp.inbox[i].driver
            /\ riderApp.inbox[i].driver \in Driver
        BY <2>2, <3>1, <4>1 DEF MatchInv, MatchedScreenHasTrip
      <4> QED BY <1>2, <4>1, <4>2, DispatchAssumption
    <3>2. CASE i = Len(riderApp.inbox) + 1
      BY <1>2, <1>4, <2>1, <2>2, <3>2, DispatchAssumption
    <3> QED BY <2>1, <3>1, <3>2
  <2>3. /\ riderApp'.state = riderApp.state /\ riderApp'.shown = riderApp.shown
        /\ riderApp'.matchedDriver = riderApp.matchedDriver
    BY <1>4 DEF Gets
  <2> QED BY <1>2, <2>2, <2>3, DispatchAssumption DEF MatchInv, MatchedScreenHasTrip
<1>5. CASE RiderPageMoves
  <2>1. UNCHANGED trip
    BY <1>5 DEF RiderPageMoves, vars, db
  <2>2. CASE Reads(riderApp, riderApp')
    <3>1. /\ Head(riderApp.inbox) = riderApp.inbox[1] /\ 1 \in 1 .. Len(riderApp.inbox)
          /\ \A i \in 1 .. Len(riderApp'.inbox) :
                riderApp'.inbox[i] = riderApp.inbox[i + 1] /\ i + 1 \in 1 .. Len(riderApp.inbox)
      BY <1>1, <2>2, MessageTaken
    <3>2. \A i \in 1 .. Len(riderApp'.inbox) : riderApp'.inbox[i].status = "matched" =>
             /\ riderApp'.inbox[i].driver \in Driver
             /\ trip'[riderApp'.inbox[i].request] = riderApp'.inbox[i].driver
      BY <2>1, <3>1 DEF MatchInv, MatchedScreenHasTrip
    <3>3. riderApp'.state = "matched" => /\ riderApp'.shown \in Request
                                         /\ riderApp'.matchedDriver \in Driver
                                         /\ trip'[riderApp'.shown] = riderApp'.matchedDriver
      BY <1>1, <2>1, <2>2, <3>1 DEF Reads, MatchInv, MatchedScreenHasTrip
    <3> QED BY <1>2, <3>2, <3>3 DEF MatchInv, MatchedScreenHasTrip
  <2>3. CASE ~ Reads(riderApp, riderApp')
    <3>1. /\ riderApp'.inbox = riderApp.inbox
          /\ riderApp'.state = "matched" =>
                /\ riderApp.state = "matched" /\ riderApp'.shown = riderApp.shown
                /\ riderApp'.matchedDriver = riderApp.matchedDriver
      BY <1>5, <2>3 DEF RiderPageMoves, Books, Posts, Leaves, Responds, Choosing
    <3> QED BY <1>2, <2>1, <3>1 DEF MatchInv, MatchedScreenHasTrip
  <2> QED BY <2>2, <2>3
<1>6. ASSUME NEW r \in Request, RiderWaits(r) PROVE MatchInv'
  BY <1>3, <1>4, <1>6, Told DEF RiderWaits, R!Statuses, Cause
<1>7. ASSUME NEW r \in Request, NEW c \in Cause, RiderRefused(r, c) PROVE MatchInv'
  BY <1>3, <1>4, <1>7, Told DEF RiderRefused, R!Statuses, Cause
<1>8. ASSUME NEW r \in Request, NEW d \in Driver, NEW n \in AnswerIndex, RiderMatched(r, d, n)
      PROVE  MatchInv'
  <2>1. trip[r] = d
    BY <1>8 DEF RiderMatched, NotifyMatched, MatchInv, NotifyKnows
  <2> QED BY <1>3, <1>4, <1>8, <2>1, Told DEF RiderMatched, R!Statuses, Cause
<1>9. CASE UNCHANGED allVars
  BY <1>3, <1>9 DEF allVars, apps
<1> QED
  BY <1>3, <1>5, <1>6, <1>7, <1>8, <1>9, RiderSees DEF RiderUntouched, RequestCreated

\* The driver on the rider's screen has the trip of the request shown, however
\* many requests the rider made and left, and whatever the drivers' pages do
\* (rides.service.ts:202-211, rider-dashboard.component.ts:312).
THEOREM MatchesAreMade == AppsSpec => []MatchedScreenHasTrip
<1>1. AppsInit => MatchInv
  <2> SUFFICES ASSUME AppsInit PROVE MatchInv
    OBVIOUS
  <2>1. riderApp.inbox = <<>> /\ riderApp.state = "idle"
    BY DEF AppsInit, R!Opened
  <2>2. \A r \in Request, d \in Driver, n \in AnswerIndex : answers[r][d][n] = "unsent"
    BY DEF AppsInit, Init
  <2> QED BY <2>1, <2>2 DEF MatchInv, NotifyKnows, MatchedScreenHasTrip
<1>2. MatchInv => MatchedScreenHasTrip
  BY DEF MatchInv
<1> QED BY <1>1, <1>2, MatchStep, AppsTypeCorrect, PTL DEF AppsSpec

-----------------------------------------------------------------------------
(***************************************************************************)
(* One search of a rider that stays with it.                               *)
(***************************************************************************)
WorkedOn(r) == r \in pendingRequests \/ Searching(r)

\* A step that leaves a request alone leaves its work alone.
LEMMA SameWork ==
  ASSUME NEW q \in Request, SameRequest(q)
  PROVE  WorkedOn(q)' <=> WorkedOn(q)
  BY DEF SameRequest, WorkedOn, Searching, Stage

\* No handler takes up a request that was let go.
LEMMA NothingReopens ==
  ASSUME OneSearchInv, NEW r \in Request, NEW q \in Request, Progresses(r)
  PROVE  /\ WorkedOn(q)' => WorkedOn(q)
         /\ requestStatus[q] # "NONE" => requestStatus'[q] # "NONE"
<1> USE DEF db, entry, clients
<1>1. TypeOK
  BY DEF OneSearchInv
<1>2. CASE q # r
  <2>1. SameRequest(q)
    BY <1>1, <1>2, OtherRequestsSame DEF Progresses, SearchStep, AcceptStep
  <2> QED BY <2>1, SameWork DEF SameRequest
<1>3. CASE q = r
  <2>1. CASE \E c \in Cause : Stage(r, c) # "idle"
    <3>1. requestStatus[r] # "NONE" /\ WorkedOn(r)
      BY <2>1 DEF OneSearchInv, ChainInv, FreshInv, Searching, WorkedOn
    <3>2. requestStatus'[r] \in {requestStatus[r], "EXPIRED", "MATCHED"}
      BY <1>1 DEF Progresses, StartMatching, TimeoutFires, FindAvailable, OfferAbandoned,
         NoCandidate, MarkExpired, OfferSent, OfferUnsent, Answer, DriverAccept, DriverDecline,
         AnswerIgnored, SetDriverBusy, MarkMatched, CreateTrip, CreateTripRejected, NotifyFails,
         TypeOK
    <3> QED BY <1>3, <3>1, <3>2
  <2>2. CASE ~ \E c \in Cause : Stage(r, c) # "idle"
    <3>1. \/ TimeoutFires(r)
          \/ \E d \in Driver, n \in AnswerIndex :
                \/ Answer(r, d, n) \/ SetDriverBusy(r, d, n) \/ MarkMatched(r, d, n)
                \/ CreateTrip(r, d, n) \/ CreateTripRejected(r, d, n) \/ NotifyFails(r, d, n)
      BY <2>2 DEF Progresses, StartMatching, FindAvailable, OfferAbandoned, NoCandidate,
         MarkExpired, OfferSent, OfferUnsent, Cause
    <3>2. r \in pendingRequests \/ UNCHANGED <<pendingRequests, search>>
      BY <3>1 DEF TimeoutFires, Answer, DriverAccept, DriverDecline, IsCurrent, AnswerIgnored,
         SetDriverBusy, MarkMatched, CreateTrip, CreateTripRejected, NotifyFails
    <3>3. requestStatus'[r] \in {requestStatus[r], "MATCHED"}
      BY <1>1, <3>1 DEF TimeoutFires, Answer, DriverAccept, DriverDecline, AnswerIgnored,
         SetDriverBusy, MarkMatched, CreateTrip, CreateTripRejected, NotifyFails, TypeOK
    <3> QED BY <1>3, <3>2, <3>3 DEF WorkedOn, Searching, Stage
  <2> QED BY <2>1, <2>2
<1> QED BY <1>2, <1>3

\* The last words of the backend on a request.
LEMMA LastWords ==
  ASSUME OneSearchInv, NEW r \in Request, NEW q \in Request
  PROVE  /\ \A c \in Cause : NotifyNoDrivers(r, c) =>
               /\ WorkedOn(r) /\ requestStatus[r] # "NONE" /\ UNCHANGED requestStatus
               /\ r \notin pendingRequests' /\ ~ Searching(r)'
               /\ q # r => (WorkedOn(q)' <=> WorkedOn(q))
         /\ \A d \in Driver, n \in AnswerIndex : NotifyMatched(r, d, n) =>
               /\ UNCHANGED requestStatus
               /\ WorkedOn(q)' => WorkedOn(q)
               /\ q # r => (WorkedOn(q)' <=> WorkedOn(q))
<1> USE DEF db, entry, clients
<1>1. TypeOK
  BY DEF OneSearchInv
<1>2. ASSUME NEW c \in Cause, NotifyNoDrivers(r, c)
      PROVE  /\ WorkedOn(r) /\ requestStatus[r] # "NONE" /\ UNCHANGED requestStatus
             /\ r \notin pendingRequests' /\ ~ Searching(r)'
             /\ q # r => (WorkedOn(q)' <=> WorkedOn(q))
  <2>1. Stage(r, c) # "idle" /\ r \notin pendingRequests' /\ UNCHANGED requestStatus
    BY <1>2 DEF NotifyNoDrivers, Unlist
  <2>2. Searching(r) /\ requestStatus[r] # "NONE" /\ \A k \in Cause : k # c => Stage(r, k) = "idle"
    BY <2>1 DEF OneSearchInv, ChainInv, FreshInv, SearchInv, Searching
  <2>3. \A k \in Cause : Stage(r, k)' = "idle"
    BY <1>1, <1>2, <2>2, StageAfter DEF NotifyNoDrivers
  <2>4. q # r => SameRequest(q)
    BY <1>1, <1>2, OtherRequestsSame DEF SearchStep
  <2> QED BY <2>1, <2>2, <2>3, <2>4, SameWork DEF WorkedOn, Searching
<1>3. ASSUME NEW d \in Driver, NEW n \in AnswerIndex, NotifyMatched(r, d, n)
      PROVE  /\ UNCHANGED requestStatus
             /\ WorkedOn(q)' => WorkedOn(q)
             /\ q # r => (WorkedOn(q)' <=> WorkedOn(q))
  BY <1>3 DEF NotifyMatched, Unlist, WorkedOn, Searching, Stage
<1> QED BY <1>2, <1>3

\* The backend said, or is about to say, that it found nobody.
Refused(a, r) == \E i \in 1 .. Len(a.inbox) :
    a.inbox[i].request = r /\ a.inbox[i].status = "no_drivers"

RefusedOnce(a) == \A i, j \in 1 .. Len(a.inbox) :
    /\ a.inbox[i].status = "no_drivers" /\ a.inbox[j].status = "no_drivers"
    /\ a.inbox[i].request = a.inbox[j].request
    => i = j

\* A message of the backend adds a refusal only if it is no_drivers.
LEMMA RefusalAdded ==
  ASSUME NEW a \in R!App, NEW b, NEW r \in Request, NEW status \in R!Statuses, NEW d \in Cause,
         Gets(a, b, r, status, d)
  PROVE  /\ \A q : Refused(b, q) <=> (Refused(a, q) \/ (q = r /\ status = "no_drivers"))
         /\ RefusedOnce(a) /\ (status = "no_drivers" => ~ Refused(a, r)) => RefusedOnce(b)
<1>1. /\ Len(a.inbox) \in Nat /\ Len(b.inbox) = Len(a.inbox) + 1
      /\ b.inbox[Len(a.inbox) + 1] = [request |-> r, status |-> status, driver |-> d]
      /\ \A i \in 1 .. Len(a.inbox) : b.inbox[i] = a.inbox[i] /\ i \in 1 .. Len(b.inbox)
      /\ \A i \in 1 .. Len(b.inbox) : i \in 1 .. Len(a.inbox) \/ i = Len(a.inbox) + 1
  BY MessageAdded
<1>2. Len(a.inbox) + 1 \in 1 .. Len(b.inbox)
  BY <1>1
<1>3. /\ b.inbox[Len(a.inbox) + 1].request = r
      /\ b.inbox[Len(a.inbox) + 1].status = status
  BY <1>1
<1> QED BY <1>1, <1>2, <1>3 DEF Refused, RefusedOnce

\* Reading the refusal takes it off the inbox.
LEMMA RefusalTaken ==
  ASSUME NEW a \in R!App, NEW b, Reads(a, b)
  PROVE  /\ \A q : Refused(b, q) => Refused(a, q)
         /\ RefusedOnce(a) => RefusedOnce(b)
         /\ Head(a.inbox).status = "no_drivers" =>
               /\ Refused(a, Head(a.inbox).request) /\ Head(a.inbox).request \in Request
               /\ RefusedOnce(a) => ~ Refused(b, Head(a.inbox).request)
<1>1. /\ Head(a.inbox) = a.inbox[1] /\ 1 \in 1 .. Len(a.inbox)
      /\ a.inbox[1] \in R!Message /\ Len(a.inbox) \in Nat
      /\ Len(b.inbox) = Len(a.inbox) - 1
      /\ \A i \in 1 .. Len(b.inbox) : b.inbox[i] = a.inbox[i + 1] /\ i + 1 \in 1 .. Len(a.inbox)
  BY MessageTaken
<1>2. a.inbox[1].request \in Request
  BY <1>1 DEF R!Message
<1>3. RefusedOnce(a) => RefusedOnce(b)
  <2> SUFFICES ASSUME RefusedOnce(a), NEW i \in 1 .. Len(b.inbox), NEW j \in 1 .. Len(b.inbox),
                      b.inbox[i].status = "no_drivers", b.inbox[j].status = "no_drivers",
                      b.inbox[i].request = b.inbox[j].request
               PROVE  i = j
    BY DEF RefusedOnce
  <2>1. i + 1 = j + 1
    BY <1>1 DEF RefusedOnce
  <2> QED BY <2>1
<1>4. \A i \in 1 .. Len(b.inbox) : i + 1 # 1
  BY <1>1
<1> QED BY <1>1, <1>2, <1>3, <1>4 DEF Refused, RefusedOnce

\* The rider may yet hear of r: its POST has not arrived, the backend works on
\* it, or the refusal was not read.
Live(r) ==
    \/ r \in riderApp.posting /\ requestStatus[r] = "NONE"
    \/ WorkedOn(r)
    \/ Refused(riderApp, r)

OneBooking ==
    /\ riderApp.state \in Choosing => \A r \in Request : ~ Live(r)
    /\ \A r, q \in Request : Live(r) /\ Live(q) => r = q
    /\ \A r \in Request : Refused(riderApp, r) => requestStatus[r] # "NONE" /\ ~ WorkedOn(r)
    /\ RefusedOnce(riderApp)

OneBookingInv == "rider" \in played /\ ~ riderApp.abandoned => OneBooking

\* As long as nothing comes alive.
LEMMA BookingKept ==
  ASSUME OneBooking,
         \A q \in Request : Live(q)' => Live(q),
         riderApp'.state = riderApp.state
         \/ (riderApp'.state \in Choosing => riderApp.state \in Choosing \/ \A q \in Request : ~ Live(q)'),
         \A q \in Request : Refused(riderApp', q) => requestStatus'[q] # "NONE" /\ ~ WorkedOn(q)',
         RefusedOnce(riderApp')
  PROVE  OneBooking'
  BY DEF OneBooking

\* The rider's page keeps one live request at most.
LEMMA PageKeepsBooking ==
  ASSUME AppsTypeOK, OneBooking, RiderPageMoves, ~ riderApp'.abandoned
  PROVE  OneBooking'
<1>1. riderApp \in R!App
  BY DEF AppsTypeOK
<1>2. UNCHANGED <<requestStatus, pendingRequests, search>> /\ \A q : WorkedOn(q)' <=> WorkedOn(q)
  BY DEF RiderPageMoves, vars, db, entry, WorkedOn, Searching, Stage
<1>3. CASE Books(riderApp, riderApp')
  BY <1>2, <1>3, BookingKept DEF Books, Live, Refused, RefusedOnce, OneBooking
<1>4. CASE Leaves(riderApp, riderApp')
  BY <1>4 DEF Leaves
<1>5. ASSUME NEW r \in Request, requestStatus[r] = "NONE", Posts(riderApp, riderApp', r)
      PROVE  OneBooking'
  <2>1. /\ riderApp.state \in Choosing /\ riderApp'.state \notin Choosing
        /\ riderApp'.inbox = riderApp.inbox /\ riderApp'.posting = riderApp.posting \cup {r}
    BY <1>5 DEF Posts, Choosing
  <2>2. \A q \in Request : ~ Live(q)
    BY <2>1 DEF OneBooking
  <2>3. \A q \in Request : Refused(riderApp', q) <=> Refused(riderApp, q)
    BY <2>1 DEF Refused
  <2>4. \A q \in Request : Live(q)' => q = r
    BY <1>2, <2>1, <2>2, <2>3 DEF Live
  <2>5. RefusedOnce(riderApp')
    BY <2>1 DEF OneBooking, RefusedOnce
  <2> QED BY <1>2, <2>1, <2>3, <2>4, <2>5 DEF OneBooking
<1>6. ASSUME NEW r \in Request, requestStatus[r] # "NONE", Responds(riderApp, riderApp', r)
      PROVE  OneBooking'
  BY <1>2, <1>6, BookingKept DEF Responds, Live, Refused, RefusedOnce, OneBooking
<1>7. CASE Reads(riderApp, riderApp')
  <2> DEFINE m == Head(riderApp.inbox)
  <2>1. /\ \A q : Refused(riderApp', q) => Refused(riderApp, q)
        /\ RefusedOnce(riderApp')
        /\ m.status = "no_drivers" => /\ Refused(riderApp, m.request) /\ m.request \in Request
                                      /\ ~ Refused(riderApp', m.request)
    BY <1>1, <1>7, RefusalTaken DEF OneBooking
  <2>2. riderApp'.posting = riderApp.posting
    BY <1>7 DEF Reads
  <2>3. \A q \in Request : Live(q)' => Live(q)
    BY <1>2, <2>1, <2>2 DEF Live
  <2>4. ASSUME m.status = "no_drivers", NEW q \in Request PROVE ~ Live(q)'
    <3>1. PICK k \in Request : k = m.request
      BY <2>1, <2>4
    <3>2. Live(k) /\ requestStatus[k] # "NONE" /\ ~ WorkedOn(k)
      BY <2>1, <2>4, <3>1 DEF Live, OneBooking
    <3>3. ~ Live(k)'
      BY <1>2, <2>1, <2>4, <3>1, <3>2 DEF Live
    <3> QED BY <2>3, <3>2, <3>3 DEF OneBooking
  <2>5. riderApp'.state = riderApp.state
        \/ (riderApp'.state \in Choosing => \A q \in Request : ~ Live(q)')
    BY <1>7, <2>4 DEF Reads, Choosing
  <2>6. \A q \in Request : Refused(riderApp', q) => requestStatus'[q] # "NONE" /\ ~ WorkedOn(q)'
    BY <1>2, <2>1 DEF OneBooking
  <2> QED BY <2>1, <2>3, <2>5, <2>6, BookingKept
<1> QED BY <1>3, <1>4, <1>5, <1>6, <1>7 DEF RiderPageMoves

\* The backend lets a request go before or as it tells no_drivers or matched.
LEMMA BackendKeepsBooking ==
  ASSUME AppsTypeOK, OneSearchInv, OneBooking, NEW r \in Request,
         \/ RiderWaits(r)
         \/ \E c \in Cause : RiderRefused(r, c)
         \/ \E d \in Driver, n \in AnswerIndex : RiderMatched(r, d, n)
  PROVE  OneBooking'
<1>1. riderApp \in R!App
  BY DEF AppsTypeOK
<1>2. ASSUME UNCHANGED riderApp,
             \A q \in Request : /\ WorkedOn(q)' => WorkedOn(q)
                                /\ requestStatus[q] # "NONE" => requestStatus'[q] # "NONE"
      PROVE  OneBooking'
  BY <1>2, BookingKept DEF Live, OneBooking
<1>3. ASSUME NEW status \in R!Statuses \ {"no_drivers"}, NEW d \in Cause,
             Gets(riderApp, riderApp', r, status, d),
             \A q \in Request : /\ WorkedOn(q)' => WorkedOn(q)
                                /\ requestStatus[q] # "NONE" => requestStatus'[q] # "NONE"
      PROVE  OneBooking'
  <2>1. /\ \A q : Refused(riderApp', q) <=> Refused(riderApp, q)
        /\ RefusedOnce(riderApp')
    BY <1>1, <1>3, RefusalAdded DEF OneBooking
  <2>2. riderApp'.posting = riderApp.posting /\ riderApp'.state = riderApp.state
    BY <1>3 DEF Gets
  <2>3. \A q \in Request : Live(q)' => Live(q)
    BY <1>3, <2>1, <2>2 DEF Live
  <2>4. \A q \in Request : Refused(riderApp', q) => requestStatus'[q] # "NONE" /\ ~ WorkedOn(q)'
    BY <1>3, <2>1 DEF OneBooking
  <2> QED BY <2>1, <2>2, <2>3, <2>4, BookingKept
<1>4. CASE RiderWaits(r)
  BY <1>2, <1>3, <1>4, NothingReopens, Told DEF RiderWaits, R!Statuses, Cause
<1>5. ASSUME NEW d \in Driver, NEW n \in AnswerIndex, RiderMatched(r, d, n) PROVE OneBooking'
  BY <1>2, <1>3, <1>5, LastWords, Told DEF RiderMatched, R!Statuses, Cause
<1>6. ASSUME NEW c \in Cause, RiderRefused(r, c) PROVE OneBooking'
  <2>1. /\ WorkedOn(r) /\ requestStatus[r] # "NONE" /\ UNCHANGED requestStatus
        /\ ~ WorkedOn(r)'
        /\ \A q \in Request : q # r => (WorkedOn(q)' <=> WorkedOn(q))
    BY <1>6, LastWords DEF RiderRefused, WorkedOn
  <2>2. CASE UNCHANGED riderApp
    BY <1>2, <2>1, <2>2
  <2>3. CASE Gets(riderApp, riderApp', r, "no_drivers", None)
    <3>1. ~ Refused(riderApp, r)
      BY <2>1 DEF OneBooking
    <3>2. "no_drivers" \in R!Statuses /\ None \in Cause
      BY DEF R!Statuses, Cause
    <3>3. /\ \A q : Refused(riderApp', q) <=> (Refused(riderApp, q) \/ q = r)
          /\ RefusedOnce(riderApp')
      BY <1>1, <2>3, <3>1, <3>2, RefusalAdded DEF OneBooking
    <3>4. riderApp'.posting = riderApp.posting /\ riderApp'.state = riderApp.state
      BY <2>3 DEF Gets
    <3>5. \A q \in Request : Live(q)' => Live(q)
      BY <2>1, <3>3, <3>4 DEF Live
    <3>6. \A q \in Request : Refused(riderApp', q) => requestStatus'[q] # "NONE" /\ ~ WorkedOn(q)'
      BY <2>1, <3>3 DEF OneBooking
    <3> QED BY <3>3, <3>4, <3>5, <3>6, BookingKept
  <2> QED BY <1>6, <2>2, <2>3, Told DEF RiderRefused
<1> QED BY <1>4, <1>5, <1>6

\* Whatever comes next keeps one booking, until the rider gives a search up.
LEMMA BookingStep ==
  AppsTypeOK /\ OneSearchInv /\ OneBookingInv /\ [AppsNext]_allVars => OneBookingInv'
<1> SUFFICES ASSUME AppsTypeOK, OneSearchInv, OneBookingInv, [AppsNext]_allVars,
                    "rider" \in played', ~ riderApp'.abandoned
             PROVE  OneBooking'
  BY DEF OneBookingInv
<1>1. riderApp \in R!App /\ TypeOK
  BY DEF AppsTypeOK
<1>2. CASE UNCHANGED <<requestStatus, pendingRequests, search, riderApp, played>>
  BY <1>2 DEF OneBookingInv, OneBooking, Live, WorkedOn, Searching, Stage
<1>3. CASE RiderPageMoves
  <2>1. ~ riderApp.abandoned /\ "rider" \in played
    BY <1>3 DEF RiderPageMoves, Books, Posts, Leaves, Responds, Reads
  <2> QED BY <1>3, <2>1, PageKeepsBooking DEF OneBookingInv
<1>4. ASSUME UNCHANGED played, NEW r \in Request,
             \/ RiderWaits(r)
             \/ \E c \in Cause : RiderRefused(r, c)
             \/ \E d \in Driver, n \in AnswerIndex : RiderMatched(r, d, n)
      PROVE  OneBooking'
  <2>1. riderApp'.abandoned = riderApp.abandoned
    BY <1>4, Told DEF RiderWaits, RiderRefused, RiderMatched, Gets
  <2> QED BY <1>4, <2>1, BackendKeepsBooking DEF OneBookingInv
<1>5. ASSUME UNCHANGED played, NEW r \in Request, RequestCreated(r) PROVE OneBooking'
  <2>1. OneBooking /\ requestStatus[r] = "NONE" /\ Live(r) /\ UNCHANGED riderApp
    BY <1>5 DEF OneBookingInv, RequestCreated, CreateRideRequest, Live
  <2>2. /\ requestStatus'[r] # "NONE"
        /\ \A q \in Request : q # r => requestStatus'[q] = requestStatus[q]
                                         /\ (WorkedOn(q)' <=> WorkedOn(q))
    <3>1. CreateRideRequest(r)
      BY <1>5 DEF RequestCreated
    <3>2. \A q \in Request : q # r => SameRequest(q)
      BY <1>1, <3>1, OtherRequestsSame
    <3>3. requestStatus'[r] = "MATCHING"
      BY <1>1, <3>1 DEF CreateRideRequest, TypeOK
    <3> QED BY <3>2, <3>3, SameWork DEF SameRequest
  <2>3. \A q \in Request : Live(q)' => Live(q)
    BY <2>1, <2>2 DEF Live
  <2>4. \A q \in Request : Refused(riderApp', q) => requestStatus'[q] # "NONE" /\ ~ WorkedOn(q)'
    BY <2>1, <2>2 DEF OneBooking
  <2> QED BY <2>1, <2>3, <2>4, BookingKept DEF OneBooking
<1> QED
  BY <1>2, <1>3, <1>4, <1>5, RiderSees DEF RiderUntouched, entry, allVars, apps, vars, db

\* The page keeps a rider from having two searches at a time, which nothing in
\* the backend does, until the rider gives one up that the backend goes on with
\* (rides.service.ts:48, rider-dashboard.component.ts:456).
THEOREM StayingRidersSearchOnce == AppsSpec => []SecondSearchMeansAbandoned
<1>1. AppsInit => OneBookingInv
  <2> SUFFICES ASSUME AppsInit PROVE OneBooking
    BY DEF OneBookingInv
  <2>1. /\ riderApp.inbox = <<>> /\ riderApp.posting = {}
        /\ pendingRequests = {} /\ \A r \in Request, c \in Cause : Stage(r, c) = "idle"
    BY DEF AppsInit, Init, R!Opened, Stage, NoSearch
  <2>2. \A r \in Request : ~ Live(r) /\ ~ Refused(riderApp, r)
    BY <2>1 DEF Live, WorkedOn, Searching, Refused
  <2> QED BY <2>1, <2>2 DEF OneBooking, RefusedOnce
<1>2. AppsTypeOK /\ OneBookingInv => SecondSearchMeansAbandoned
  <2> SUFFICES ASSUME AppsTypeOK, OneBookingInv, "rider" \in played, ~ riderApp.abandoned
               PROVE  ~ (Cardinality(pendingRequests) > 1)
    BY DEF SecondSearchMeansAbandoned
  <2>1. \A r, q \in pendingRequests : r = q
    BY DEF OneBookingInv, OneBooking, Live, WorkedOn, AppsTypeOK, TypeOK
  <2>2. Cardinality(pendingRequests) \in {0, 1}
    BY <2>1, AtMostOne
  <2> QED BY <2>2
<1> QED
  BY <1>1, <1>2, BookingStep, DriverEndInvariance, PTL DEF AppsSpec, DriverEndInv

-----------------------------------------------------------------------------
(***************************************************************************)
(* The spinner.                                                            *)
(***************************************************************************)

\* A search of a request that is listed works for it; nobody cancels.
Listed(r) == Searching(r) => Stage(r, None) = "begin" \/ r \in pendingRequests

\* Until the last word, the work on a request goes on.
LEMMA WorkGoesOn ==
  ASSUME IInv, NEW r \in Request, NEW q \in Request, Progresses(r), Listed(q)
  PROVE  /\ WorkedOn(q) => WorkedOn(q)'
         /\ Listed(q)'
         /\ requestStatus[q] = "NONE" => requestStatus'[q] = "NONE"
<1> USE DEF db, entry, clients
<1>1. TypeOK /\ RequestInv(r)
  BY DEF IInv
<1>2. CASE q # r
  <2>1. SameRequest(q)
    BY <1>1, <1>2, OtherRequestsSame DEF Progresses, SearchStep, AcceptStep
  <2> QED BY <2>1, SameWork DEF SameRequest, Listed, Searching, Stage
<1>3. CASE q = r
  <2>1. ASSUME r \in pendingRequests', requestStatus'[r] = "NONE" \/ requestStatus[r] # "NONE"
        PROVE  /\ WorkedOn(q) => WorkedOn(q)'
               /\ Listed(q)'
               /\ requestStatus[q] = "NONE" => requestStatus'[q] = "NONE"
    BY <1>3, <2>1 DEF WorkedOn, Listed
  <2>2. CASE StartMatching(r)
    <3>1. requestStatus[r] # "NONE"
      BY <1>1, <2>2 DEF StartMatching, RequestInv, FreshInv, Searching, Cause
    <3> QED BY <2>1, <2>2, <3>1 DEF StartMatching
  <2>3. CASE TimeoutFires(r)
    <3>1. r \in pendingRequests /\ requestStatus[r] # "NONE"
      BY <1>1, <2>3 DEF TimeoutFires, RequestInv, TimerInv, FreshInv
    <3> QED BY <2>1, <2>3, <3>1 DEF TimeoutFires
  <2>4. ASSUME NEW c \in Cause,
               \/ FindAvailable(r, c) \/ OfferAbandoned(r, c) \/ NoCandidate(r, c) \/ MarkExpired(r, c)
               \/ \E d \in Driver : OfferSent(r, c, d) \/ OfferUnsent(r, c, d)
        PROVE  r \in pendingRequests' /\ requestStatus[r] # "NONE"
    <3>1. Stage(r, c) \in {"query", "rank", "expire"} /\ UNCHANGED pendingRequests
      BY <2>4 DEF FindAvailable, OfferAbandoned, NoCandidate, MarkExpired, OfferSent, OfferUnsent
    <3>2. Searching(r) /\ Stage(r, None) # "begin" /\ None \in Cause
      BY <1>1, <3>1 DEF Searching, RequestInv, SearchInv, Cause
    <3> QED BY <1>1, <1>3, <3>1, <3>2 DEF Listed, RequestInv, FreshInv
  <2>5. ASSUME NEW d \in Driver, NEW n \in AnswerIndex,
               \/ Answer(r, d, n) \/ SetDriverBusy(r, d, n) \/ MarkMatched(r, d, n)
               \/ CreateTrip(r, d, n) \/ CreateTripRejected(r, d, n) \/ NotifyFails(r, d, n)
        PROVE  /\ WorkedOn(q) => WorkedOn(q)'
               /\ Listed(q)'
               /\ requestStatus[q] = "NONE" => requestStatus'[q] = "NONE"
    <3>1. d \in offers[r] /\ requestStatus[r] # "NONE"
      <4>1. d \in offers[r] \/ answers[r][d][n] # "unsent"
        BY <2>5 DEF Answer, DriverAccept, DriverDecline, AnswerIgnored, NextAnswer, SetDriverBusy,
           MarkMatched, CreateTrip, CreateTripRejected, NotifyFails
      <4> QED BY <1>1, <4>1 DEF RequestInv, OfferInv, FreshInv
    <3>2. CASE DriverAccept(r, d, n) \/ DriverDecline(r, d, n)
      BY <2>1, <3>1, <3>2 DEF DriverAccept, DriverDecline, IsCurrent
    <3>3. CASE UNCHANGED <<pendingRequests, search>>
      BY <1>3, <3>1, <3>3 DEF WorkedOn, Listed, Searching, Stage
    <3> QED BY <2>5, <3>2, <3>3 DEF Answer, AnswerIgnored, SetDriverBusy, MarkMatched, CreateTrip,
               CreateTripRejected, NotifyFails
  <2> QED BY <2>1, <2>2, <2>3, <2>4, <2>5 DEF Progresses
<1> QED BY <1>2, <1>3

\* Who may end it, and begin it.
LEMMA OthersGoOn ==
  ASSUME IInv, NEW r \in Request, NEW q \in Request, Listed(q)
  PROVE  /\ \A c \in Cause : NotifyNoDrivers(r, c) => Listed(q)'
         /\ \A d \in Driver, n \in AnswerIndex : NotifyMatched(r, d, n) => Listed(q)'
         /\ CreateRideRequest(r) =>
               /\ Listed(q)' /\ WorkedOn(r)' /\ (WorkedOn(q) => WorkedOn(q)')
               /\ q # r => requestStatus'[q] = requestStatus[q]
<1>1. TypeOK /\ RequestInv(r) /\ RequestInv(q) /\ None \in Cause
  BY DEF IInv, Cause
<1>2. ASSUME NEW c \in Cause, NotifyNoDrivers(r, c) PROVE Listed(q)'
  <2>1. CASE q # r
    <3>1. SameRequest(q)
      BY <1>1, <1>2, <2>1, OtherRequestsSame DEF SearchStep
    <3> QED BY <3>1 DEF SameRequest, Listed, Searching, Stage
  <2>2. CASE q = r
    <3>1. \A k \in Cause : k # c => Stage(r, k) = "idle"
      BY <1>1, <1>2 DEF NotifyNoDrivers, RequestInv, SearchInv
    <3>2. \A k \in Cause : Stage(r, k)' = "idle"
      BY <1>1, <1>2, <3>1, StageAfter DEF NotifyNoDrivers
    <3> QED BY <2>2, <3>2 DEF Listed, Searching
  <2> QED BY <2>1, <2>2
<1>3. ASSUME NEW d \in Driver, NEW n \in AnswerIndex, NotifyMatched(r, d, n) PROVE Listed(q)'
  <2>1. CASE q # r
    BY <1>3, <2>1 DEF NotifyMatched, Unlist, Listed, Searching, Stage
  <2>2. CASE q = r
    <3>1. ~ Searching(r)
      BY <1>1, <1>3 DEF NotifyMatched, RequestInv, AcceptInv, Accepting, AcceptStages
    <3> QED BY <1>3, <2>2, <3>1 DEF NotifyMatched, Listed, Searching, Stage
  <2> QED BY <2>1, <2>2
<1>4. ASSUME CreateRideRequest(r)
      PROVE  /\ Listed(q)' /\ WorkedOn(r)' /\ (WorkedOn(q) => WorkedOn(q)')
             /\ q # r => requestStatus'[q] = requestStatus[q]
  <2>1. Stage(r, None)' = "begin"
    BY <1>1, <1>4, StageAfter DEF CreateRideRequest
  <2>2. WorkedOn(r)'
    BY <1>1, <2>1 DEF WorkedOn, Searching
  <2>3. CASE q # r
    <3>1. SameRequest(q)
      BY <1>1, <1>4, <2>3, OtherRequestsSame
    <3> QED BY <2>2, <3>1, SameWork DEF SameRequest, Listed, Searching, Stage
  <2> QED BY <2>1, <2>2, <2>3 DEF Listed
<1> QED BY <1>2, <1>3, <1>4

\* The word that stops the spinner is on its way, and comes after message i.
LastWord == {"matched", "no_drivers"}

Ended(a, r) == \E j \in 1 .. Len(a.inbox) :
    a.inbox[j].request = r /\ a.inbox[j].status \in LastWord

EndedLater(a, i) == \E j \in 1 .. Len(a.inbox) :
    j > i /\ a.inbox[j].request = a.inbox[i].request /\ a.inbox[j].status \in LastWord

\* A message does not take a last word away, and may be one.
LEMMA EndAdded ==
  ASSUME NEW a \in R!App, NEW b, NEW r \in Request, NEW status \in R!Statuses, NEW d \in Cause,
         Gets(a, b, r, status, d)
  PROVE  /\ \A q : Ended(a, q) => Ended(b, q)
         /\ status \in LastWord => Ended(b, r)
         /\ \A i \in 1 .. Len(a.inbox) :
               EndedLater(a, i) \/ (status \in LastWord /\ a.inbox[i].request = r) => EndedLater(b, i)
<1>1. /\ Len(a.inbox) \in Nat /\ Len(b.inbox) = Len(a.inbox) + 1
      /\ b.inbox[Len(a.inbox) + 1] = [request |-> r, status |-> status, driver |-> d]
      /\ \A i \in 1 .. Len(a.inbox) : b.inbox[i] = a.inbox[i] /\ i \in 1 .. Len(b.inbox)
  BY MessageAdded
<1>2. /\ Len(a.inbox) + 1 \in 1 .. Len(b.inbox)
      /\ \A i \in 1 .. Len(a.inbox) : Len(a.inbox) + 1 > i
  BY <1>1
<1>3. /\ b.inbox[Len(a.inbox) + 1].request = r
      /\ b.inbox[Len(a.inbox) + 1].status = status
  BY <1>1
<1> QED BY <1>1, <1>2, <1>3 DEF Ended, EndedLater

\* Reading a message that is no last word leaves the last words that follow.
LEMMA EndTaken ==
  ASSUME NEW a \in R!App, NEW b, Reads(a, b)
  PROVE  /\ a.inbox[1].status \notin LastWord => \A q : Ended(a, q) => Ended(b, q)
         /\ EndedLater(a, 1) => Ended(b, a.inbox[1].request)
         /\ \A i \in 1 .. Len(b.inbox) : EndedLater(a, i + 1) => EndedLater(b, i)
<1>1. /\ 1 \in 1 .. Len(a.inbox) /\ Len(a.inbox) \in Nat /\ Len(b.inbox) = Len(a.inbox) - 1
      /\ \A i \in 1 .. Len(b.inbox) : b.inbox[i] = a.inbox[i + 1] /\ i + 1 \in 1 .. Len(a.inbox)
      /\ \A i \in 1 .. Len(a.inbox) : i # 1 =>
            i - 1 \in 1 .. Len(b.inbox) /\ a.inbox[i] = b.inbox[i - 1]
  BY MessageTaken
<1>2. a.inbox[1].status \notin LastWord => \A q : Ended(a, q) => Ended(b, q)
  BY <1>1 DEF Ended
<1>3. \A j \in 1 .. Len(a.inbox) : j > 1 => j # 1
  BY <1>1
<1>4. EndedLater(a, 1) => Ended(b, a.inbox[1].request)
  BY <1>1, <1>3 DEF Ended, EndedLater
<1>5. ASSUME NEW i \in 1 .. Len(b.inbox), EndedLater(a, i + 1) PROVE EndedLater(b, i)
  <2>1. PICK j \in 1 .. Len(a.inbox) :
           j > i + 1 /\ a.inbox[j].request = a.inbox[i + 1].request /\ a.inbox[j].status \in LastWord
    BY <1>5 DEF EndedLater
  <2>2. j # 1 /\ j - 1 > i
    BY <1>1, <2>1
  <2> QED BY <1>1, <2>1, <2>2 DEF EndedLater
<1> QED BY <1>2, <1>4, <1>5

\* What keeps the spinner going for r, and what follows a "matching" that will
\* start it again.
Served(r) ==
    \/ r \in riderApp.posting /\ requestStatus[r] = "NONE"
    \/ WorkedOn(r)
    \/ Ended(riderApp, r)

SpinnerServed == riderApp.state = "searching" => \E r \in Request : Served(r)

MatchingServed == \A i \in 1 .. Len(riderApp.inbox) : riderApp.inbox[i].status = "matching" =>
    WorkedOn(riderApp.inbox[i].request) \/ EndedLater(riderApp, i)

NoRiderInv == "rider" \notin played => riderApp = R!Opened

SpinnerInv ==
    /\ SpinnerServed /\ MatchingServed /\ NoRiderInv
    /\ \A r \in Request : Driven(r) /\ Listed(r)

\* A handler of the backend and what it tells, if the work goes on or the last
\* word is said.
LEMMA SpinnerTold ==
  ASSUME AppsTypeOK, SpinnerServed, MatchingServed,
         NEW r \in Request, NEW status \in R!Statuses, NEW d \in Cause,
         Gets(riderApp, riderApp', r, status, d),
         \A q \in Request : WorkedOn(q) => WorkedOn(q)' \/ (q = r /\ status \in LastWord),
         \A q \in Request : requestStatus[q] = "NONE" => requestStatus'[q] = "NONE",
         status = "matching" => WorkedOn(r)'
  PROVE  SpinnerServed' /\ MatchingServed'
<1>1. riderApp \in R!App
  BY DEF AppsTypeOK
<1>2. /\ \A q : Ended(riderApp, q) => Ended(riderApp', q)
      /\ status \in LastWord => Ended(riderApp', r)
      /\ \A i \in 1 .. Len(riderApp.inbox) :
            EndedLater(riderApp, i) \/ (status \in LastWord /\ riderApp.inbox[i].request = r)
            => EndedLater(riderApp', i)
  BY <1>1, EndAdded
<1>3. /\ riderApp'.inbox[Len(riderApp.inbox) + 1] = [request |-> r, status |-> status, driver |-> d]
      /\ \A i \in 1 .. Len(riderApp.inbox) : riderApp'.inbox[i] = riderApp.inbox[i]
      /\ \A i \in 1 .. Len(riderApp'.inbox) :
            i \in 1 .. Len(riderApp.inbox) \/ i = Len(riderApp.inbox) + 1
  BY <1>1, MessageAdded
<1>4. riderApp'.state = riderApp.state /\ riderApp'.posting = riderApp.posting
  BY DEF Gets
<1>5. \A q \in Request : Served(q) => Served(q)'
  BY <1>2, <1>4 DEF Served
<1>6. SpinnerServed'
  BY <1>4, <1>5 DEF SpinnerServed
<1>7. ASSUME NEW i \in 1 .. Len(riderApp'.inbox), riderApp'.inbox[i].status = "matching"
      PROVE  WorkedOn(riderApp.inbox[i].request)' \/ EndedLater(riderApp', i)
  <2>1. PICK q \in Request : q = riderApp'.inbox[i].request
    <3>1. riderApp.inbox \in Seq(R!Message)
      BY <1>1 DEF R!App
    <3>2. \A j \in 1 .. Len(riderApp.inbox) : riderApp.inbox[j] \in R!Message
      BY <3>1
    <3>3. \A j \in 1 .. Len(riderApp.inbox) : riderApp.inbox[j].request \in Request
      BY <3>2 DEF R!Message
    <3> QED BY <1>3, <3>3
  <2>2. CASE i \in 1 .. Len(riderApp.inbox)
    <3>1. q = riderApp.inbox[i].request /\ (WorkedOn(q) \/ EndedLater(riderApp, i))
      BY <1>3, <1>7, <2>1, <2>2 DEF MatchingServed
    <3>2. WorkedOn(q)' \/ EndedLater(riderApp', i)
      BY <1>2, <2>2, <3>1
    <3> QED BY <2>1, <3>2
  <2>3. CASE i = Len(riderApp.inbox) + 1
    <3>1. q = r /\ status = "matching"
      BY <1>3, <1>7, <2>1, <2>3
    <3>2. WorkedOn(q)'
      BY <3>1
    <3> QED BY <2>1, <3>2
  <2> QED BY <1>3, <2>2, <2>3
<1> QED BY <1>6, <1>7 DEF MatchingServed

\* A handler that tells nothing, when the work goes on.
LEMMA SpinnerQuiet ==
  ASSUME SpinnerServed, MatchingServed, UNCHANGED riderApp, AppsTypeOK,
         \A q \in Request : WorkedOn(q) => WorkedOn(q)',
         \A q \in Request : requestStatus[q] = "NONE" => requestStatus'[q] = "NONE" \/ WorkedOn(q)'
  PROVE  SpinnerServed' /\ MatchingServed'
<1>1. \A q \in Request : Served(q) => Served(q)'
  BY DEF Served
<1>2. SpinnerServed'
  BY <1>1 DEF SpinnerServed
<1>3. ASSUME NEW i \in 1 .. Len(riderApp.inbox), riderApp.inbox[i].status = "matching"
      PROVE  WorkedOn(riderApp.inbox[i].request)' \/ EndedLater(riderApp', i)
  <2>1. PICK q \in Request : q = riderApp.inbox[i].request
    <3>1. riderApp.inbox \in Seq(R!Message)
      BY DEF AppsTypeOK, R!App
    <3>2. riderApp.inbox[i] \in R!Message
      BY <3>1
    <3> QED BY <3>2 DEF R!Message
  <2>2. WorkedOn(q) \/ EndedLater(riderApp, i)
    BY <1>3, <2>1 DEF MatchingServed
  <2> QED BY <2>1, <2>2
<1> QED BY <1>2, <1>3 DEF MatchingServed

\* A handler of the page.
LEMMA SpinnerPage ==
  ASSUME AppsTypeOK, SpinnerServed, MatchingServed, RiderPageMoves
  PROVE  SpinnerServed' /\ MatchingServed'
<1>1. riderApp \in R!App
  BY DEF AppsTypeOK
<1>2. UNCHANGED <<requestStatus, pendingRequests, search>>
  BY DEF RiderPageMoves, vars, db, entry
<1>3. \A q : WorkedOn(q)' <=> WorkedOn(q)
  BY <1>2 DEF WorkedOn, Searching, Stage
<1>4. CASE riderApp'.inbox = riderApp.inbox
  <2>1. MatchingServed'
    BY <1>2, <1>4 DEF MatchingServed, EndedLater, WorkedOn, Searching, Stage
  <2>2. \A q : Ended(riderApp', q) <=> Ended(riderApp, q)
    BY <1>4 DEF Ended
  <2>3. CASE Books(riderApp, riderApp') \/ Leaves(riderApp, riderApp')
    BY <2>1, <2>3 DEF Books, Leaves, Choosing, SpinnerServed
  <2>4. ASSUME NEW r \in Request, requestStatus[r] = "NONE", Posts(riderApp, riderApp', r)
        PROVE  SpinnerServed'
    <3>1. Served(r)'
      BY <1>2, <2>4 DEF Posts, Served
    <3> QED BY <3>1 DEF SpinnerServed
  <2>5. ASSUME NEW r \in Request, requestStatus[r] # "NONE", Responds(riderApp, riderApp', r)
        PROVE  SpinnerServed'
    <3>1. \A q \in Request : Served(q) => Served(q)'
      BY <1>2, <1>3, <2>2, <2>5 DEF Responds, Served
    <3> QED BY <2>5, <3>1 DEF Responds, SpinnerServed
  <2>6. CASE Reads(riderApp, riderApp')
    <3>1. Len(riderApp'.inbox) = Len(riderApp.inbox) - 1 /\ Len(riderApp.inbox) \in Nat
      BY <1>1, <2>6, MessageTaken
    <3> QED BY <1>4, <3>1
  <2> QED BY <2>1, <2>3, <2>4, <2>5, <2>6 DEF RiderPageMoves
<1>5. CASE Reads(riderApp, riderApp')
  <2>1. /\ Head(riderApp.inbox) = riderApp.inbox[1] /\ 1 \in 1 .. Len(riderApp.inbox)
        /\ riderApp.inbox[1] \in R!Message
        /\ \A i \in 1 .. Len(riderApp'.inbox) :
              riderApp'.inbox[i] = riderApp.inbox[i + 1] /\ i + 1 \in 1 .. Len(riderApp.inbox)
    BY <1>1, <1>5, MessageTaken
  <2>2. /\ riderApp.inbox[1].status \notin LastWord =>
              \A q : Ended(riderApp, q) => Ended(riderApp', q)
        /\ EndedLater(riderApp, 1) => Ended(riderApp', riderApp.inbox[1].request)
        /\ \A i \in 1 .. Len(riderApp'.inbox) :
              EndedLater(riderApp, i + 1) => EndedLater(riderApp', i)
    BY <1>1, <1>5, EndTaken
  <2>3. PICK k \in Request : k = riderApp.inbox[1].request
    BY <2>1 DEF R!Message
  <2>4. ASSUME riderApp.inbox[1].status = "matching" PROVE SpinnerServed'
    <3>1. WorkedOn(k) \/ EndedLater(riderApp, 1)
      BY <2>1, <2>3, <2>4 DEF MatchingServed
    <3>2. Served(k)'
      BY <1>3, <2>2, <2>3, <3>1 DEF Served
    <3> QED BY <3>2 DEF SpinnerServed
  <2>5. ASSUME riderApp.inbox[1].status = "driver_declined" PROVE SpinnerServed'
    <3>1. \A q \in Request : Served(q) => Served(q)'
      BY <1>2, <1>3, <1>5, <2>2, <2>5 DEF Reads, LastWord, Served
    <3>2. riderApp'.state = riderApp.state
      BY <1>5, <2>1, <2>5 DEF Reads
    <3> QED BY <3>1, <3>2 DEF SpinnerServed
  <2>6. SpinnerServed'
    BY <1>5, <2>1, <2>4, <2>5 DEF Reads, SpinnerServed
  <2>7. ASSUME NEW i \in 1 .. Len(riderApp'.inbox), riderApp'.inbox[i].status = "matching"
        PROVE  WorkedOn(riderApp.inbox[i].request)' \/ EndedLater(riderApp', i)
    <3>1. WorkedOn(riderApp.inbox[i + 1].request) \/ EndedLater(riderApp, i + 1)
      BY <2>1, <2>7 DEF MatchingServed
    <3>2. riderApp'.inbox[i].request = riderApp.inbox[i + 1].request
      BY <2>1
    <3> QED BY <1>2, <2>2, <3>1, <3>2 DEF WorkedOn, Searching, Stage
  <2> QED BY <2>6, <2>7 DEF MatchingServed
<1> QED BY <1>4, <1>5 DEF RiderPageMoves, Books, Leaves, Posts, Responds

\* Whatever comes next keeps the spinner served, as long as apps answer once.
LEMMA SpinnerStep ==
  DriverEndInv /\ NobodyOrphaned /\ IInv /\ AnswersOnce /\ AnswersOnce' /\ SpinnerInv
  /\ [AppsNext]_allVars => SpinnerInv'
<1> SUFFICES ASSUME DriverEndInv, IInv, AnswersOnce, AnswersOnce', SpinnerInv, [AppsNext]_allVars
             PROVE  SpinnerInv'
  OBVIOUS
<1>1. AppsTypeOK /\ OneSearchInv /\ SpinnerServed /\ MatchingServed /\ NoRiderInv /\ TypeOK
  BY DEF DriverEndInv, SpinnerInv, AppsTypeOK
<1>2. \A r \in Request : Driven(r)'
  BY <1>1, NothingFails, StepServes DEF SpinnerInv, Serves
<1> DEFINE Rest == SpinnerServed' /\ MatchingServed' /\ NoRiderInv' /\ \A r \in Request : Listed(r)'
<1>3. ASSUME UNCHANGED <<requestStatus, pendingRequests, search, riderApp, played>> PROVE Rest
  <2>1. \A q : (WorkedOn(q)' <=> WorkedOn(q)) /\ (Listed(q)' <=> Listed(q))
    BY <1>3 DEF WorkedOn, Listed, Searching, Stage
  <2>2. SpinnerServed' /\ MatchingServed'
    BY <1>1, <1>3, <2>1, SpinnerQuiet
  <2> QED BY <1>1, <1>3, <2>1, <2>2 DEF NoRiderInv, SpinnerInv
<1>4. CASE RiderPageMoves
  <2>1. \A q : Listed(q)' <=> Listed(q)
    BY <1>4 DEF RiderPageMoves, vars, entry, Listed, Searching, Stage
  <2>2. "rider" \in played'
    BY <1>4 DEF RiderPageMoves
  <2>3. SpinnerServed' /\ MatchingServed'
    BY <1>1, <1>4, SpinnerPage
  <2>4. Rest
    BY <2>1, <2>2, <2>3 DEF NoRiderInv, SpinnerInv
  <2> QED BY <1>2, <2>4 DEF SpinnerInv
<1>5. ASSUME UNCHANGED <<riderApp, played>>, SpinnerServed', MatchingServed' , \A r \in Request : Listed(r)'
      PROVE  Rest
  BY <1>1, <1>5 DEF NoRiderInv
<1>6. ASSUME UNCHANGED played, NEW r \in Request, NEW status \in R!Statuses, NEW d \in Cause,
             TellRider(r, status, d),
             \A q \in Request : WorkedOn(q) => WorkedOn(q)' \/ (q = r /\ status \in LastWord),
             \A q \in Request : requestStatus[q] = "NONE" => requestStatus'[q] = "NONE",
             status = "matching" => WorkedOn(r)',
             \A q \in Request : Listed(q)'
      PROVE  Rest
  <2>1. CASE "rider" \in played
    <3>1. Gets(riderApp, riderApp', r, status, d)
      <4>1. riderApp \in R!App
        BY <1>1 DEF AppsTypeOK
      <4> QED BY <1>6, <2>1, <4>1 DEF TellRider, Gets, R!Deliver, R!App
    <3>2. SpinnerServed' /\ MatchingServed'
      BY <1>1, <1>6, <3>1, SpinnerTold
    <3> QED BY <1>6, <2>1, <3>2 DEF NoRiderInv
  <2>2. CASE "rider" \notin played
    <3>1. riderApp' = R!Opened
      BY <1>1, <1>6, <2>2 DEF TellRider, NoRiderInv
    <3>2. riderApp'.state # "searching" /\ riderApp'.inbox = <<>>
      BY <3>1 DEF R!Opened
    <3> QED BY <1>6, <3>1, <3>2 DEF SpinnerServed, MatchingServed, NoRiderInv
  <2> QED BY <2>1, <2>2
<1>7. ASSUME UNCHANGED played, NEW r \in Request, RiderWaits(r) PROVE Rest
  <2>1. \A q \in Request : /\ WorkedOn(q) => WorkedOn(q)'
                           /\ Listed(q)'
                           /\ requestStatus[q] = "NONE" => requestStatus'[q] = "NONE"
    BY <1>7, WorkGoesOn DEF RiderWaits, SpinnerInv
  <2>2. CASE UNCHANGED riderApp
    <3>1. SpinnerServed' /\ MatchingServed'
      BY <1>1, <2>1, <2>2, SpinnerQuiet
    <3> QED BY <1>5, <1>7, <2>1, <2>2, <3>1
  <2>3. CASE TellRider(r, "driver_declined", None)
    BY <1>6, <1>7, <2>1, <2>3 DEF R!Statuses, Cause
  <2>4. CASE TellRider(r, "matching", None) /\ r \in pendingRequests'
    <3>1. WorkedOn(r)'
      BY <2>4 DEF WorkedOn
    <3> QED BY <1>6, <1>7, <2>1, <2>4, <3>1 DEF R!Statuses, Cause
  <2> QED BY <1>7, <2>2, <2>3, <2>4 DEF RiderWaits
<1>8. ASSUME UNCHANGED played, NEW r \in Request, NEW c \in Cause, RiderRefused(r, c) PROVE Rest
  <2>1. /\ UNCHANGED requestStatus
        /\ \A q \in Request : q # r => (WorkedOn(q)' <=> WorkedOn(q))
        /\ \A q \in Request : Listed(q)'
    BY <1>1, <1>8, LastWords, OthersGoOn DEF RiderRefused, SpinnerInv
  <2> QED BY <1>6, <1>8, <2>1 DEF RiderRefused, R!Statuses, LastWord, Cause
<1>9. ASSUME UNCHANGED played, NEW r \in Request, NEW d \in Driver, NEW n \in AnswerIndex,
             RiderMatched(r, d, n)
      PROVE  Rest
  <2>1. /\ UNCHANGED requestStatus
        /\ \A q \in Request : q # r => (WorkedOn(q)' <=> WorkedOn(q))
        /\ \A q \in Request : Listed(q)'
    BY <1>1, <1>9, LastWords, OthersGoOn DEF RiderMatched, SpinnerInv
  <2> QED BY <1>6, <1>9, <2>1 DEF RiderMatched, R!Statuses, LastWord, Cause
<1>10. ASSUME UNCHANGED played, NEW r \in Request, RequestCreated(r) PROVE Rest
  <2>1. /\ WorkedOn(r)' /\ UNCHANGED riderApp
        /\ \A q \in Request : Listed(q)' /\ (WorkedOn(q) => WorkedOn(q)')
        /\ \A q \in Request : q # r => requestStatus'[q] = requestStatus[q]
    BY <1>10, OthersGoOn DEF RequestCreated, SpinnerInv
  <2>2. SpinnerServed' /\ MatchingServed'
    BY <1>1, <2>1, SpinnerQuiet
  <2> QED BY <1>5, <1>10, <2>1, <2>2
<1>11. CASE Rest
  BY <1>2, <1>11 DEF SpinnerInv
<1>12. CASE AppsNext
  <2>1. RiderUntouched => UNCHANGED <<requestStatus, pendingRequests, search, riderApp>>
    BY DEF RiderUntouched, entry
  <2> HIDE DEF Rest
  <2> QED
    BY <1>1, <1>3, <1>4, <1>7, <1>8, <1>9, <1>10, <1>11, <1>12, <2>1, RiderSees
<1>13. CASE UNCHANGED allVars
  BY <1>3, <1>11, <1>13 DEF allVars, apps, vars, db, entry
<1> QED BY <1>12, <1>13

\* Work that goes on is work that somebody drives.
LEMMA SpinnerMeans ==
  ASSUME AppsTypeOK, SpinnerInv
  PROVE  SpinnerIsServed
<1> SUFFICES ASSUME riderApp.state = "searching"
             PROVE  \/ \E r \in riderApp.posting : requestStatus[r] = "NONE"
                    \/ \E r \in Request : r \in timeoutHandle \/ Searching(r) \/ AcceptInFlight(r)
                    \/ \E i \in 1 .. Len(riderApp.inbox) :
                           riderApp.inbox[i].status \in {"matched", "no_drivers"}
  BY DEF SpinnerIsServed
<1>1. PICK r \in Request : Served(r)
  BY DEF SpinnerInv, SpinnerServed
<1>2. Driven(r)
  BY DEF SpinnerInv
<1> QED BY <1>1, <1>2 DEF Served, WorkedOn, Driven, Ended, LastWord

\* There is no spinner at first.
LEMMA SpinnerStart == AppsInit => SpinnerInv
<1> SUFFICES ASSUME AppsInit PROVE SpinnerInv
  OBVIOUS
<1>1. riderApp = R!Opened /\ riderApp.state # "searching" /\ riderApp.inbox = <<>>
  BY DEF AppsInit, R!Opened
<1>2. \A r \in Request : Driven(r) /\ Listed(r)
  <2>1. pendingRequests = {} /\ \A r \in Request, c \in Cause : Stage(r, c) = "idle"
    BY DEF AppsInit, Init, Stage, NoSearch
  <2> QED BY <2>1 DEF Driven, Listed, Searching
<1> QED BY <1>1, <1>2 DEF SpinnerInv, SpinnerServed, MatchingServed, NoRiderInv

\* A rider without a page keeps the page that nobody opened.
LEMMA PagelessRider == DriverEndInv /\ NoRiderInv /\ [AppsNext]_allVars => NoRiderInv'
<1> SUFFICES ASSUME DriverEndInv, NoRiderInv, [AppsNext]_allVars, "rider" \notin played'
             PROVE  riderApp' = R!Opened
  BY DEF NoRiderInv
<1>1. CASE RiderPageMoves
  BY <1>1 DEF RiderPageMoves
<1>2. ASSUME UNCHANGED played, NEW r, NEW status, NEW d, TellRider(r, status, d)
      PROVE  riderApp' = R!Opened
  BY <1>2 DEF TellRider, NoRiderInv
<1>3. ASSUME UNCHANGED <<played, riderApp>> PROVE riderApp' = R!Opened
  BY <1>3 DEF NoRiderInv
<1>4. CASE UNCHANGED allVars
  BY <1>3, <1>4 DEF allVars, apps
<1> QED
  BY <1>1, <1>2, <1>3, <1>4, RiderSees DEF DriverEndInv, RiderUntouched, RiderWaits,
     RequestCreated, RiderRefused, RiderMatched

SpinnerPromise == NobodyOrphaned => IInv /\ SpinnerInv

\* What holds of the spinner until a countdown is orphaned, at first ...
LEMMA SpinnerPromiseInit == AppsInit => SpinnerPromise /\ NoRiderInv
  BY InitInv, SpinnerStart DEF AppsInit, SpinnerPromise, SpinnerInv

\* ... after every step ...
LEMMA SpinnerPromiseStep == DriverEndInv /\ SpinnerPromise /\ [AppsNext]_allVars => SpinnerPromise'
<1> SUFFICES ASSUME DriverEndInv, SpinnerPromise, [AppsNext]_allVars, NobodyOrphaned'
             PROVE  IInv' /\ SpinnerInv'
  BY DEF SpinnerPromise
<1>1. NobodyOrphaned /\ IInv /\ SpinnerInv
  BY OrphansStay DEF SpinnerPromise
<1>2. DriverEndInv'
  BY DriverEndStep
<1>3. (DriverEndInv => (NobodyOrphaned => AnswersOnce))'
  BY HandlesGiveOneAnswer, PTL
<1>4. AnswersOnce /\ AnswersOnce'
  BY <1>1, <1>2, <1>3, HandlesGiveOneAnswer
<1>5. IInv'
  BY <1>1, OrderlyStep
<1> QED BY <1>1, <1>4, <1>5, SpinnerStep

\* ... and in every behaviour.
LEMMA SpinnerInvariance == AppsSpec => [](DriverEndInv /\ NoRiderInv /\ SpinnerPromise)
  BY DriverEndInvariance, PagelessRider, SpinnerPromiseInit, SpinnerPromiseStep, PTL DEF AppsSpec

\* With both ends played by their pages, the spinner is never left alone as long
\* as no driver's page overwrites the handle of a countdown that runs
\* (rides.service.ts:48-103, driver-dashboard.component.ts:395).
THEOREM SpinnersAreServedUntilOrphaned == AppsSpec => [](NobodyOrphaned => SpinnerIsServed)
<1>1. DriverEndInv /\ SpinnerPromise => (NobodyOrphaned => SpinnerIsServed)
  BY SpinnerMeans DEF DriverEndInv, SpinnerPromise
<1> QED BY <1>1, SpinnerInvariance, PTL

\* With one end played by its page and any client at the other that answers an
\* offer once, the spinner is never left alone at all, also when it was an old
\* request that started it again (rides.service.ts:285,
\* rider-dashboard.component.ts:306).
THEOREM SpinnersAreServed ==
  ASSUME \A end \in Ends : "driver" \in end => "rider" \notin end
  PROVE  AppsSpec => []SpinnerIsServed
<1>1. DriverEndInv /\ NoRiderInv /\ SpinnerPromise => SpinnerIsServed
  <2> SUFFICES ASSUME DriverEndInv, NoRiderInv, SpinnerPromise PROVE SpinnerIsServed
    OBVIOUS
  <2>1. CASE "driver" \notin played
    <3>1. NobodyOrphaned
      BY <2>1 DEF DriverEndInv, NoPageInv, NobodyOrphaned, D!Opened
    <3> QED BY <3>1, SpinnerMeans DEF DriverEndInv, SpinnerPromise
  <2>2. CASE "driver" \in played
    <3>1. riderApp = R!Opened
      BY <2>2 DEF DriverEndInv, AppsTypeOK, NoRiderInv
    <3>2. riderApp.state # "searching"
      BY <3>1 DEF R!Opened
    <3> QED BY <3>2 DEF SpinnerIsServed
  <2> QED BY <2>1, <2>2
<1> QED BY <1>1, SpinnerInvariance, PTL
=============================================================================
