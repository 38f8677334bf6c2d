------------------------------ MODULE RideApps ------------------------------
(***************************************************************************)
(* Dispatch with the two apps at its ends: RideDispatch, with drivers that *)
(* answer what DriverApp sends, and requests that RiderApp makes.  There   *)
(* is one rider, and every driver has the dashboard open.                  *)
(*                                                                         *)
(* Either end can also be played by any client of the backend, as in       *)
(* RideDispatch: requests then just come, and a driver answers an offer    *)
(* once, at any time, and is ready for more when the ride is over.         *)
(*                                                                         *)
(* A link is a pair of FIFO channels.  A driver's may break at any moment  *)
(* and loses all that is on its way; the app connects again, and answers   *)
(* sent meanwhile wait for it.  The rider's link holds.                    *)
(***************************************************************************)
EXTENDS RideDispatch, Sequences

CONSTANTS
    OfferSeconds,   \* seconds of the offer countdown
    MaxChanges,     \* bound: clicks of a driver on Go Online and Go Offline
    Ends            \* choices of the ends that are played by their app

ASSUME AppsAssumption ==
    /\ OfferSeconds \in Nat \ {0}
    /\ MaxChanges \in Nat
    /\ Ends \subseteq SUBSET {"driver", "rider"}
    /\ None \notin Request

VARIABLES
    played,         \* the ends that are
    driverApp,      \* the page of each driver
    riderApp,       \* the page of the rider
    lost            \* history: offers the backend waits on that a break cut off

apps    == <<played, driverApp, riderApp, lost>>
allVars == <<vars, apps>>

D == INSTANCE DriverApp
R == INSTANCE RiderApp

AppsTypeOK ==
    /\ TypeOK
    /\ played \in Ends
    /\ driverApp \in [Driver -> D!App]
    /\ riderApp \in R!App
    /\ lost \subseteq timeoutHandle

AppsInit ==
    /\ Init
    /\ played \in Ends
    /\ driverApp = [d \in Driver |-> D!Opened]
    /\ riderApp = R!Opened
    /\ lost = {}

-----------------------------------------------------------------------------
\* One handler of one app runs; the backend does not notice.
DriverRuns(d, after) ==
    /\ driverApp' = [driverApp EXCEPT ![d] = after]
    /\ UNCHANGED <<vars, played, riderApp, lost>>

RiderRuns(after) == riderApp' = after /\ UNCHANGED <<vars, played, driverApp, lost>>

\* What a step of the backend tells the apps.
Waits == lost' = lost \cap timeoutHandle' /\ UNCHANGED played

TellDriver(d, after) ==
    driverApp' = IF "driver" \in played THEN [driverApp EXCEPT ![d] = after] ELSE driverApp

TellRider(r, status, d) ==
    riderApp' = IF "rider" \in played THEN R!Deliver(riderApp, r, status, d) ELSE riderApp

Unseen               == UNCHANGED <<driverApp, riderApp>> /\ Waits
Tell(r, status, d)   == TellRider(r, status, d) /\ UNCHANGED driverApp /\ Waits

\* A request that does not exist yet; which one is no matter.
FreshRequest ==
    CHOOSE r \in Request : requestStatus[r] = "NONE" /\ r \notin riderApp.posting

HasFreshRequest ==
    \E r \in Request : requestStatus[r] = "NONE" /\ r \notin riderApp.posting

-----------------------------------------------------------------------------
(***************************************************************************)
(* The driver's page.                                                      *)
(***************************************************************************)
OfferArrives(d) ==
    /\ driverApp[d].inbox # <<>>
    /\ DriverRuns(d, D!HandleRideOffer(driverApp[d]))

CountdownTicks(d) ==
    /\ D!Ticking(driverApp[d])
    /\ D!Tick(driverApp[d]) # driverApp[d]
    /\ DriverRuns(d, D!Tick(driverApp[d]))

DriverClicks(d) ==
    LET a == driverApp[d]
    IN  \/ D!ShowsOffer(a)         /\ DriverRuns(d, D!AcceptOffer(a))
        \/ D!ShowsOffer(a)         /\ DriverRuns(d, D!RejectOffer(a))
        \/ a.state = "en_route"    /\ DriverRuns(d, D!ArriveAtPickup(a))
        \/ a.state = "at_pickup"   /\ DriverRuns(d, D!StartTrip(a))
        \/ a.state = "in_trip"     /\ DriverRuns(d, D!CompleteTrip(a))
        \/ D!MayGoOnline(a)        /\ DriverRuns(d, D!GoOnline(a))
        \/ D!MayGoOffline(a)       /\ DriverRuns(d, D!GoOffline(a))

ReadProfile(d) ==
    /\ driverApp[d].profile = "asked"
    /\ DriverRuns(d, [driverApp[d] EXCEPT !.profile = driverStatus[d]])

\* PATCH me/status at the backend.
WriteStatus(d) ==
    \E status \in {"ONLINE", "OFFLINE"} :
        /\ driverApp[d].change = D!Asked(status)
        /\ driverApp' = [driverApp EXCEPT ![d].change = status]
        /\ IF driverStatus[d] = status THEN UNCHANGED vars ELSE UpdateDriverStatus(d, status)
        /\ UNCHANGED <<played, riderApp, lost>>

ResponseArrives(d) ==
    LET a == driverApp[d]
    IN  \/ a.profile \in D!DriverStatus       /\ DriverRuns(d, D!ProfileArrives(a))
        \/ a.change \in {"ONLINE", "OFFLINE"} /\ DriverRuns(d, D!ChangeArrives(a))
        \/ a.change # "none"                  /\ DriverRuns(d, D!ChangeFails(a))

-----------------------------------------------------------------------------
(***************************************************************************)
(* The driver's link.                                                      *)
(***************************************************************************)
LinkOpens(d) == DriverConnects(d) /\ Unseen

LinkBreaks(d) ==
    LET a == driverApp[d]
    IN  /\ DriverDisconnects(d)
        /\ driverApp' = [driverApp EXCEPT ![d].inbox = <<>>, ![d].outbox = <<>>]
        /\ lost' = lost \cup {r \in timeoutHandle :
                        \/ \E i \in 1 .. Len(a.inbox) : a.inbox[i] = r
                        \/ \E i \in 1 .. Len(a.outbox) : a.outbox[i].request = r}
        /\ UNCHANGED <<played, riderApp>>

\* The next answer reaches the gateway.
AnswerArrives(d) ==
    /\ d \in driverSockets
    /\ driverApp[d].outbox # <<>>
    /\ LET msg == Head(driverApp[d].outbox)
           r   == msg.request
       IN  \E n \in AnswerIndex :
              \/ msg.answer = "accept" /\ DriverAccept(r, d, n) /\ UNCHANGED riderApp
              \/ msg.answer = "decline" /\ DriverDecline(r, d, n)
                                       /\ TellRider(r, "driver_declined", None)
              \/ AnswerIgnored(r, d, n) /\ UNCHANGED riderApp
    /\ driverApp' = [driverApp EXCEPT ![d] = D!Sent(@)]
    /\ Waits

-----------------------------------------------------------------------------
(***************************************************************************)
(* The backend.                                                            *)
(***************************************************************************)
SendOffer(r, c, d) ==
    /\ OfferSent(r, c, d)
    /\ TellDriver(d, D!Deliver(driverApp[d], r))
    /\ UNCHANGED riderApp
    /\ Waits

GiveUp(r, c) == NotifyNoDrivers(r, c) /\ Tell(r, "no_drivers", None)

\* OfferAbandoned needs a cancelled request or a failure, which MayCancel and
\* Faults may exclude.
Search(r, c) ==
    \/ /\ \/ FindAvailable(r, c)
          \/ \E d \in Driver : OfferUnsent(r, c, d)
          \/ OfferAbandoned(r, c)
          \/ NoCandidate(r, c)
          \/ MarkExpired(r, c)
       /\ Unseen
    \/ \E d \in Driver : SendOffer(r, c, d)
    \/ GiveUp(r, c)

TimeOut(r) ==
    /\ TimeoutFires(r)
    /\ IF r \in pendingRequests /\ currentDriver[r] # None
       THEN Tell(r, "matching", None) ELSE Unseen

AnnounceBeforeTrip(r, d, n) ==
    /\ answers[r][d][n] = "create"
    /\ riderStatus[r] # "matched"
    /\ SendStatusToRider(r, "matched")
    /\ UNCHANGED <<db, entry, driverSockets, search, answers, canceling, offers>>
    /\ Tell(r, "matched", d)

AnnounceMatch(r, d, n) == NotifyMatched(r, d, n) /\ Tell(r, "matched", d)

\* CreateTripRejected needs a second driver that accepts a request with a trip.
Accept(r, d, n) ==
    \/ /\ \/ SetDriverBusy(r, d, n)
          \/ MarkMatched(r, d, n)
          \/ CreateTrip(r, d, n)
          \/ CreateTripRejected(r, d, n)
          \/ NotifyFails(r, d, n)
       /\ Unseen
    \/ AnnounceMatch(r, d, n)

-----------------------------------------------------------------------------
(***************************************************************************)
(* The rider's page.                                                       *)
(***************************************************************************)

RiderClicks ==
    \/ riderApp.state = "idle" /\ HasFreshRequest /\ RiderRuns(R!StartBooking(riderApp))
    \/ /\ riderApp.state \in {"selecting_pickup", "selecting_dropoff"}
       /\ RiderRuns(R!ChoosePlace(riderApp))
    \/ /\ riderApp.state = "selecting_pickup" /\ riderApp.pickup
       /\ RiderRuns(R!ConfirmPickup(riderApp))
    \/ /\ riderApp.state = "selecting_dropoff" /\ riderApp.dropoff /\ HasFreshRequest
       /\ RiderRuns(R!RequestRide(riderApp, FreshRequest))
    \/ riderApp.state = "searching" /\ RiderRuns(R!CancelRequest(riderApp))

\* POST rides/request at the backend, up to the first await of startMatching.
HandleRequest(r) ==
    /\ r \in riderApp.posting
    /\ CreateRideRequest(r)
    /\ Unseen

\* The backend responds when the first search is over.
RequestReturns(r) ==
    /\ r \in riderApp.posting
    /\ \/ /\ requestStatus[r] # "NONE"
          /\ Stage(r, None) = "idle"
          /\ RiderRuns(R!Responded(riderApp, r))
       \/ RiderRuns(R!RequestFails(riderApp, r))

StatusArrives == riderApp.inbox # <<>> /\ RiderRuns(R!HandleStatus(riderApp))

-----------------------------------------------------------------------------
DriverEnd(d) ==
    \/ OfferArrives(d) \/ CountdownTicks(d) \/ DriverClicks(d)
    \/ ReadProfile(d) \/ WriteStatus(d) \/ ResponseArrives(d)
    \/ AnswerArrives(d) \/ LinkBreaks(d)

AnyDriver(d) ==
    \/ \E r \in Request :
          \/ (DriverAccept(r, d, 1) \/ AnswerIgnored(r, d, 1)) /\ Unseen
          \/ DriverDecline(r, d, 1) /\ Tell(r, "driver_declined", None)
    \/ DriverDisconnects(d) /\ Unseen
    \/ UpdateDriverStatus(d, "ONLINE") /\ Unseen

RiderEnd ==
    \/ RiderClicks
    \/ \E r \in Request : HandleRequest(r) \/ RequestReturns(r)
    \/ StatusArrives

AnyRider == HasFreshRequest /\ CreateRideRequest(FreshRequest) /\ Unseen

Backend(r) ==
    \/ StartMatching(r) /\ Unseen
    \/ TimeOut(r)
    \/ \E c \in Cause : Search(r, c)
    \/ \E d \in Driver, n \in AnswerIndex : Accept(r, d, n)

AppsNext ==
    \/ \E r \in Request : Backend(r)
    \/ \E d \in Driver :
          \/ LinkOpens(d)
          \/ "driver" \in played /\ DriverEnd(d)
          \/ "driver" \notin played /\ AnyDriver(d)
    \/ "rider" \in played /\ RiderEnd
    \/ "rider" \notin played /\ AnyRider

AppsSpec == AppsInit /\ [][AppsNext]_allVars

-----------------------------------------------------------------------------
(***************************************************************************)
(* The driver's end.                                                       *)
(***************************************************************************)
AnswersSent(r, d) ==
    Cardinality({n \in AnswerIndex : answers[r][d][n] # "unsent"})
    + Cardinality({i \in 1 .. Len(driverApp[d].outbox) : driverApp[d].outbox[i].request = r})

\* An app whose countdowns all have their handle answers an offer once, which
\* is what the dispatch of that offer relies on (MaxAnswers = 1).  It no longer
\* does once an offer has overwritten the handle of a countdown that was running
\* (driver-dashboard.component.ts:395).
OneAnswerUnlessOrphaned ==
    \A d \in Driver : ~ driverApp[d].orphaned => \A r \in Request : AnswersSent(r, d) <= 1

\* While the backend counts 30 seconds for a driver, the driver can answer: the
\* offer is on its way, on the page with a countdown that answers for it, or
\* answered by a message on its way; unless a link broke meanwhile or another
\* offer took its place (rides.service.ts:160, driver-dashboard.component.ts:374).
\* The timer of a request that is not listed any more, left over when the app of
\* an earlier driver sent two answers, decides nothing, and neither does the
\* answer to its offer.
SilenceIsVisible ==
    "driver" \in played => \A r \in (timeoutHandle \cap pendingRequests) \ lost :
        LET a == driverApp[currentDriver[r]]
        IN  \/ a.orphaned
            \/ a.currentOffer = r /\ a.countdown
            \/ \E i \in 1 .. Len(a.inbox) : a.inbox[i] = r
            \/ \E i \in 1 .. Len(a.outbox) : a.outbox[i].request = r

\* A driver that heads for a pickup keeps that ride on the page.  What can take
\* it away: an orphaned countdown, the response to an earlier click on Go Online
\* or Go Offline, and another offer (driver-dashboard.component.ts:321-343, 395).
RideIsKept ==
    [][\A d \in Driver :
          /\ driverApp[d].state \in {"en_route", "at_pickup"}
          /\ driverApp'[d].state \notin D!Riding
          => \/ driverApp[d].orphaned
             \/ driverApp[d].change \in {"ONLINE", "OFFLINE"}
             \/ driverApp'[d].state = "ride_offer"]_allVars

-----------------------------------------------------------------------------
(***************************************************************************)
(* The rider's end.                                                        *)
(***************************************************************************)

\* The driver on the rider's screen, or in a message on its way there, has the
\* trip of that request, whatever other requests the rider made, left or lost
\* (rides.service.ts:202-211, rider-dashboard.component.ts:312).
MatchedScreenHasTrip ==
    /\ riderApp.state = "matched" => trip[riderApp.shown] = riderApp.matchedDriver
    /\ \A i \in 1 .. Len(riderApp.inbox) :
          riderApp.inbox[i].status = "matched" =>
              trip[riderApp.inbox[i].request] = riderApp.inbox[i].driver

\* Nothing in the backend keeps a rider from having two searches at a time
\* (rides.service.ts:48); the page does, until the rider cancels, which the
\* backend never hears of, or a POST fails on the way.
SecondSearchMeansAbandoned ==
    "rider" \in played /\ Cardinality(pendingRequests) > 1 => riderApp.abandoned

\* The spinner is never left alone: a request is on its way to the backend, a
\* search that somebody drives goes on, or the word that ends it is on its way.
\* That holds with any client as the driver that answers an offer once, also when
\* it was an old request that started the spinner again (rides.service.ts:285,
\* rider-dashboard.component.ts:306), and with a driver's page until it orphans a
\* countdown.
SpinnerIsServed ==
    riderApp.state = "searching" =>
        \/ \E r \in riderApp.posting : requestStatus[r] = "NONE"
        \/ \E r \in Request : r \in timeoutHandle \/ Searching(r) \/ AcceptInFlight(r)
        \/ \E i \in 1 .. Len(riderApp.inbox) :
               riderApp.inbox[i].status \in {"matched", "no_drivers"}
=============================================================================
