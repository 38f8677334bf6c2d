---------------------------- MODULE RideDispatch ----------------------------
(***************************************************************************)
(* How the backend finds a driver for a ride request: RidesService, the    *)
(* part of TripsService, MatchingService and DriversService it calls, and  *)
(* the outbound half of the WebSocket gateway.                             *)
(*                                                                         *)
(* The server is one Node.js process: a handler runs alone until its next  *)
(* `await`, and any other handler may run while it waits.  So a handler is *)
(* a small program counter (its "stage" names the write or the answer it   *)
(* is waiting for) and each action is what happens between two awaits.  A  *)
(* database write and the code that runs when it is acknowledged are two   *)
(* actions whenever that code reads the shared Map or talks to a client.   *)
(*                                                                         *)
(* The database (requestStatus, driverStatus, trip) and what clients hold  *)
(* survive a crash; the Map of pending requests, the timers, the sockets   *)
(* and the handlers do not.                                                *)
(***************************************************************************)
EXTENDS Naturals, FiniteSets

CONSTANTS
    Request,        \* ride requests, one row each
    Driver,         \* approved drivers
    None,           \* JavaScript's null, and the cause of a creation search
    MaxAnswers,     \* accept/decline messages a driver's app sends per offer
    MayCancel,      \* requests whose rider may cancel
    StatusWrites,   \* statuses a driver may PATCH onto itself
    Faults          \* which of "search", "database", "crash" can happen

ASSUME DispatchAssumption ==
    /\ None \notin Driver
    /\ MaxAnswers \in Nat \ {0}
    /\ MayCancel \subseteq Request
    /\ StatusWrites \subseteq {"ONLINE", "OFFLINE", "BUSY"}
    /\ Faults \subseteq {"search", "database", "crash"}

VARIABLES
    \* the database
    requestStatus,      \* RideRequest.status; "NONE" while there is no row
    driverStatus,       \* Driver.status
    trip,               \* driverId of the request's Trip row, or None
    \* the server's memory
    pendingRequests,    \* keys of the Map
    currentDriver,      \* PendingRequest.currentDriver, per request
    declinedDrivers,    \* PendingRequest.declinedDrivers, per request
    timeoutHandle,      \* requests whose 30-second timer is armed
    driverSockets,      \* keys of the gateway's Map
    \* handlers in flight
    search,             \* search[r][c]: the search for r that c caused
    answers,            \* answers[r][d][n]: the n-th answer of d to r's offer
    canceling,          \* cancelRequest of r
    \* the clients
    offers,             \* drivers the offer of r was delivered to
    riderStatus         \* last status passed to sendStatusToRider for r

db       == <<requestStatus, driverStatus, trip>>
entry    == <<pendingRequests, currentDriver, declinedDrivers, timeoutHandle>>
clients  == <<offers, riderStatus>>
vars     == <<db, entry, driverSockets, search, answers, canceling, clients>>

Cause       == Driver \cup {None}
AnswerIndex == 1 .. MaxAnswers

RequestStatuses == {"NONE", "MATCHING", "MATCHED", "EXPIRED", "CANCELED"}
RiderStatuses   == {"none", "matching", "driver_declined", "matched", "no_drivers"}
SearchStages    == {"idle", "begin", "query", "rank", "expire", "expired"}
AcceptStages    == {"busy", "match", "create", "notify"}
CancelStages    == {"idle", "checked", "write"}

SearchState == [stage : SearchStages, via : {"http", "ws", "timer"}, cands : SUBSET Driver]
NoSearch    == [stage |-> "idle", via |-> "http", cands |-> {}]

TypeOK ==
    /\ requestStatus \in [Request -> RequestStatuses]
    /\ driverStatus \in [Driver -> {"ONLINE", "OFFLINE", "BUSY"}]
    /\ trip \in [Request -> Cause]
    /\ pendingRequests \subseteq Request
    /\ currentDriver \in [Request -> Cause]
    /\ declinedDrivers \in [Request -> SUBSET Driver]
    /\ timeoutHandle \subseteq Request
    /\ driverSockets \subseteq Driver
    /\ search \in [Request -> [Cause -> SearchState]]
    /\ answers \in [Request -> [Driver -> [AnswerIndex -> {"unsent", "done"} \cup AcceptStages]]]
    /\ canceling \in [Request -> CancelStages]
    /\ offers \in [Request -> SUBSET Driver]
    /\ riderStatus \in [Request -> RiderStatuses]

Init ==
    /\ requestStatus = [r \in Request |-> "NONE"]
    /\ driverStatus = [d \in Driver |-> "ONLINE"]
    /\ trip = [r \in Request |-> None]
    /\ pendingRequests = {}
    /\ currentDriver = [r \in Request |-> None]
    /\ declinedDrivers = [r \in Request |-> {}]
    /\ timeoutHandle = {}
    /\ driverSockets = {}
    /\ search = [r \in Request |-> [c \in Cause |-> NoSearch]]
    /\ answers = [r \in Request |-> [d \in Driver |-> [n \in AnswerIndex |-> "unsent"]]]
    /\ canceling = [r \in Request |-> "idle"]
    /\ offers = [r \in Request |-> {}]
    /\ riderStatus = [r \in Request |-> "none"]

-----------------------------------------------------------------------------
(***************************************************************************)
(* State predicates and the steps of control flow the handlers share.      *)
(***************************************************************************)
Stage(r, c)     == search[r][c].stage
Accepting(r, d, n) == answers[r][d][n] \in AcceptStages

SearchGoesTo(r, c, stage) == search' = [search EXCEPT ![r][c] = [@ EXCEPT !.stage = stage]]
SearchEnds(r, c)          == search' = [search EXCEPT ![r][c] = NoSearch]
SearchStarts(r, c, via)   ==
    search' = [search EXCEPT ![r][c] = [stage |-> "query", via |-> via, cands |-> {}]]

AnswerGoesTo(r, d, n, stage) == answers' = [answers EXCEPT ![r][d][n] = stage]

KeepTimeout(r)  == UNCHANGED timeoutHandle
ClearTimeout(r) == timeoutHandle' = timeoutHandle \ {r}
ArmTimeout(r)   == timeoutHandle' = timeoutHandle \cup {r}

KeepListed(r) == UNCHANGED pendingRequests
Unlist(r)     == pendingRequests' = pendingRequests \ {r}

\* sendStatusToRider; whether the message arrives is the gateway's business.
SendRowStatusToRider(r, status) == riderStatus' = [riderStatus EXCEPT ![r] = requestStatus[r]]
SendStatusToRider(r, status)    == riderStatus' = [riderStatus EXCEPT ![r] = status]

\* The driver whose answer the request waits for: the check both answers make.
IsListed(r, d)  == r \in pendingRequests
IsCurrent(r, d) == r \in pendingRequests /\ currentDriver[r] = d

Declines(r, d) ==
    /\ declinedDrivers' = [declinedDrivers EXCEPT ![r] = @ \cup {d}]
    /\ currentDriver' = [currentDriver EXCEPT ![r] = None]

\* The candidates getNextCandidate keeps: those that have not declined.
AllCandidates(r, c) == search[r][c].cands
Remaining(r, c)     == search[r][c].cands \ declinedDrivers[r]

\* The process dies and the supervisor restarts it: memory and handlers are
\* lost, the database and what clients have seen are not.
ServerRestarts ==
    /\ pendingRequests' = {}
    /\ currentDriver' = [r \in Request |-> None]
    /\ declinedDrivers' = [r \in Request |-> {}]
    /\ timeoutHandle' = {}
    /\ driverSockets' = {}
    /\ search' = [r \in Request |-> [c \in Cause |-> NoSearch]]
    /\ answers' = [r \in Request |-> [d \in Driver |-> [n \in AnswerIndex |->
                      IF Accepting(r, d, n) THEN "done" ELSE answers[r][d][n]]]]
    /\ canceling' = [r \in Request |-> "idle"]
    /\ UNCHANGED <<db, clients>>

-----------------------------------------------------------------------------
(***************************************************************************)
(* Creating a request and searching for its next driver.                   *)
(***************************************************************************)

\* The row is written; startMatching has not yet made the Map entry.
CreateRideRequest(r) ==
    /\ requestStatus[r] = "NONE"
    /\ requestStatus' = [requestStatus EXCEPT ![r] = "MATCHING"]
    /\ SearchGoesTo(r, None, "begin")
    /\ UNCHANGED <<driverStatus, trip, entry, driverSockets, answers, canceling, clients>>

StartMatching(r) ==
    /\ Stage(r, None) = "begin"
    /\ pendingRequests' = pendingRequests \cup {r}
    /\ currentDriver' = [currentDriver EXCEPT ![r] = None]
    /\ declinedDrivers' = [declinedDrivers EXCEPT ![r] = {}]
    /\ SearchGoesTo(r, None, "query")
    /\ UNCHANGED <<db, timeoutHandle, driverSockets, answers, canceling, clients>>

\* The batch query of filterAvailableDrivers.  Which ONLINE drivers are in
\* range and survive the routing calls is left open, so the second, wider
\* query of findMatchesWithExpansion is this step too.
FindAvailable(r, c) ==
    /\ Stage(r, c) = "query"
    /\ \E found \in SUBSET {d \in Driver : driverStatus[d] = "ONLINE"} :
          search' = [search EXCEPT ![r][c] =
                        [stage |-> "rank", via |-> @.via, cands |-> found]]
    /\ UNCHANGED <<db, entry, driverSockets, answers, canceling, clients>>

\* sendOfferToDriver when the request is still listed and d has a socket.
OfferSent(r, c, d) ==
    /\ Stage(r, c) = "rank"
    /\ d \in Remaining(r, c)
    /\ r \in pendingRequests
    /\ d \in driverSockets
    /\ currentDriver' = [currentDriver EXCEPT ![r] = d]
    /\ offers' = [offers EXCEPT ![r] = @ \cup {d}]
    /\ ArmTimeout(r)
    /\ SearchEnds(r, c)
    /\ UNCHANGED <<db, pendingRequests, declinedDrivers, driverSockets, answers,
                   canceling, riderStatus>>

\* sendOfferToDriver when d has no socket: d counts as declined, stays the
\* current driver, and the same handler searches again.
OfferUnsent(r, c, d) ==
    /\ Stage(r, c) = "rank"
    /\ d \in Remaining(r, c)
    /\ r \in pendingRequests
    /\ d \notin driverSockets
    /\ currentDriver' = [currentDriver EXCEPT ![r] = d]
    /\ declinedDrivers' = [declinedDrivers EXCEPT ![r] = @ \cup {d}]
    /\ ClearTimeout(r)
    /\ SearchStarts(r, c, search[r][c].via)
    /\ UNCHANGED <<db, pendingRequests, driverSockets, answers, canceling, clients>>

\* sendOfferToDriver after the entry was deleted.
OfferAbandoned(r, c) ==
    /\ Stage(r, c) = "rank"
    /\ Remaining(r, c) # {}
    /\ r \notin pendingRequests
    /\ SearchEnds(r, c)
    /\ UNCHANGED <<db, entry, driverSockets, answers, canceling, clients>>

\* No candidate is left: handleNoDriversFound, whether or not the request is
\* still listed.
NoCandidate(r, c) ==
    /\ Stage(r, c) = "rank"
    /\ Remaining(r, c) = {}
    /\ SearchGoesTo(r, c, "expire")
    /\ UNCHANGED <<db, entry, driverSockets, answers, canceling, clients>>

MarkExpired(r, c) ==
    /\ Stage(r, c) = "expire"
    /\ requestStatus' = [requestStatus EXCEPT ![r] = "EXPIRED"]
    /\ SearchGoesTo(r, c, "expired")
    /\ UNCHANGED <<driverStatus, trip, entry, driverSockets, answers, canceling, clients>>

NotifyNoDrivers(r, c) ==
    /\ Stage(r, c) = "expired"
    /\ SendStatusToRider(r, "no_drivers")
    /\ Unlist(r)
    /\ SearchEnds(r, c)
    /\ UNCHANGED <<db, currentDriver, declinedDrivers, timeoutHandle, driverSockets,
                   answers, canceling, offers>>

-----------------------------------------------------------------------------
(***************************************************************************)
(* The driver's answer, and its absence.                                   *)
(***************************************************************************)

\* The timer fires; handleDriverTimeout returns at once when the entry is
\* gone or has no current driver.
TimeoutFires(r) ==
    /\ r \in timeoutHandle
    /\ timeoutHandle' = timeoutHandle \ {r}
    /\ IF r \in pendingRequests /\ currentDriver[r] # None
       THEN /\ Declines(r, currentDriver[r])
            /\ SendStatusToRider(r, "matching")
            /\ SearchStarts(r, currentDriver[r], "timer")
       ELSE UNCHANGED <<declinedDrivers, currentDriver, riderStatus, search>>
    /\ UNCHANGED <<db, pendingRequests, driverSockets, answers, canceling, offers>>

\* The next answer the app of a driver that got the offer sends.
NextAnswer(r, d, n) ==
    /\ d \in offers[r]
    /\ answers[r][d][n] = "unsent"
    /\ \A m \in AnswerIndex : m < n => answers[r][d][m] # "unsent"

\* handleDriverAccept up to the first write of TripsService.create.
DriverAccept(r, d, n) ==
    /\ NextAnswer(r, d, n)
    /\ IsCurrent(r, d)
    /\ ClearTimeout(r)
    /\ AnswerGoesTo(r, d, n, "busy")
    /\ UNCHANGED <<db, pendingRequests, currentDriver, declinedDrivers, driverSockets,
                   search, canceling, clients>>

DriverDecline(r, d, n) ==
    /\ NextAnswer(r, d, n)
    /\ IsCurrent(r, d)
    /\ ClearTimeout(r)
    /\ Declines(r, d)
    /\ SendStatusToRider(r, "driver_declined")
    /\ AnswerGoesTo(r, d, n, "done")
    /\ SearchStarts(r, d, "ws")
    /\ UNCHANGED <<db, pendingRequests, driverSockets, canceling, offers>>

\* Either answer, from a driver the request is not waiting for.
AnswerIgnored(r, d, n) ==
    /\ NextAnswer(r, d, n)
    /\ ~ IsCurrent(r, d)
    /\ AnswerGoesTo(r, d, n, "done")
    /\ UNCHANGED <<db, entry, driverSockets, search, canceling, clients>>

\* TripsService.create: three writes, one after the other.
SetDriverBusy(r, d, n) ==
    /\ answers[r][d][n] = "busy"
    /\ driverStatus' = [driverStatus EXCEPT ![d] = "BUSY"]
    /\ AnswerGoesTo(r, d, n, "match")
    /\ UNCHANGED <<requestStatus, trip, entry, driverSockets, search, canceling, clients>>

MarkMatched(r, d, n) ==
    /\ answers[r][d][n] = "match"
    /\ requestStatus' = [requestStatus EXCEPT ![r] = "MATCHED"]
    /\ AnswerGoesTo(r, d, n, "create")
    /\ UNCHANGED <<driverStatus, trip, entry, driverSockets, search, canceling, clients>>

CreateTrip(r, d, n) ==
    /\ answers[r][d][n] = "create"
    /\ trip[r] = None
    /\ trip' = [trip EXCEPT ![r] = d]
    /\ AnswerGoesTo(r, d, n, "notify")
    /\ UNCHANGED <<requestStatus, driverStatus, entry, driverSockets, search, canceling, clients>>

\* Trip.rideRequestId is unique: the second insert throws.
CreateTripRejected(r, d, n) ==
    /\ answers[r][d][n] = "create"
    /\ trip[r] # None
    /\ AnswerGoesTo(r, d, n, "done")
    /\ UNCHANGED <<db, entry, driverSockets, search, canceling, clients>>

\* Back in handleDriverAccept with the trip.
NotifyMatched(r, d, n) ==
    /\ answers[r][d][n] = "notify"
    /\ currentDriver[r] # None
    /\ SendStatusToRider(r, "matched")
    /\ Unlist(r)
    /\ AnswerGoesTo(r, d, n, "done")
    /\ UNCHANGED <<db, currentDriver, declinedDrivers, timeoutHandle, driverSockets,
                   search, canceling, offers>>

\* currentDriver.pickupEta of a null currentDriver: a TypeError, and neither
\* the message nor the clean-up after it happens.
NotifyFails(r, d, n) ==
    /\ answers[r][d][n] = "notify"
    /\ currentDriver[r] = None
    /\ AnswerGoesTo(r, d, n, "done")
    /\ UNCHANGED <<db, entry, driverSockets, search, canceling, clients>>

-----------------------------------------------------------------------------
(***************************************************************************)
(* The rider cancels.  One cancelRequest per request is in flight at once. *)
(***************************************************************************)

\* The findUnique and the checks on what it returned.
CancelRead(r) ==
    /\ r \in MayCancel
    /\ canceling[r] = "idle"
    /\ requestStatus[r] \notin {"NONE", "MATCHED"}
    /\ canceling' = [canceling EXCEPT ![r] = "checked"]
    /\ UNCHANGED <<db, entry, driverSockets, search, answers, clients>>

CancelUnlist(r) ==
    /\ canceling[r] = "checked"
    /\ IF r \in pendingRequests THEN ClearTimeout(r) ELSE KeepTimeout(r)
    /\ Unlist(r)
    /\ canceling' = [canceling EXCEPT ![r] = "write"]
    /\ UNCHANGED <<db, currentDriver, declinedDrivers, driverSockets, search, answers, clients>>

CancelWrite(r) ==
    /\ canceling[r] = "write"
    /\ requestStatus' = [requestStatus EXCEPT ![r] = "CANCELED"]
    /\ canceling' = [canceling EXCEPT ![r] = "idle"]
    /\ UNCHANGED <<driverStatus, trip, entry, driverSockets, search, answers, clients>>

-----------------------------------------------------------------------------
(***************************************************************************)
(* Drivers come, go and set their own status.                              *)
(***************************************************************************)
DriverConnects(d) ==
    /\ d \notin driverSockets
    /\ driverSockets' = driverSockets \cup {d}
    /\ UNCHANGED <<db, entry, search, answers, canceling, clients>>

DriverDisconnects(d) ==
    /\ d \in driverSockets
    /\ driverSockets' = driverSockets \ {d}
    /\ UNCHANGED <<db, entry, search, answers, canceling, clients>>

\* PATCH /drivers/:id/status: no look at the driver's current status or trip.
UpdateDriverStatus(d, status) ==
    /\ status \in StatusWrites
    /\ driverStatus[d] # status
    /\ driverStatus' = [driverStatus EXCEPT ![d] = status]
    /\ UNCHANGED <<requestStatus, trip, entry, driverSockets, search, answers, canceling, clients>>

-----------------------------------------------------------------------------
(***************************************************************************)
(* Failures.  An exception ends the handler; where an HTTP or WebSocket    *)
(* filter catches it nothing else happens, but handleDriverTimeout is not  *)
(* awaited by anyone and its rejection takes the process down.             *)
(***************************************************************************)
SearchThrows(r, c) ==
    IF search[r][c].via = "timer"
    THEN ServerRestarts
    ELSE /\ SearchEnds(r, c)
         /\ UNCHANGED <<db, entry, driverSockets, answers, canceling, clients>>

\* Redis, the driver query, or the routing service.
SearchFails(r, c) ==
    /\ "search" \in Faults
    /\ \/ Stage(r, c) = "query"
       \/ Stage(r, c) = "rank" /\ search[r][c].cands # {}
    /\ SearchThrows(r, c)

ExpireFails(r, c) ==
    /\ "database" \in Faults
    /\ Stage(r, c) = "expire"
    /\ SearchThrows(r, c)

AcceptFails(r, d, n) ==
    /\ "database" \in Faults
    /\ answers[r][d][n] \in {"busy", "match", "create"}
    /\ AnswerGoesTo(r, d, n, "done")
    /\ UNCHANGED <<db, entry, driverSockets, search, canceling, clients>>

CancelFails(r) ==
    /\ "database" \in Faults
    /\ canceling[r] = "write"
    /\ canceling' = [canceling EXCEPT ![r] = "idle"]
    /\ UNCHANGED <<db, entry, driverSockets, search, answers, clients>>

Crash == "crash" \in Faults /\ ServerRestarts

-----------------------------------------------------------------------------
\* What the handlers in flight do next.
SearchStep(r, c) ==
    \/ FindAvailable(r, c)
    \/ \E d \in Driver : OfferSent(r, c, d) \/ OfferUnsent(r, c, d)
    \/ OfferAbandoned(r, c)
    \/ NoCandidate(r, c)
    \/ MarkExpired(r, c)
    \/ NotifyNoDrivers(r, c)

AcceptStep(r, d, n) ==
    \/ SetDriverBusy(r, d, n)
    \/ MarkMatched(r, d, n)
    \/ CreateTrip(r, d, n)
    \/ CreateTripRejected(r, d, n)
    \/ NotifyMatched(r, d, n)
    \/ NotifyFails(r, d, n)

CancelStep(r) == CancelUnlist(r) \/ CancelWrite(r)

\* What clients and the network do.
Answer(r, d, n) == DriverAccept(r, d, n) \/ DriverDecline(r, d, n) \/ AnswerIgnored(r, d, n)

Environment ==
    \/ \E r \in Request : CreateRideRequest(r) \/ CancelRead(r)
    \/ \E r \in Request, d \in Driver, n \in AnswerIndex : Answer(r, d, n)
    \/ \E d \in Driver : DriverConnects(d) \/ DriverDisconnects(d)
    \/ \E d \in Driver, status \in StatusWrites : UpdateDriverStatus(d, status)

Failure ==
    \/ \E r \in Request, c \in Cause : SearchFails(r, c) \/ ExpireFails(r, c)
    \/ \E r \in Request, d \in Driver, n \in AnswerIndex : AcceptFails(r, d, n)
    \/ \E r \in Request : CancelFails(r)
    \/ Crash

Next ==
    \/ \E r \in Request : StartMatching(r) \/ TimeoutFires(r) \/ CancelStep(r)
    \/ \E r \in Request, c \in Cause : SearchStep(r, c)
    \/ \E r \in Request, d \in Driver, n \in AnswerIndex : AcceptStep(r, d, n)
    \/ Environment
    \/ Failure

Spec == Init /\ [][Next]_vars

\* The event loop resumes every handler whose answer has come, and fires
\* every timer that is due.  Nothing is promised of clients.
Fairness ==
    /\ \A r \in Request : WF_vars(StartMatching(r)) /\ WF_vars(TimeoutFires(r))
                          /\ WF_vars(CancelStep(r))
    /\ \A r \in Request, c \in Cause : WF_vars(SearchStep(r, c))
    /\ \A r \in Request, d \in Driver, n \in AnswerIndex : WF_vars(AcceptStep(r, d, n))

FairSpec == Spec /\ Fairness

-----------------------------------------------------------------------------
(***************************************************************************)
(* Safety, whatever fails and however often a driver's app answers.        *)
(***************************************************************************)
Searching(r)      == \E c \in Cause : Stage(r, c) # "idle"
AcceptInFlight(r) == \E d \in Driver, n \in AnswerIndex : Accepting(r, d, n)

\* One chain of tryNextDriver calls works on a request: no search starts while
\* another runs, or while an offer's timer is still armed.  Otherwise two
\* drivers would hold the offer of one request (rides.service.ts:235-254).
OneSearchPerRequest ==
    \A r \in Request :
        /\ r \in timeoutHandle => ~ Searching(r)
        /\ \A c1, c2 \in Cause :
              Stage(r, c1) # "idle" /\ Stage(r, c2) # "idle" => c1 = c2

\* Whoever a timer starts counting for never had an offer of this request before:
\* no second answer, late timer, failed accept or restarted server makes the
\* search go back to a driver it has asked, also where it forgets whom it waits
\* for (rides.service.ts:229-254, 268-282; matching.service.ts:139-141).
NobodyIsAskedTwice ==
    [][\A r \in Request :
          r \in timeoutHandle' \ timeoutHandle => currentDriver'[r] \notin offers[r]]_vars

-----------------------------------------------------------------------------
(***************************************************************************)
(* Safety, whatever fails, when a driver's app answers an offer once       *)
(* (MaxAnswers = 1).                                                       *)
(***************************************************************************)

\* Acting on an accept excludes everything else that could decide the request:
\* a second accept, the timer, the search for another driver.  The Map entry
\* they share has no lock, and the three writes of TripsService.create leave it
\* in place while they are awaited (rides.service.ts:184-213).
AcceptExcludesOthers ==
    \A r \in Request :
        /\ AcceptInFlight(r) => r \notin timeoutHandle /\ ~ Searching(r)
        /\ \A d1, d2 \in Driver : \A n1, n2 \in AnswerIndex :
              Accepting(r, d1, n1) /\ Accepting(r, d2, n2) => d1 = d2 /\ n1 = n2

\* A timer that will declare a driver silent belongs to an offer that this
\* driver received, has not answered, and can still accept.
TimerHasOpenOffer ==
    \A r \in timeoutHandle :
        /\ r \in pendingRequests
        /\ currentDriver[r] \in offers[r] \ declinedDrivers[r]
        /\ \A n \in AnswerIndex : answers[r][currentDriver[r]][n] = "unsent"

\* A request the search gave up on has no trip, now or later: the write of
\* EXPIRED and the three writes of an accept never meet.
ExpiredHasNoTrip ==
    \A r \in Request : requestStatus[r] = "EXPIRED" => trip[r] = None

\* No trip for a driver that declined, let the offer time out, or never got it.
TripOnlyForOfferedDriver ==
    \A r \in Request : trip[r] # None => trip[r] \in offers[r] \ declinedDrivers[r]

\* Once the rider was told "matched", no later message of a slower handler
\* takes it back.
MatchedIsFinalWord ==
    [][\A r \in Request : riderStatus[r] = "matched" => riderStatus'[r] = "matched"]_vars

\* The offer protocol, for the driver whose answer is awaited or being acted on.
Holder(r) ==
    IF r \in timeoutHandle THEN currentDriver[r]
    ELSE IF \E d \in Driver, n \in AnswerIndex : answers[r][d][n] \in {"busy", "match", "create"}
         THEN CHOOSE d \in Driver :
                 \E n \in AnswerIndex : answers[r][d][n] \in {"busy", "match", "create"}
         ELSE None

Protocol == INSTANCE OfferProtocol WITH
    asked <- offers, holder <- [r \in Request |-> Holder(r)], assigned <- trip

\* Every step of the handlers is a step of the offer protocol: one holder at a
\* time, nobody asked twice, a trip only for the holder.
ImplementsOfferProtocol == Protocol!Spec

-----------------------------------------------------------------------------
(***************************************************************************)
(* Safety and liveness while nothing fails (Faults = {}, MaxAnswers = 1).  *)
(***************************************************************************)

\* A listed request is never forgotten: something in flight or armed will
\* decide it.
PendingRequestIsDriven ==
    \A r \in pendingRequests : r \in timeoutHandle \/ Searching(r) \/ AcceptInFlight(r)

\* A driver is BUSY because of a trip it has or is being given (as long as
\* drivers do not set BUSY themselves).
BusyHasTrip ==
    \A d \in Driver : driverStatus[d] = "BUSY" =>
        \E r \in Request :
            \/ trip[r] = d
            \/ \E n \in AnswerIndex : answers[r][d][n] \in {"match", "create"}

\* A trip's rider is told of it: "Trip is created and both parties are
\* notified" (apps/backend/README.md:172).
TripIsAnnounced ==
    \A r \in Request : trip[r] # None =>
        \/ riderStatus[r] = "matched"
        \/ \E d \in Driver, n \in AnswerIndex : answers[r][d][n] = "notify"

\* Every request gets an outcome the rider is told of, unless the rider
\* canceled it: drivers that vanish, stay silent or are never there included.
EveryRequestSettles ==
    \A r \in Request :
        requestStatus[r] = "MATCHING" ~>
            riderStatus[r] \in {"matched", "no_drivers"} \/ requestStatus[r] = "CANCELED"

\* The Map does not leak: every entry is deleted.
PendingRequestsDrain ==
    \A r \in Request : r \in pendingRequests ~> r \notin pendingRequests

-----------------------------------------------------------------------------
(***************************************************************************)
(* What the repository says of the code, and the code does not do.         *)
(***************************************************************************)

\* 'Cannot cancel a matched request. Cancel the trip instead.'
\* (rides.service.ts:358)
MatchedIsNotCanceled ==
    [][\A r \in Request : requestStatus[r] = "MATCHED" => requestStatus'[r] # "CANCELED"]_vars

\* "Filter to only ONLINE drivers (not BUSY)" (matching.service.ts:86): the
\* driver an offer goes to is not BUSY.
OfferGoesToFreeDriver ==
    [][\A r \in Request, d \in Driver :
          d \in offers'[r] \ offers[r] => driverStatus[d] # "BUSY"]_vars
=============================================================================
