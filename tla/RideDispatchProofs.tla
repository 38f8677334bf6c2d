------------------------- MODULE RideDispatchProofs -------------------------
(***************************************************************************)
(* What holds of RideDispatch for every set of requests and drivers, every *)
(* choice of who may cancel and of what may fail: first when an app        *)
(* answers an offer once, then however often it does, and last what holds  *)
(* as long as nothing fails.                                               *)
(***************************************************************************)
EXTENDS RideDispatch, TLAPS

(***************************************************************************)
(* The inductive invariant, request by request.                            *)
(***************************************************************************)

\* A request without a row has no history, and a request whose entry is about
\* to be made was offered to nobody.
FreshInv(r) ==
    /\ requestStatus[r] = "NONE" => r \notin pendingRequests /\ offers[r] = {} /\ ~ Searching(r)
    /\ Stage(r, None) = "begin" => offers[r] = {}
    /\ \A d \in Driver : Stage(r, d) # "begin"

\* Who holds the offer: while a search runs nobody does, and everybody asked so
\* far has declined; otherwise only the current driver may not have.
OfferInv(r) ==
    /\ Searching(r) => currentDriver[r] \notin offers[r]
    /\ currentDriver[r] \in offers[r] => currentDriver[r] \notin declinedDrivers[r]
    /\ r \in pendingRequests \/ Searching(r) =>
          offers[r] \subseteq declinedDrivers[r] \cup {currentDriver[r]}
    /\ \A d \in Driver, n \in AnswerIndex : answers[r][d][n] # "unsent" => d \in offers[r]

TimerInv(r) == r \in timeoutHandle =>
    /\ r \in pendingRequests
    /\ ~ Searching(r)
    /\ currentDriver[r] \in offers[r] \ declinedDrivers[r]
    /\ \A n \in AnswerIndex : answers[r][currentDriver[r]][n] = "unsent"

SearchInv(r) == \A c1, c2 \in Cause :
    Stage(r, c1) # "idle" /\ Stage(r, c2) # "idle" => c1 = c2

\* An accept in flight keeps its driver current, is alone, and makes the trip
\* of a request that has none.
AcceptInv(r) == \A d \in Driver, n \in AnswerIndex : Accepting(r, d, n) =>
    /\ currentDriver[r] = d
    /\ d \notin declinedDrivers[r]
    /\ r \notin timeoutHandle
    /\ ~ Searching(r)
    /\ trip[r] = IF answers[r][d][n] = "notify" THEN d ELSE None
    /\ answers[r][d][n] \in {"create", "notify"} => requestStatus[r] \in {"MATCHED", "CANCELED"}

\* A trip closes its request: whoever could still decide it is the accept
\* that made the trip.
TripInv(r) == trip[r] # None =>
    /\ trip[r] \in offers[r] \ declinedDrivers[r]
    /\ requestStatus[r] \in {"MATCHED", "CANCELED"}
    /\ r \notin timeoutHandle
    /\ ~ Searching(r)
    /\ r \in pendingRequests => \E n \in AnswerIndex : answers[r][trip[r]][n] = "notify"

WordInv(r) == riderStatus[r] = "matched" => trip[r] # None /\ r \notin pendingRequests

RequestInv(r) ==
    /\ FreshInv(r)
    /\ OfferInv(r)
    /\ TimerInv(r)
    /\ SearchInv(r)
    /\ AcceptInv(r)
    /\ TripInv(r)
    /\ WordInv(r)

IInv == TypeOK /\ \A r \in Request : RequestInv(r)

\* Every app answers an offer once, which it need not as MaxAnswers > 1.
AnswersOnce == \A r \in Request, d \in Driver, n \in AnswerIndex :
    n # 1 => answers[r][d][n] = "unsent"

-----------------------------------------------------------------------------
(***************************************************************************)
(* Type correctness, for any number of answers.                            *)
(***************************************************************************)

\* Records of a search, as the steps build them.
LEMMA SearchStateType ==
  /\ NoSearch \in SearchState
  /\ \A state \in SearchState : state.stage \in SearchStages /\ state.cands \subseteq Driver
  /\ \A state \in SearchState, stage \in SearchStages : [state EXCEPT !.stage = stage] \in SearchState
  /\ \A state \in SearchState, stage \in SearchStages, found \in SUBSET Driver :
        [stage |-> stage, via |-> state.via, cands |-> found] \in SearchState
  BY DEF NoSearch, SearchState, SearchStages

\* Replacing one search keeps the type of all.
LEMMA SearchUpdateType ==
  ASSUME TypeOK, NEW r \in Request, NEW c \in Cause, NEW state \in SearchState,
         search' = [search EXCEPT ![r][c] = state]
  PROVE  search' \in [Request -> [Cause -> SearchState]]
  BY DEF TypeOK

\* Each way a step moves a search on.
LEMMA SearchMoveType ==
  ASSUME TypeOK, NEW r \in Request, NEW c \in Cause
  PROVE  /\ search[r][c] \in SearchState
         /\ \A stage \in SearchStages : SearchGoesTo(r, c, stage) =>
               search' \in [Request -> [Cause -> SearchState]]
         /\ SearchEnds(r, c) => search' \in [Request -> [Cause -> SearchState]]
         /\ \A via \in {"http", "ws", "timer"} : SearchStarts(r, c, via) =>
               search' \in [Request -> [Cause -> SearchState]]
<1>1. search[r][c] \in SearchState
  BY DEF TypeOK
<1>2. ASSUME NEW stage \in SearchStages, SearchGoesTo(r, c, stage)
      PROVE  search' \in [Request -> [Cause -> SearchState]]
  <2>1. search' = [search EXCEPT ![r][c] = [search[r][c] EXCEPT !.stage = stage]]
    BY <1>2 DEF SearchGoesTo, TypeOK
  <2> QED BY <1>1, <2>1, SearchStateType, SearchUpdateType
<1>3. SearchEnds(r, c) => search' \in [Request -> [Cause -> SearchState]]
  BY SearchStateType, SearchUpdateType DEF SearchEnds
<1>4. ASSUME NEW via \in {"http", "ws", "timer"}, SearchStarts(r, c, via)
      PROVE  search' \in [Request -> [Cause -> SearchState]]
  <2>1. [stage |-> "query", via |-> via, cands |-> {}] \in SearchState
    BY DEF SearchState, SearchStages
  <2> QED BY <1>4, <2>1, SearchUpdateType DEF SearchStarts
<1> QED
  BY <1>1, <1>2, <1>3, <1>4

\* The starting state is well typed.
LEMMA InitType == Init => TypeOK
  BY DispatchAssumption, SearchStateType DEF Init, TypeOK, Cause, RequestStatuses,
     RiderStatuses, AcceptStages, CancelStages

\* A restart of the server leaves everything well typed.
LEMMA RestartType == TypeOK /\ ServerRestarts => TypeOK'
  BY DispatchAssumption, SearchStateType DEF ServerRestarts, TypeOK, Cause, Accepting,
     CancelStages, db, clients

\* The search for a driver keeps the types.
LEMMA SearchType ==
  ASSUME TypeOK, NEW r \in Request, NEW c \in Cause, SearchStep(r, c)
  PROVE  TypeOK'
<1> USE DispatchAssumption, SearchMoveType DEF db, entry, clients
<1>1. CASE FindAvailable(r, c)
  <2>1. PICK found \in SUBSET Driver :
           search' = [search EXCEPT ![r][c] = [stage |-> "rank", via |-> search[r][c].via, cands |-> found]]
    BY <1>1 DEF FindAvailable, TypeOK
  <2>2. [stage |-> "rank", via |-> search[r][c].via, cands |-> found] \in SearchState
    BY SearchStateType DEF SearchStages
  <2>3. search' \in [Request -> [Cause -> SearchState]]
    BY <2>1, <2>2, SearchUpdateType
  <2> QED BY <1>1, <2>3 DEF FindAvailable, TypeOK
<1>2. ASSUME NEW d \in Driver, OfferSent(r, c, d) PROVE TypeOK'
  BY <1>2 DEF OfferSent, ArmTimeout, TypeOK, Cause
<1>3. ASSUME NEW d \in Driver, OfferUnsent(r, c, d) PROVE TypeOK'
  <2>1. search[r][c].via \in {"http", "ws", "timer"}
    BY DEF SearchState
  <2>2. search' \in [Request -> [Cause -> SearchState]]
    BY <1>3, <2>1 DEF OfferUnsent
  <2>3. /\ currentDriver' \in [Request -> Cause]
        /\ declinedDrivers' \in [Request -> SUBSET Driver]
        /\ timeoutHandle' \subseteq Request
    BY <1>3 DEF OfferUnsent, ClearTimeout, TypeOK, Cause
  <2> QED BY <1>3, <2>2, <2>3 DEF OfferUnsent, TypeOK
<1>4. CASE OfferAbandoned(r, c)
  BY <1>4 DEF OfferAbandoned, TypeOK
<1>5. CASE NoCandidate(r, c)
  BY <1>5 DEF NoCandidate, TypeOK, SearchStages
<1>6. CASE MarkExpired(r, c)
  BY <1>6 DEF MarkExpired, RequestStatuses, TypeOK, SearchStages
<1>7. CASE NotifyNoDrivers(r, c)
  BY <1>7 DEF NotifyNoDrivers, SendStatusToRider, Unlist, RiderStatuses, TypeOK
<1> QED
  BY <1>1, <1>2, <1>3, <1>4, <1>5, <1>6, <1>7 DEF SearchStep

\* Replacing the state of one answer keeps the type of all.
LEMMA AnswerUpdateType ==
  ASSUME TypeOK, NEW r \in Request, NEW d \in Driver, NEW n \in AnswerIndex,
         NEW stage \in {"unsent", "done"} \cup AcceptStages, AnswerGoesTo(r, d, n, stage)
  PROVE  answers' \in [Request -> [Driver -> [AnswerIndex -> {"unsent", "done"} \cup AcceptStages]]]
  BY DEF TypeOK, AnswerGoesTo

\* Handling an answer keeps the types.
LEMMA AnswerType ==
  ASSUME TypeOK, NEW r \in Request, NEW d \in Driver, NEW n \in AnswerIndex,
         Answer(r, d, n) \/ AcceptStep(r, d, n) \/ AcceptFails(r, d, n)
  PROVE  TypeOK'
<1>0. \A stage \in {"done", "busy", "match", "create", "notify"} : AnswerGoesTo(r, d, n, stage) =>
         answers' \in [Request -> [Driver -> [AnswerIndex -> {"unsent", "done"} \cup AcceptStages]]]
  BY AnswerUpdateType DEF AcceptStages
<1> USE DispatchAssumption, <1>0 DEF db, entry, clients
<1>1. CASE DriverAccept(r, d, n)
  BY <1>1 DEF DriverAccept, ClearTimeout, TypeOK
<1>2. CASE DriverDecline(r, d, n)
  <2>1. search' \in [Request -> [Cause -> SearchState]]
    BY <1>2, SearchMoveType DEF DriverDecline, Cause
  <2> QED BY <1>2, <2>1 DEF DriverDecline, Declines, ClearTimeout, SendStatusToRider,
             RiderStatuses, TypeOK, Cause
<1>3. CASE AnswerIgnored(r, d, n)
  BY <1>3 DEF AnswerIgnored, TypeOK
<1>4. CASE SetDriverBusy(r, d, n)
  BY <1>4 DEF SetDriverBusy, TypeOK
<1>5. CASE MarkMatched(r, d, n)
  BY <1>5 DEF MarkMatched, RequestStatuses, TypeOK
<1>6. CASE CreateTrip(r, d, n)
  BY <1>6 DEF CreateTrip, TypeOK, Cause
<1>7. CASE CreateTripRejected(r, d, n)
  BY <1>7 DEF CreateTripRejected, TypeOK
<1>8. CASE NotifyMatched(r, d, n)
  BY <1>8 DEF NotifyMatched, SendStatusToRider, Unlist, RiderStatuses, TypeOK
<1>9. CASE NotifyFails(r, d, n)
  BY <1>9 DEF NotifyFails, TypeOK
<1>10. CASE AcceptFails(r, d, n)
  BY <1>10 DEF AcceptFails, TypeOK
<1> QED
  BY <1>1, <1>2, <1>3, <1>4, <1>5, <1>6, <1>7, <1>8, <1>9, <1>10 DEF Answer, AcceptStep

\* So does everything else a request goes through.
LEMMA RequestStepType ==
  ASSUME TypeOK, NEW r \in Request,
         \/ StartMatching(r) \/ TimeoutFires(r) \/ CancelStep(r)
         \/ CreateRideRequest(r) \/ CancelRead(r) \/ CancelFails(r)
  PROVE  TypeOK'
<1> USE DispatchAssumption, SearchMoveType DEF db, entry, clients
<1>1. CASE StartMatching(r)
  BY <1>1 DEF StartMatching, TypeOK, Cause, SearchStages
<1>2. CASE TimeoutFires(r)
  <2>1. CASE r \in pendingRequests /\ currentDriver[r] # None
    <3>1. currentDriver[r] \in Driver
      BY <2>1 DEF TypeOK, Cause
    <3>2. search' \in [Request -> [Cause -> SearchState]]
      BY <1>2, <2>1, <3>1 DEF TimeoutFires, Cause
    <3>3. declinedDrivers' = [declinedDrivers EXCEPT ![r] = @ \cup {currentDriver[r]}]
      BY <1>2, <2>1 DEF TimeoutFires, Declines
    <3>4. declinedDrivers' \in [Request -> SUBSET Driver]
      BY <3>1, <3>3 DEF TypeOK
    <3>5. /\ currentDriver' \in [Request -> Cause]
          /\ timeoutHandle' \subseteq Request
          /\ riderStatus' \in [Request -> RiderStatuses]
      BY <1>2, <2>1 DEF TimeoutFires, Declines, SendStatusToRider, RiderStatuses,
         TypeOK, Cause
    <3> QED BY <1>2, <3>2, <3>4, <3>5 DEF TimeoutFires, TypeOK
  <2>2. CASE ~ (r \in pendingRequests /\ currentDriver[r] # None)
    BY <1>2, <2>2 DEF TimeoutFires, TypeOK
  <2> QED BY <2>1, <2>2
<1>3. CASE CancelUnlist(r)
  BY <1>3 DEF CancelUnlist, ClearTimeout, KeepTimeout, Unlist, CancelStages, TypeOK
<1>4. CASE CancelWrite(r)
  BY <1>4 DEF CancelWrite, CancelStages, RequestStatuses, TypeOK
<1>5. CASE CreateRideRequest(r)
  BY <1>5 DEF CreateRideRequest, RequestStatuses, SearchStages, TypeOK, Cause
<1>6. CASE CancelRead(r)
  BY <1>6 DEF CancelRead, CancelStages, TypeOK
<1>7. CASE CancelFails(r)
  BY <1>7 DEF CancelFails, CancelStages, TypeOK
<1> QED
  BY <1>1, <1>2, <1>3, <1>4, <1>5, <1>6, <1>7 DEF CancelStep

\* Drivers that come, go or change their status, and failing searches.
LEMMA OtherStepType ==
  ASSUME TypeOK,
         \/ \E d \in Driver : DriverConnects(d) \/ DriverDisconnects(d)
         \/ \E d \in Driver, status \in StatusWrites : UpdateDriverStatus(d, status)
         \/ \E r \in Request, c \in Cause : SearchThrows(r, c)
         \/ ServerRestarts
  PROVE  TypeOK'
<1>1. ASSUME NEW d \in Driver, DriverConnects(d) \/ DriverDisconnects(d) PROVE TypeOK'
  BY <1>1 DEF DriverConnects, DriverDisconnects, TypeOK, db, entry, clients
<1>2. ASSUME NEW d \in Driver, NEW status \in StatusWrites, UpdateDriverStatus(d, status)
      PROVE  TypeOK'
  BY <1>2, DispatchAssumption DEF UpdateDriverStatus, TypeOK, entry, clients
<1>3. ASSUME NEW r \in Request, NEW c \in Cause, SearchThrows(r, c) PROVE TypeOK'
  BY <1>3, SearchMoveType, RestartType DEF SearchThrows, TypeOK, db, entry, clients
<1> QED
  BY <1>1, <1>2, <1>3, RestartType

\* Every step keeps the types.
LEMMA NextType == TypeOK /\ [Next]_vars => TypeOK'
<1> SUFFICES ASSUME TypeOK, [Next]_vars PROVE TypeOK'
  OBVIOUS
<1>1. CASE UNCHANGED vars
  BY <1>1 DEF vars, db, entry, clients, TypeOK
<1>2. CASE Next
  BY <1>2, SearchType, AnswerType, RequestStepType, OtherStepType
     DEF Next, Environment, Failure, SearchFails, ExpireFails, Crash
<1> QED
  BY <1>1, <1>2

\* Type correctness: what the database, the server and the clients can hold.
THEOREM TypeCorrect == Spec => []TypeOK
  BY InitType, NextType, PTL DEF Spec

-----------------------------------------------------------------------------
(***************************************************************************)
(* The invariant, when an app answers an offer once.                       *)
(***************************************************************************)
SameRequest(q) ==
    /\ requestStatus'[q] = requestStatus[q]
    /\ trip'[q] = trip[q]
    /\ q \in pendingRequests' <=> q \in pendingRequests
    /\ currentDriver'[q] = currentDriver[q]
    /\ declinedDrivers'[q] = declinedDrivers[q]
    /\ q \in timeoutHandle' <=> q \in timeoutHandle
    /\ search'[q] = search[q]
    /\ answers'[q] = answers[q]
    /\ offers'[q] = offers[q]
    /\ riderStatus'[q] = riderStatus[q]

\* A request nothing happened to keeps its invariant.
LEMMA Frame ==
  ASSUME NEW q \in Request, RequestInv(q), SameRequest(q)
  PROVE  RequestInv(q)'
  BY DEF SameRequest, RequestInv, FreshInv, OfferInv, TimerInv, SearchInv, AcceptInv, TripInv,
     WordInv, Searching, Stage, Accepting

\* What a step on one search does to the stages of all searches.
LEMMA StageAfter ==
  ASSUME TypeOK, NEW r \in Request, NEW c \in Cause, NEW stage, NEW via
  PROVE  /\ SearchGoesTo(r, c, stage) =>
               \A k \in Cause : Stage(r, k)' = IF k = c THEN stage ELSE Stage(r, k)
         /\ SearchEnds(r, c) =>
               \A k \in Cause : Stage(r, k)' = IF k = c THEN "idle" ELSE Stage(r, k)
         /\ SearchStarts(r, c, via) =>
               \A k \in Cause : Stage(r, k)' = IF k = c THEN "query" ELSE Stage(r, k)
         /\ SearchGoesTo(r, c, stage) \/ SearchEnds(r, c) \/ SearchStarts(r, c, via) =>
               \A q \in Request : q # r => search'[q] = search[q]
<1>1. search \in [Request -> [Cause -> SearchState]]
  BY DEF TypeOK
<1>2. search[r][c] \in SearchState
  BY <1>1
<1>3. [search[r][c] EXCEPT !.stage = stage].stage = stage
  BY <1>2 DEF SearchState
<1>4. ASSUME SearchGoesTo(r, c, stage)
      PROVE  search' = [search EXCEPT ![r][c] = [search[r][c] EXCEPT !.stage = stage]]
  BY <1>1, <1>4 DEF SearchGoesTo
<1>5. SearchGoesTo(r, c, stage) =>
         /\ \A k \in Cause : Stage(r, k)' = IF k = c THEN stage ELSE Stage(r, k)
         /\ \A q \in Request : q # r => search'[q] = search[q]
  <2> SUFFICES ASSUME SearchGoesTo(r, c, stage)
               PROVE  /\ \A k \in Cause : Stage(r, k)' = IF k = c THEN stage ELSE Stage(r, k)
                      /\ \A q \in Request : q # r => search'[q] = search[q]
    OBVIOUS
  <2> DEFINE state == [search[r][c] EXCEPT !.stage = stage]
  <2>1. search' = [search EXCEPT ![r][c] = state]
    BY <1>4
  <2>2. state.stage = stage
    BY <1>3
  <2> HIDE DEF state
  <2> QED BY <1>1, <2>1, <2>2 DEF Stage
<1>6. SearchEnds(r, c) =>
         /\ \A k \in Cause : Stage(r, k)' = IF k = c THEN "idle" ELSE Stage(r, k)
         /\ \A q \in Request : q # r => search'[q] = search[q]
  BY <1>1 DEF SearchEnds, Stage, NoSearch
<1>7. SearchStarts(r, c, via) =>
         /\ \A k \in Cause : Stage(r, k)' = IF k = c THEN "query" ELSE Stage(r, k)
         /\ \A q \in Request : q # r => search'[q] = search[q]
  BY <1>1 DEF SearchStarts, Stage
<1> QED
  BY <1>5, <1>6, <1>7

\* What a step on one answer does to the stages of all answers.
LEMMA AnswerAfter ==
  ASSUME TypeOK, NEW r \in Request, NEW d \in Driver, NEW n \in AnswerIndex, NEW stage,
         AnswerGoesTo(r, d, n, stage)
  PROVE  /\ \A e \in Driver, m \in AnswerIndex :
               answers'[r][e][m] = IF e = d /\ m = n THEN stage ELSE answers[r][e][m]
         /\ \A q \in Request : q # r => answers'[q] = answers[q]
  BY DEF TypeOK, AnswerGoesTo

\* The search for a driver, for the request it works on.
LEMMA SearchKeepsInv ==
  ASSUME IInv, NEW r \in Request, NEW c \in Cause, SearchStep(r, c)
  PROVE  RequestInv(r)'
<1> USE DispatchAssumption
<1>0. TypeOK /\ RequestInv(r)
  BY DEF IInv
<1> USE DEF RequestInv, FreshInv, OfferInv, TimerInv, SearchInv, AcceptInv, TripInv, WordInv,
        Searching, Accepting, Cause, db, entry, clients
<1>1. CASE FindAvailable(r, c)
  <2>1. PICK found :
           search' = [search EXCEPT ![r][c] = [stage |-> "rank", via |-> search[r][c].via, cands |-> found]]
    BY <1>0, <1>1 DEF FindAvailable, TypeOK
  <2>2. \A k \in Cause : Stage(r, k)' = IF k = c THEN "rank" ELSE Stage(r, k)
    BY <1>0, <2>1 DEF Stage, TypeOK
  <2> QED BY <1>0, <1>1, <2>2 DEF FindAvailable
<1>2. ASSUME NEW d \in Driver, OfferSent(r, c, d) PROVE RequestInv(r)'
  <2>1. \A k \in Cause : Stage(r, k)' = "idle"
    BY <1>0, <1>2, StageAfter DEF OfferSent
  <2> QED BY <1>0, <1>2, <2>1 DEF OfferSent, Remaining, ArmTimeout, AcceptStages, TypeOK
<1>3. ASSUME NEW d \in Driver, OfferUnsent(r, c, d) PROVE RequestInv(r)'
  <2>1. \A k \in Cause : Stage(r, k)' = IF k = c THEN "query" ELSE Stage(r, k)
    BY <1>0, <1>3, StageAfter DEF OfferUnsent
  <2>2. /\ r \in pendingRequests /\ Searching(r)
        /\ d \in Driver \ declinedDrivers[r]
        /\ r \notin timeoutHandle' /\ currentDriver'[r] = d
        /\ declinedDrivers'[r] = declinedDrivers[r] \cup {d}
        /\ UNCHANGED <<requestStatus, trip, pendingRequests, answers, offers, riderStatus>>
    BY <1>0, <1>3 DEF OfferUnsent, Remaining, ClearTimeout, TypeOK
  <2>3. offers[r] \subseteq declinedDrivers[r]
    BY <1>0, <2>2
  <2>4. OfferInv(r)'
    BY <1>0, <2>1, <2>2, <2>3
  <2>5. FreshInv(r)'
    BY <1>0, <2>1, <2>2
  <2>6. SearchInv(r)'
    <3>1. \A k \in Cause : Stage(r, k)' # "idle" <=> Stage(r, k) # "idle"
      BY <1>3, <2>1 DEF OfferUnsent
    <3>2. \A c1, c2 \in Cause : Stage(r, c1) # "idle" /\ Stage(r, c2) # "idle" => c1 = c2
      BY <1>0
    <3> QED BY <3>1, <3>2
  <2>7. TimerInv(r)' /\ AcceptInv(r)' /\ TripInv(r)' /\ WordInv(r)'
    BY <1>0, <2>1, <2>2
  <2> QED BY <2>4, <2>5, <2>6, <2>7
<1>4. CASE OfferAbandoned(r, c)
  <2>1. \A k \in Cause : Stage(r, k)' = "idle"
    BY <1>0, <1>4, StageAfter DEF OfferAbandoned
  <2> QED BY <1>0, <1>4, <2>1 DEF OfferAbandoned
<1>5. CASE NoCandidate(r, c)
  <2>1. \A k \in Cause : Stage(r, k)' = IF k = c THEN "expire" ELSE Stage(r, k)
    BY <1>0, <1>5, StageAfter DEF NoCandidate
  <2> QED BY <1>0, <1>5, <2>1 DEF NoCandidate
<1>6. CASE MarkExpired(r, c)
  <2>1. \A k \in Cause : Stage(r, k)' = IF k = c THEN "expired" ELSE Stage(r, k)
    BY <1>0, <1>6, StageAfter DEF MarkExpired
  <2>2. Searching(r) /\ requestStatus'[r] = "EXPIRED"
    BY <1>0, <1>6 DEF MarkExpired, TypeOK
  <2>3. /\ UNCHANGED <<trip, entry, answers, offers, riderStatus>>
        /\ \A k \in Cause : Stage(r, k)' = "idle" <=> Stage(r, k) = "idle"
        /\ \A k \in Cause : Stage(r, k)' # "begin" \/ Stage(r, k) = "begin"
    BY <1>6, <2>1 DEF MarkExpired
  <2> QED BY <1>0, <2>2, <2>3
<1>7. CASE NotifyNoDrivers(r, c)
  <2>1. \A k \in Cause : Stage(r, k)' = "idle"
    BY <1>0, <1>7, StageAfter DEF NotifyNoDrivers
  <2> QED BY <1>0, <1>7, <2>1 DEF NotifyNoDrivers, SendStatusToRider, Unlist, TypeOK
<1> QED
  BY <1>1, <1>2, <1>3, <1>4, <1>5, <1>6, <1>7 DEF SearchStep

\* The answer that is being worked on is the first.
LEMMA FirstAnswer ==
  ASSUME AnswersOnce, AnswersOnce', TypeOK,
         NEW r \in Request, NEW d \in Driver, NEW n \in AnswerIndex,
         Answer(r, d, n) \/ AcceptStep(r, d, n) \/ AcceptFails(r, d, n)
  PROVE  /\ 1 \in AnswerIndex /\ n = 1
         /\ \A e \in Driver, m \in AnswerIndex : m # 1 =>
               answers[r][e][m] = "unsent" /\ answers'[r][e][m] = "unsent"
<1>1. /\ 1 \in AnswerIndex
      /\ \A e \in Driver, m \in AnswerIndex : m # 1 =>
            answers[r][e][m] = "unsent" /\ answers'[r][e][m] = "unsent"
  BY DispatchAssumption DEF AnswerIndex, AnswersOnce
<1>2. \A stage : AnswerGoesTo(r, d, n, stage) => answers'[r][d][n] = stage
  BY AnswerAfter
<1> QED BY <1>1, <1>2 DEF Answer, AcceptStep, AcceptFails, DriverAccept, DriverDecline,
           AnswerIgnored, SetDriverBusy, MarkMatched, CreateTrip, CreateTripRejected,
           NotifyMatched, NotifyFails

\* Handling an answer, for the request it answers.
LEMMA AnswerKeepsInv ==
  ASSUME AnswersOnce, AnswersOnce', IInv,
         NEW r \in Request, NEW d \in Driver, NEW n \in AnswerIndex,
         Answer(r, d, n) \/ AcceptStep(r, d, n) \/ AcceptFails(r, d, n)
  PROVE  RequestInv(r)'
<1>0. TypeOK /\ RequestInv(r)
  BY DEF IInv
<1>a. /\ 1 \in AnswerIndex /\ n = 1
      /\ \A e \in Driver, m \in AnswerIndex : m # 1 =>
            answers[r][e][m] = "unsent" /\ answers'[r][e][m] = "unsent"
  BY <1>0, FirstAnswer
<1>b. \A stage : AnswerGoesTo(r, d, n, stage) =>
         \A e \in Driver : answers'[r][e][1] = IF e = d THEN stage ELSE answers[r][e][1]
  BY <1>0, <1>a, AnswerAfter
<1> USE DispatchAssumption, <1>0, <1>a, <1>b
    DEF RequestInv, Searching, Accepting, AcceptStages, Cause, db, entry, clients
<1>c. /\ None \notin offers[r]
      /\ d \in offers[r] /\ answers[r][d][1] = "unsent" /\ r \in pendingRequests
           /\ currentDriver[r] = d =>
         /\ trip[r] = None /\ ~ Searching(r) /\ d \notin declinedDrivers[r]
         /\ \A e \in Driver : ~ Accepting(r, e, 1)
  <2>1. None \notin offers[r]
    BY DEF TypeOK
  <2>2. ASSUME d \in offers[r], answers[r][d][1] = "unsent", r \in pendingRequests,
               currentDriver[r] = d
        PROVE  /\ trip[r] = None /\ ~ Searching(r) /\ d \notin declinedDrivers[r]
               /\ \A e \in Driver : ~ Accepting(r, e, 1)
    <3>1. \A e \in Driver : ~ Accepting(r, e, 1)
      BY <2>2 DEF AcceptInv
    <3>2. ~ Searching(r) /\ d \notin declinedDrivers[r]
      BY <2>2 DEF OfferInv
    <3>3. trip[r] = None
      BY <3>1, <2>2 DEF TripInv, OfferInv, TypeOK
    <3> QED BY <3>1, <3>2, <3>3
  <2> QED BY <2>1, <2>2
<1>1. CASE DriverAccept(r, d, n)
  <2>1. /\ d \in offers[r] /\ answers[r][d][1] = "unsent"
        /\ r \in pendingRequests /\ currentDriver[r] = d
        /\ r \notin timeoutHandle'
        /\ \A e \in Driver : answers'[r][e][1] = IF e = d THEN "busy" ELSE answers[r][e][1]
        /\ UNCHANGED <<db, pendingRequests, currentDriver, declinedDrivers, search, clients>>
    BY <1>1 DEF DriverAccept, NextAnswer, IsCurrent, ClearTimeout
  <2>2. FreshInv(r)' /\ OfferInv(r)' /\ TimerInv(r)' /\ SearchInv(r)' /\ WordInv(r)'
    BY <1>c, <2>1 DEF FreshInv, OfferInv, TimerInv, SearchInv, WordInv, Stage
  <2>3. AcceptInv(r)' /\ TripInv(r)'
    BY <1>c, <2>1 DEF AcceptInv, TripInv, Stage
  <2> QED BY <2>2, <2>3
<1>2. CASE DriverDecline(r, d, n)
  <2>1. /\ d \in offers[r] /\ answers[r][d][1] = "unsent"
        /\ r \in pendingRequests /\ currentDriver[r] = d
        /\ \A e \in Driver : answers'[r][e][1] = IF e = d THEN "done" ELSE answers[r][e][1]
    BY <1>2 DEF DriverDecline, NextAnswer, IsCurrent
  <2>2. \A k \in Cause : Stage(r, k)' = IF k = d THEN "query" ELSE Stage(r, k)
    BY <1>2, StageAfter DEF DriverDecline
  <2>3. /\ r \notin timeoutHandle' /\ currentDriver'[r] = None
        /\ declinedDrivers'[r] = declinedDrivers[r] \cup {d}
        /\ riderStatus'[r] = "driver_declined"
        /\ UNCHANGED <<db, pendingRequests, offers>>
    BY <1>2 DEF DriverDecline, Declines, ClearTimeout, SendStatusToRider, TypeOK
  <2>4. FreshInv(r)' /\ SearchInv(r)' /\ WordInv(r)' /\ TimerInv(r)'
    BY <1>c, <2>1, <2>2, <2>3 DEF FreshInv, SearchInv, WordInv, TimerInv
  <2>5. OfferInv(r)'
    BY <1>c, <2>1, <2>2, <2>3 DEF OfferInv
  <2>6. AcceptInv(r)' /\ TripInv(r)'
    BY <1>c, <2>1, <2>2, <2>3 DEF AcceptInv, TripInv
  <2> QED BY <2>4, <2>5, <2>6
<1>3. CASE AnswerIgnored(r, d, n)
  <2>1. /\ d \in offers[r] /\ answers[r][d][1] = "unsent"
        /\ r \in pendingRequests => currentDriver[r] # d
        /\ \A e \in Driver : answers'[r][e][1] = IF e = d THEN "done" ELSE answers[r][e][1]
        /\ UNCHANGED <<db, entry, search, clients>>
    BY <1>3 DEF AnswerIgnored, NextAnswer, IsCurrent
  <2>2. FreshInv(r)' /\ SearchInv(r)' /\ WordInv(r)'
    BY <2>1 DEF FreshInv, SearchInv, WordInv, Stage
  <2>3. OfferInv(r)'
    BY <2>1 DEF OfferInv, Stage
  <2>4. TimerInv(r)'
    BY <2>1 DEF TimerInv, Stage, TypeOK
  <2>5. AcceptInv(r)'
    BY <2>1 DEF AcceptInv, Stage
  <2>6. TripInv(r)'
    <3>1. ASSUME trip[r] # None, r \in pendingRequests
          PROVE  \E m \in AnswerIndex : answers'[r][trip[r]][m] = "notify"
      <4>1. answers[r][trip[r]][1] = "notify" /\ trip[r] \in Driver
        BY <3>1 DEF TripInv, TypeOK
      <4> QED BY <2>1, <4>1
    <3> QED BY <2>1, <3>1 DEF TripInv, Stage
  <2> QED BY <2>2, <2>3, <2>4, <2>5, <2>6
\* What the steps of an accept in flight share: its request has no search and
\* no timer, and its driver is current and was offered the request.
<1>d. answers[r][d][1] \in AcceptStages =>
         /\ currentDriver[r] = d /\ d \notin declinedDrivers[r] /\ d \in offers[r]
         /\ r \notin timeoutHandle /\ ~ Searching(r)
         /\ requestStatus[r] # "NONE"
         /\ \A e \in Driver : e # d => ~ Accepting(r, e, 1)
  BY DEF AcceptInv, OfferInv, FreshInv
<1>4. CASE SetDriverBusy(r, d, n)
  <2>1. /\ answers[r][d][1] = "busy"
        /\ \A e \in Driver : answers'[r][e][1] = IF e = d THEN "match" ELSE answers[r][e][1]
        /\ UNCHANGED <<requestStatus, trip, entry, search, clients>>
    BY <1>4 DEF SetDriverBusy
  <2> QED BY <1>d, <2>1 DEF FreshInv, OfferInv, TimerInv, SearchInv, AcceptInv, TripInv, WordInv,
             Stage
<1>5. CASE MarkMatched(r, d, n)
  <2>1. /\ answers[r][d][1] = "match"
        /\ \A e \in Driver : answers'[r][e][1] = IF e = d THEN "create" ELSE answers[r][e][1]
        /\ requestStatus'[r] = "MATCHED"
        /\ UNCHANGED <<trip, entry, search, clients>>
    BY <1>5 DEF MarkMatched, TypeOK
  <2> QED BY <1>d, <2>1 DEF FreshInv, OfferInv, TimerInv, SearchInv, AcceptInv, TripInv, WordInv,
             Stage
<1>6. CASE CreateTrip(r, d, n)
  <2>1. /\ answers[r][d][1] = "create"
        /\ \A e \in Driver : answers'[r][e][1] = IF e = d THEN "notify" ELSE answers[r][e][1]
        /\ trip[r] = None /\ trip'[r] = d
        /\ UNCHANGED <<requestStatus, entry, search, clients>>
    BY <1>6 DEF CreateTrip, TypeOK
  <2>2. FreshInv(r)' /\ TimerInv(r)' /\ SearchInv(r)' /\ WordInv(r)'
    BY <1>d, <2>1 DEF FreshInv, TimerInv, SearchInv, WordInv, Stage
  <2>3. requestStatus[r] \in {"MATCHED", "CANCELED"}
    BY <2>1 DEF AcceptInv
  <2>4. OfferInv(r)'
    BY <1>d, <2>1 DEF OfferInv, Stage
  <2>5. AcceptInv(r)' /\ TripInv(r)'
    BY <1>d, <2>1, <2>3 DEF AcceptInv, TripInv, Stage
  <2> QED BY <2>2, <2>4, <2>5
<1>7. CASE CreateTripRejected(r, d, n)
  BY <1>7 DEF CreateTripRejected, AcceptInv
<1>8. CASE NotifyMatched(r, d, n)
  <2>1. /\ answers[r][d][1] = "notify"
        /\ \A e \in Driver : answers'[r][e][1] = IF e = d THEN "done" ELSE answers[r][e][1]
        /\ r \notin pendingRequests'
        /\ UNCHANGED <<db, currentDriver, declinedDrivers, timeoutHandle, search, offers>>
    BY <1>8 DEF NotifyMatched, Unlist
  <2>2. trip[r] = d
    BY <2>1 DEF AcceptInv
  <2>3. FreshInv(r)' /\ OfferInv(r)' /\ TimerInv(r)' /\ SearchInv(r)' /\ WordInv(r)'
    BY <1>d, <2>1, <2>2 DEF FreshInv, OfferInv, TimerInv, SearchInv, WordInv, Stage
  <2>4. AcceptInv(r)' /\ TripInv(r)'
    BY <1>d, <2>1, <2>2 DEF AcceptInv, TripInv, Stage
  <2> QED BY <2>3, <2>4
<1>9. CASE NotifyFails(r, d, n)
  BY <1>9, <1>d DEF NotifyFails
<1>10. CASE AcceptFails(r, d, n)
  <2>1. /\ answers[r][d][1] \in {"busy", "match", "create"}
        /\ \A e \in Driver : answers'[r][e][1] = IF e = d THEN "done" ELSE answers[r][e][1]
        /\ UNCHANGED <<db, entry, search, clients>>
    BY <1>10 DEF AcceptFails
  <2>2. trip[r] = None
    BY <2>1 DEF AcceptInv
  <2> QED BY <1>d, <2>1, <2>2 DEF FreshInv, OfferInv, TimerInv, SearchInv, AcceptInv, TripInv,
             WordInv, Stage
<1> QED
  BY <1>1, <1>2, <1>3, <1>4, <1>5, <1>6, <1>7, <1>8, <1>9, <1>10 DEF Answer, AcceptStep

\* The other handlers of a request.
LEMMA RequestStepKeepsInv ==
  ASSUME IInv, NEW r \in Request,
         \/ StartMatching(r) \/ TimeoutFires(r) \/ CancelStep(r)
         \/ CreateRideRequest(r) \/ CancelRead(r) \/ CancelFails(r)
  PROVE  RequestInv(r)'
<1>0. TypeOK /\ RequestInv(r)
  BY DEF IInv
<1>a. None \notin offers[r] /\ None \in Cause
  BY <1>0, DispatchAssumption DEF TypeOK, Cause
<1> USE <1>0, <1>a DEF RequestInv, Searching, Accepting, AcceptStages, db, entry, clients
<1>1. CASE StartMatching(r)
  <2>1. /\ Stage(r, None) = "begin" /\ Searching(r) /\ offers[r] = {}
        /\ \A k \in Cause : Stage(r, k)' = IF k = None THEN "query" ELSE Stage(r, k)
    BY <1>1, StageAfter DEF StartMatching, FreshInv
  <2>2. /\ currentDriver'[r] = None /\ declinedDrivers'[r] = {}
        /\ UNCHANGED <<db, timeoutHandle, answers, clients>>
    BY <1>1 DEF StartMatching, TypeOK
  <2>3. requestStatus[r] # "NONE" /\ trip[r] = None /\ r \notin timeoutHandle
    BY <2>1 DEF FreshInv, TripInv, TimerInv
  <2>4. FreshInv(r)' /\ TimerInv(r)' /\ WordInv(r)' /\ TripInv(r)'
    BY <2>1, <2>2, <2>3, DispatchAssumption DEF FreshInv, TimerInv, WordInv, TripInv, Cause
  <2>5. OfferInv(r)' /\ AcceptInv(r)'
    BY <2>1, <2>2, <2>3 DEF OfferInv, AcceptInv
  <2>6. SearchInv(r)'
    BY <2>1 DEF SearchInv
  <2> QED BY <2>4, <2>5, <2>6
<1>2. CASE TimeoutFires(r)
  <2>1. /\ r \in timeoutHandle /\ r \in pendingRequests /\ ~ Searching(r)
        /\ currentDriver[r] \in offers[r] \ declinedDrivers[r]
        /\ currentDriver[r] \in Driver /\ currentDriver[r] # None
    BY <1>2, DispatchAssumption DEF TimeoutFires, TimerInv, TypeOK
  <2>2. /\ trip[r] = None
        /\ \A d \in Driver, n \in AnswerIndex : ~ Accepting(r, d, n)
    BY <2>1 DEF AcceptInv, TripInv
  <2>3. \A k \in Cause : Stage(r, k)' = IF k = currentDriver[r] THEN "query" ELSE Stage(r, k)
    BY <1>2, <2>1, StageAfter DEF TimeoutFires, Cause
  <2>4. /\ r \notin timeoutHandle' /\ currentDriver'[r] = None
        /\ declinedDrivers'[r] = declinedDrivers[r] \cup {currentDriver[r]}
        /\ riderStatus'[r] = "matching"
        /\ UNCHANGED <<db, pendingRequests, answers, offers>>
    BY <1>2, <2>1 DEF TimeoutFires, Declines, SendStatusToRider, TypeOK
  <2>5. FreshInv(r)' /\ TimerInv(r)' /\ WordInv(r)'
    BY <2>1, <2>3, <2>4, DispatchAssumption DEF FreshInv, TimerInv, WordInv, Cause
  <2>6. OfferInv(r)'
    BY <2>1, <2>3, <2>4 DEF OfferInv
  <2>7. SearchInv(r)'
    BY <2>1, <2>3 DEF SearchInv
  <2>8. AcceptInv(r)' /\ TripInv(r)'
    BY <2>2, <2>4 DEF AcceptInv, TripInv
  <2> QED BY <2>5, <2>6, <2>7, <2>8
<1>3. CASE CancelUnlist(r)
  <2>1. /\ r \notin pendingRequests' /\ r \notin timeoutHandle'
        /\ UNCHANGED <<db, currentDriver, declinedDrivers, search, answers, clients>>
    BY <1>3 DEF CancelUnlist, ClearTimeout, KeepTimeout, Unlist, TimerInv
  <2> QED BY <2>1 DEF FreshInv, OfferInv, TimerInv, SearchInv, AcceptInv, TripInv, WordInv, Stage
<1>4. CASE CancelWrite(r)
  <2>1. /\ requestStatus'[r] = "CANCELED"
        /\ UNCHANGED <<trip, entry, search, answers, clients>>
    BY <1>4 DEF CancelWrite, TypeOK
  <2> QED BY <2>1 DEF FreshInv, OfferInv, TimerInv, SearchInv, AcceptInv, TripInv, WordInv, Stage
<1>5. CASE CreateRideRequest(r)
  <2>1. /\ r \notin pendingRequests /\ offers[r] = {} /\ ~ Searching(r)
        /\ r \notin timeoutHandle /\ trip[r] = None
        /\ \A d \in Driver, n \in AnswerIndex : ~ Accepting(r, d, n)
    BY <1>5 DEF CreateRideRequest, FreshInv, OfferInv, TimerInv, TripInv
  <2>2. /\ \A k \in Cause : Stage(r, k)' = IF k = None THEN "begin" ELSE Stage(r, k)
        /\ requestStatus'[r] = "MATCHING"
        /\ UNCHANGED <<trip, entry, answers, clients>>
    <3>1. SearchGoesTo(r, None, "begin")
      BY <1>5 DEF CreateRideRequest
    <3>2. \A k \in Cause : Stage(r, k)' = IF k = None THEN "begin" ELSE Stage(r, k)
      BY <3>1, StageAfter
    <3>3. requestStatus'[r] = "MATCHING" /\ UNCHANGED <<trip, entry, answers, clients>>
      BY <1>5 DEF CreateRideRequest, TypeOK
    <3> QED BY <3>2, <3>3
  <2>3. FreshInv(r)' /\ TimerInv(r)' /\ WordInv(r)' /\ TripInv(r)' /\ AcceptInv(r)'
    BY <2>1, <2>2, DispatchAssumption DEF FreshInv, TimerInv, WordInv, TripInv, AcceptInv, Cause
  <2>4. OfferInv(r)'
    BY <2>1, <2>2 DEF OfferInv
  <2>5. SearchInv(r)'
    BY <2>1, <2>2 DEF SearchInv
  <2> QED BY <2>3, <2>4, <2>5
<1>6. CASE CancelRead(r)
  BY <1>6, Frame DEF CancelRead, SameRequest
<1>7. CASE CancelFails(r)
  BY <1>7, Frame DEF CancelFails, SameRequest
<1> QED
  BY <1>1, <1>2, <1>3, <1>4, <1>5, <1>6, <1>7 DEF CancelStep

\* A restart keeps the invariant of every request: what it drops can decide
\* nothing any more.
LEMMA RestartKeepsInv ==
  ASSUME IInv, ServerRestarts, NEW r \in Request
  PROVE  RequestInv(r)'
<1>1. TypeOK /\ RequestInv(r)
  BY DEF IInv
<1>2. /\ r \notin pendingRequests' /\ r \notin timeoutHandle'
      /\ currentDriver'[r] = None /\ declinedDrivers'[r] = {}
      /\ \A k \in Cause : Stage(r, k)' = "idle"
      /\ \A d \in Driver, n \in AnswerIndex :
            answers'[r][d][n] = IF Accepting(r, d, n) THEN "done" ELSE answers[r][d][n]
      /\ UNCHANGED <<requestStatus, trip, offers, riderStatus>>
  BY DEF ServerRestarts, Stage, NoSearch, db, clients
<1>3. None \notin offers[r] /\ None \in Cause /\ Driver \subseteq Cause
  BY <1>1, DispatchAssumption DEF TypeOK, Cause
<1>4. \A d \in Driver, n \in AnswerIndex : ~ Accepting(r, d, n)'
  BY <1>2 DEF Accepting, AcceptStages
<1>5. FreshInv(r)' /\ TimerInv(r)' /\ WordInv(r)' /\ SearchInv(r)' /\ AcceptInv(r)'
  BY <1>1, <1>2, <1>3, <1>4 DEF RequestInv, FreshInv, TimerInv, WordInv, SearchInv, AcceptInv,
     Searching
<1>6. OfferInv(r)'
  BY <1>1, <1>2, <1>3 DEF RequestInv, OfferInv, Searching, Accepting, AcceptStages
<1>7. TripInv(r)'
  BY <1>1, <1>2 DEF RequestInv, TripInv, Searching
<1> QED
  BY <1>5, <1>6, <1>7 DEF RequestInv

\* A search that throws: its handler ends, or the process does.
LEMMA ThrowKeepsInv ==
  ASSUME IInv, NEW r \in Request, NEW c \in Cause, Stage(r, c) # "idle", SearchThrows(r, c),
         NEW q \in Request
  PROVE  RequestInv(q)'
<1>1. TypeOK /\ RequestInv(r) /\ RequestInv(q)
  BY DEF IInv
<1>2. CASE search[r][c].via = "timer"
  BY <1>2, RestartKeepsInv DEF SearchThrows
<1>3. CASE search[r][c].via # "timer" /\ q # r
  BY <1>1, <1>3, StageAfter, Frame DEF SearchThrows, SameRequest, db, entry, clients
<1>4. CASE search[r][c].via # "timer" /\ q = r
  <2>1. \A k \in Cause : Stage(r, k)' = IF k = c THEN "idle" ELSE Stage(r, k)
    BY <1>1, <1>4, StageAfter DEF SearchThrows
  <2>2. \A k \in Cause : Stage(r, k)' = "idle"
    BY <1>1, <2>1 DEF RequestInv, SearchInv
  <2>3. Searching(r) /\ ~ Searching(r)'
    BY <2>2 DEF Searching
  <2>4. UNCHANGED <<db, entry, answers, clients>>
    BY <1>4 DEF SearchThrows
  <2>5. FreshInv(r)' /\ SearchInv(r)'
    BY <1>1, <2>2, <2>3, <2>4, DispatchAssumption
       DEF RequestInv, FreshInv, SearchInv, Cause, db, entry, clients
  <2>6. OfferInv(r)' /\ TimerInv(r)' /\ AcceptInv(r)' /\ TripInv(r)' /\ WordInv(r)'
    BY <1>1, <2>3, <2>4 DEF RequestInv, OfferInv, TimerInv, AcceptInv, TripInv, WordInv,
       Accepting, db, entry, clients
  <2> QED BY <1>4, <2>5, <2>6 DEF RequestInv
<1> QED
  BY <1>2, <1>3, <1>4

\* A handler touches its own request only.
LEMMA OtherRequestsSame ==
  ASSUME TypeOK, NEW r \in Request, NEW q \in Request, q # r,
         \/ \E c \in Cause : SearchStep(r, c)
         \/ \E d \in Driver, n \in AnswerIndex :
               Answer(r, d, n) \/ AcceptStep(r, d, n) \/ AcceptFails(r, d, n)
         \/ StartMatching(r) \/ TimeoutFires(r) \/ CancelStep(r)
         \/ CreateRideRequest(r) \/ CancelRead(r) \/ CancelFails(r)
  PROVE  SameRequest(q)
<1> USE DEF SameRequest, db, entry, clients
<1>1. ASSUME NEW c \in Cause, SearchStep(r, c) PROVE SameRequest(q)
  <2>1. CASE FindAvailable(r, c)
    BY <2>1 DEF FindAvailable, TypeOK
  <2>2. ASSUME NEW d \in Driver, OfferSent(r, c, d) PROVE SameRequest(q)
    BY <2>2, StageAfter DEF OfferSent, ArmTimeout, TypeOK
  <2>3. ASSUME NEW d \in Driver, OfferUnsent(r, c, d) PROVE SameRequest(q)
    BY <2>3, StageAfter DEF OfferUnsent, ClearTimeout, TypeOK
  <2>4. CASE OfferAbandoned(r, c)
    BY <2>4, StageAfter DEF OfferAbandoned
  <2>5. CASE NoCandidate(r, c)
    BY <2>5, StageAfter DEF NoCandidate
  <2>6. CASE MarkExpired(r, c)
    BY <2>6, StageAfter DEF MarkExpired, TypeOK
  <2>7. CASE NotifyNoDrivers(r, c)
    BY <2>7, StageAfter DEF NotifyNoDrivers, Unlist, SendStatusToRider, TypeOK
  <2> QED BY <1>1, <2>1, <2>2, <2>3, <2>4, <2>5, <2>6, <2>7 DEF SearchStep
<1>2. ASSUME NEW d \in Driver, NEW n \in AnswerIndex,
             Answer(r, d, n) \/ AcceptStep(r, d, n) \/ AcceptFails(r, d, n)
      PROVE  SameRequest(q)
  <2>1. \A stage : AnswerGoesTo(r, d, n, stage) => answers'[q] = answers[q]
    BY AnswerAfter
  <2>2. CASE DriverAccept(r, d, n)
    BY <2>1, <2>2 DEF DriverAccept, ClearTimeout
  <2>3. CASE DriverDecline(r, d, n)
    <3>1. search'[q] = search[q]
      BY <2>3, StageAfter DEF DriverDecline, Cause
    <3> QED BY <2>1, <2>3, <3>1 DEF DriverDecline, Declines, ClearTimeout, SendStatusToRider, TypeOK
  <2>4. CASE AnswerIgnored(r, d, n) \/ CreateTripRejected(r, d, n) \/ NotifyFails(r, d, n)
             \/ AcceptFails(r, d, n)
    BY <2>1, <2>4 DEF AnswerIgnored, CreateTripRejected, NotifyFails, AcceptFails
  <2>5. CASE SetDriverBusy(r, d, n) \/ MarkMatched(r, d, n) \/ CreateTrip(r, d, n)
    BY <2>1, <2>5 DEF SetDriverBusy, MarkMatched, CreateTrip, TypeOK
  <2>6. CASE NotifyMatched(r, d, n)
    BY <2>1, <2>6 DEF NotifyMatched, Unlist, SendStatusToRider, TypeOK
  <2> QED BY <1>2, <2>2, <2>3, <2>4, <2>5, <2>6 DEF Answer, AcceptStep
<1>3. CASE StartMatching(r)
  BY <1>3, StageAfter DEF StartMatching, TypeOK, Cause
<1>4. CASE TimeoutFires(r)
  <2>1. CASE r \in pendingRequests /\ currentDriver[r] # None
    <3>1. search'[q] = search[q]
      BY <1>4, <2>1, StageAfter DEF TimeoutFires, TypeOK
    <3> QED BY <1>4, <2>1, <3>1 DEF TimeoutFires, Declines, SendStatusToRider, TypeOK
  <2>2. CASE ~ (r \in pendingRequests /\ currentDriver[r] # None)
    BY <1>4, <2>2 DEF TimeoutFires
  <2> QED BY <2>1, <2>2
<1>5. CASE CancelStep(r) \/ CancelRead(r) \/ CancelFails(r)
  BY <1>5 DEF CancelStep, CancelRead, CancelFails, CancelUnlist, CancelWrite, ClearTimeout,
     KeepTimeout, Unlist, TypeOK
<1>6. CASE CreateRideRequest(r)
  <2>1. SearchGoesTo(r, None, "begin")
    BY <1>6 DEF CreateRideRequest
  <2>2. search'[q] = search[q]
    BY <2>1, StageAfter DEF Cause
  <2> QED BY <1>6, <2>2 DEF CreateRideRequest, TypeOK
<1> QED
  BY <1>1, <1>2, <1>3, <1>4, <1>5, <1>6

\* The invariant holds at the start.
LEMMA InitInv == Init => IInv
<1> SUFFICES ASSUME Init PROVE IInv
  OBVIOUS
<1>1. TypeOK
  BY InitType
<1>2. ASSUME NEW r \in Request PROVE RequestInv(r)
  <2>1. /\ \A k \in Cause : Stage(r, k) = "idle"
        /\ \A d \in Driver, n \in AnswerIndex : answers[r][d][n] = "unsent"
    BY DEF Init, Stage, NoSearch
  <2> QED BY <2>1, DispatchAssumption DEF Init, RequestInv, FreshInv, OfferInv, TimerInv, SearchInv,
             AcceptInv, TripInv, WordInv, Searching, Accepting, AcceptStages, Cause
<1> QED
  BY <1>1, <1>2 DEF IInv

\* The steps that are not failures.
Undisturbed ==
    \/ \E r \in Request : StartMatching(r) \/ TimeoutFires(r) \/ CancelStep(r)
    \/ \E r \in Request, c \in Cause : SearchStep(r, c)
    \/ \E r \in Request, d \in Driver, n \in AnswerIndex : AcceptStep(r, d, n)
    \/ Environment

\* The failures, and the rest.
LEMMA NextMayFail == Next <=> (Undisturbed \/ Failure)
  BY DEF Next, Undisturbed

\* Every step keeps the invariant.
LEMMA BoundedAnswers == MaxAnswers = 1 => AnswersOnce /\ AnswersOnce'
  BY DEF AnswersOnce, AnswerIndex

\* Whatever comes next keeps the invariant, as long as apps answer once.
LEMMA NextInv == AnswersOnce /\ AnswersOnce' /\ IInv /\ [Next]_vars => IInv'
<1> SUFFICES ASSUME AnswersOnce, AnswersOnce', IInv, [Next]_vars, NEW q \in Request
             PROVE  RequestInv(q)'
  BY NextType DEF IInv
<1>1. TypeOK /\ RequestInv(q)
  BY DEF IInv
<1>2. ASSUME NEW r \in Request,
             \/ \E c \in Cause : SearchStep(r, c)
             \/ \E d \in Driver, n \in AnswerIndex :
                   Answer(r, d, n) \/ AcceptStep(r, d, n) \/ AcceptFails(r, d, n)
             \/ StartMatching(r) \/ TimeoutFires(r) \/ CancelStep(r)
             \/ CreateRideRequest(r) \/ CancelRead(r) \/ CancelFails(r)
      PROVE  RequestInv(q)'
  <2>1. CASE q = r
    BY <1>2, <2>1, SearchKeepsInv, AnswerKeepsInv, RequestStepKeepsInv
  <2>2. CASE q # r
    BY <1>1, <1>2, <2>2, OtherRequestsSame, Frame
  <2> QED BY <2>1, <2>2
<1>3. ASSUME \/ \E d \in Driver : DriverConnects(d) \/ DriverDisconnects(d)
             \/ \E d \in Driver, status \in StatusWrites : UpdateDriverStatus(d, status)
             \/ UNCHANGED vars
      PROVE  RequestInv(q)'
  <2>1. SameRequest(q)
    BY <1>3 DEF DriverConnects, DriverDisconnects, UpdateDriverStatus, SameRequest, vars, db,
       entry, clients
  <2> QED BY <1>1, <2>1, Frame
<1>4. ASSUME NEW r \in Request, NEW c \in Cause, SearchFails(r, c) \/ ExpireFails(r, c)
      PROVE  RequestInv(q)'
  BY <1>4, ThrowKeepsInv DEF SearchFails, ExpireFails
<1>5. CASE Crash
  BY <1>5, RestartKeepsInv DEF Crash
<1> QED
  BY <1>2, <1>3, <1>4, <1>5 DEF Next, Environment, Failure

\* The invariant holds of every behaviour whose apps answer an offer once.
THEOREM Invariance == ASSUME MaxAnswers = 1 PROVE Spec => []IInv
<1>1. Init => IInv
  BY InitInv
<1>2. IInv /\ [Next]_vars => IInv'
  BY NextInv, BoundedAnswers
<1> QED
  BY <1>1, <1>2, PTL DEF Spec

-----------------------------------------------------------------------------
(***************************************************************************)
(* What the invariant gives.                                               *)
(***************************************************************************)

\* While an accept is acted on nothing else can decide the request
\* (RidesService.handleDriverAccept).
THEOREM AcceptsExclude == ASSUME MaxAnswers = 1 PROVE Spec => []AcceptExcludesOthers
<1>1. IInv => AcceptExcludesOthers
  <2>1. AnswerIndex = {1}
    BY DEF AnswerIndex
  <2> QED BY <2>1 DEF IInv, RequestInv, AcceptInv, AcceptExcludesOthers, AcceptInFlight
<1> QED
  BY <1>1, Invariance, PTL

\* An armed timer belongs to an offer its driver can still accept.
THEOREM TimersHaveOffers == ASSUME MaxAnswers = 1 PROVE Spec => []TimerHasOpenOffer
<1>1. IInv => TimerHasOpenOffer
  BY DEF IInv, TypeOK, RequestInv, TimerInv, TimerHasOpenOffer
<1> QED
  BY <1>1, Invariance, PTL

\* No request is both given up and turned into a trip, however the search, the
\* accept, the timer, the cancelation and a crash interleave.
THEOREM ExpiredNeverRides == ASSUME MaxAnswers = 1 PROVE Spec => []ExpiredHasNoTrip
<1>1. IInv => ExpiredHasNoTrip
  BY DEF IInv, RequestInv, TripInv, ExpiredHasNoTrip
<1> QED
  BY <1>1, Invariance, PTL

\* Only a driver that was offered the request and refused neither by word nor
\* by silence gets its trip.
THEOREM TripsAreOffered == ASSUME MaxAnswers = 1 PROVE Spec => []TripOnlyForOfferedDriver
<1>1. IInv => TripOnlyForOfferedDriver
  BY DEF IInv, RequestInv, TripInv, TripOnlyForOfferedDriver
<1> QED
  BY <1>1, Invariance, PTL

\* No handler that started earlier tells a matched rider anything else.
THEOREM MatchedIsFinal == ASSUME MaxAnswers = 1 PROVE Spec => MatchedIsFinalWord
<1>1. ASSUME IInv, [Next]_vars, NEW q \in Request, riderStatus[q] = "matched"
      PROVE  riderStatus'[q] = "matched"
  <2> USE <1>1 DEF db, entry, clients
  <2>1. /\ TypeOK /\ q \notin pendingRequests /\ q \notin timeoutHandle
        /\ \A c \in Cause : Stage(q, c) = "idle"
    BY DEF IInv, RequestInv, WordInv, TripInv, Searching
  <2>2. ASSUME NEW r \in Request, NEW c \in Cause,
               SearchStep(r, c) \/ SearchFails(r, c) \/ ExpireFails(r, c)
        PROVE  riderStatus'[q] = "matched"
    BY <2>1, <2>2 DEF SearchStep, FindAvailable, OfferSent, OfferUnsent, OfferAbandoned,
       NoCandidate, MarkExpired, NotifyNoDrivers, SendStatusToRider, SearchFails, ExpireFails,
       SearchThrows, ServerRestarts, TypeOK
  <2>3. ASSUME NEW r \in Request, NEW d \in Driver, NEW n \in AnswerIndex,
               Answer(r, d, n) \/ AcceptStep(r, d, n) \/ AcceptFails(r, d, n)
        PROVE  riderStatus'[q] = "matched"
    <3>1. CASE DriverDecline(r, d, n)
      BY <2>1, <3>1 DEF DriverDecline, IsCurrent, SendStatusToRider, TypeOK
    <3>2. CASE NotifyMatched(r, d, n)
      BY <2>1, <3>2 DEF NotifyMatched, SendStatusToRider, TypeOK
    <3> QED BY <2>3, <3>1, <3>2 DEF Answer, AcceptStep, DriverAccept, AnswerIgnored, SetDriverBusy,
               MarkMatched, CreateTrip, CreateTripRejected, NotifyFails, AcceptFails
  <2>4. ASSUME NEW r \in Request,
               \/ StartMatching(r) \/ TimeoutFires(r) \/ CancelStep(r)
               \/ CreateRideRequest(r) \/ CancelRead(r) \/ CancelFails(r)
        PROVE  riderStatus'[q] = "matched"
    BY <2>1, <2>4 DEF StartMatching, TimeoutFires, CancelStep, CancelUnlist, CancelWrite,
       CreateRideRequest, CancelRead, CancelFails, SendStatusToRider, TypeOK
  <2>5. CASE \/ \E d \in Driver : DriverConnects(d) \/ DriverDisconnects(d)
             \/ \E d \in Driver, status \in StatusWrites : UpdateDriverStatus(d, status)
             \/ Crash
             \/ UNCHANGED vars
    BY <2>5 DEF DriverConnects, DriverDisconnects, UpdateDriverStatus, Crash, ServerRestarts, vars
  <2> QED BY <2>2, <2>3, <2>4, <2>5 DEF Next, Environment, Failure
<1>2. IInv /\ [Next]_vars =>
        [\A r \in Request : riderStatus[r] = "matched" => riderStatus'[r] = "matched"]_vars
  BY <1>1
<1> QED
  BY <1>2, Invariance, PTL DEF Spec, MatchedIsFinalWord

-----------------------------------------------------------------------------
(***************************************************************************)
(* However often an app answers an offer: one search at a time, and nobody *)
(* asked twice.                                                            *)
(***************************************************************************)

\* While a search runs, the current driver, if there is one, was not offered
\* the request, and all that were have declined.  So no answer is taken for
\* current, and none starts a second search.
AskedInv(r) ==
    /\ Searching(r) => currentDriver[r] \notin offers[r]
    /\ currentDriver[r] \in offers[r] => currentDriver[r] \notin declinedDrivers[r]
    /\ r \in pendingRequests \/ Searching(r) =>
          offers[r] \subseteq declinedDrivers[r] \cup {currentDriver[r]}

\* An armed timer excludes a search; its request may be unlisted, by an accept
\* that a second answer of the same app has overtaken.
ArmedTimerInv(r) == r \in timeoutHandle =>
    /\ ~ Searching(r)
    /\ currentDriver[r] \in offers[r] \ declinedDrivers[r]

ChainInv(r) == FreshInv(r) /\ AskedInv(r) /\ ArmedTimerInv(r) /\ SearchInv(r)

OneSearchInv == TypeOK /\ \A r \in Request : ChainInv(r)

-----------------------------------------------------------------------------
\* A step that leaves the search and the offers of a request alone, whatever
\* it unlists, disarms or writes.
LEMMA QuietStep ==
  ASSUME NEW r \in Request, ChainInv(r),
         search'[r] = search[r], offers'[r] = offers[r],
         currentDriver'[r] = currentDriver[r], declinedDrivers'[r] = declinedDrivers[r],
         r \in pendingRequests' => r \in pendingRequests,
         r \in timeoutHandle' => r \in timeoutHandle,
         requestStatus'[r] = "NONE" => requestStatus[r] = "NONE"
  PROVE  ChainInv(r)'
  BY DEF ChainInv, FreshInv, AskedInv, ArmedTimerInv, SearchInv, Searching, Stage

\* The steps of a search.
LEMMA SearchKeepsChain ==
  ASSUME OneSearchInv, NEW r \in Request, NEW c \in Cause, SearchStep(r, c)
  PROVE  ChainInv(r)'
<1> USE DispatchAssumption DEF db, entry, clients
<1>1. /\ TypeOK /\ ChainInv(r)
      /\ \A stage, via : 
            /\ SearchGoesTo(r, c, stage) =>
                  \A k \in Cause : Stage(r, k)' = IF k = c THEN stage ELSE Stage(r, k)
            /\ SearchEnds(r, c) =>
                  \A k \in Cause : Stage(r, k)' = IF k = c THEN "idle" ELSE Stage(r, k)
            /\ SearchStarts(r, c, via) =>
                  \A k \in Cause : Stage(r, k)' = IF k = c THEN "query" ELSE Stage(r, k)
  BY StageAfter DEF OneSearchInv
<1>2. Stage(r, c) # "idle" /\ Searching(r) /\ r \notin timeoutHandle
  BY <1>1 DEF SearchStep, FindAvailable, OfferSent, OfferUnsent, OfferAbandoned, NoCandidate,
         MarkExpired, NotifyNoDrivers, Searching, ChainInv, ArmedTimerInv
<1>3. requestStatus[r] # "NONE" /\ (\A k \in Cause : k # c => Stage(r, k) = "idle")
  BY <1>1, <1>2 DEF ChainInv, FreshInv, SearchInv
<1>4. ASSUME NEW stage \in SearchStages \ {"idle", "begin"},
             \A k \in Cause : Stage(r, k)' = IF k = c THEN stage ELSE Stage(r, k),
             UNCHANGED <<entry, offers>>, requestStatus'[r] # "NONE"
      PROVE  ChainInv(r)'
  <2>1. Searching(r)' /\ Stage(r, None)' # "begin" /\ \A d \in Driver : Stage(r, d)' # "begin"
    BY <1>3, <1>4 DEF Searching, Cause
  <2>2. FreshInv(r)' /\ SearchInv(r)'
    BY <1>3, <1>4, <2>1 DEF FreshInv, SearchInv
  <2>3. AskedInv(r)' /\ ArmedTimerInv(r)'
    BY <1>1, <1>2, <1>4 DEF ChainInv, AskedInv, ArmedTimerInv
  <2> QED BY <2>2, <2>3 DEF ChainInv
<1>5. CASE FindAvailable(r, c)
  <2>1. PICK found :
           search' = [search EXCEPT ![r][c] = [stage |-> "rank", via |-> search[r][c].via, cands |-> found]]
    BY <1>1, <1>5 DEF FindAvailable, TypeOK
  <2>2. \A k \in Cause : Stage(r, k)' = IF k = c THEN "rank" ELSE Stage(r, k)
    BY <1>1, <2>1 DEF Stage, TypeOK
  <2> QED BY <1>3, <1>4, <1>5, <2>2 DEF FindAvailable, SearchStages
<1>6. ASSUME NEW d \in Driver, OfferSent(r, c, d) PROVE ChainInv(r)'
  <2>1. ~ Searching(r)' /\ \A k \in Cause : Stage(r, k)' = "idle"
    BY <1>1, <1>3, <1>6 DEF OfferSent, Searching
  <2>2. /\ currentDriver'[r] = d /\ offers'[r] = offers[r] \cup {d}
        /\ d \notin declinedDrivers[r]
        /\ UNCHANGED <<requestStatus, pendingRequests, declinedDrivers>>
    BY <1>1, <1>6 DEF OfferSent, Remaining, TypeOK
  <2>3. offers[r] \subseteq declinedDrivers[r]
    BY <1>1, <1>2 DEF ChainInv, AskedInv
  <2> QED BY <1>3, <2>1, <2>2, <2>3
          DEF ChainInv, FreshInv, AskedInv, ArmedTimerInv, SearchInv, Cause
<1>7. ASSUME NEW d \in Driver, OfferUnsent(r, c, d) PROVE ChainInv(r)'
  <2>1. \A k \in Cause : Stage(r, k)' = IF k = c THEN "query" ELSE Stage(r, k)
    BY <1>1, <1>7 DEF OfferUnsent
  <2>2. /\ currentDriver'[r] = d /\ declinedDrivers'[r] = declinedDrivers[r] \cup {d}
        /\ d \notin declinedDrivers[r]
        /\ r \notin timeoutHandle'
        /\ UNCHANGED <<requestStatus, pendingRequests, offers>>
    BY <1>1, <1>7 DEF OfferUnsent, Remaining, ClearTimeout, TypeOK
  <2>3. offers[r] \subseteq declinedDrivers[r]
    BY <1>1, <1>2 DEF ChainInv, AskedInv
  <2>4. FreshInv(r)' /\ SearchInv(r)'
    BY <1>3, <2>1, <2>2 DEF FreshInv, SearchInv, Cause
  <2>5. AskedInv(r)' /\ ArmedTimerInv(r)'
    BY <2>2, <2>3 DEF AskedInv, ArmedTimerInv
  <2> QED BY <2>4, <2>5 DEF ChainInv
<1>8. ASSUME SearchEnds(r, c), offers' = offers, pendingRequests' \subseteq pendingRequests,
             UNCHANGED <<db, currentDriver, declinedDrivers, timeoutHandle>>
      PROVE  ChainInv(r)'
  <2>1. ~ Searching(r)' /\ \A k \in Cause : Stage(r, k)' = "idle"
    BY <1>1, <1>3, <1>8 DEF Searching
  <2> QED BY <1>1, <1>2, <1>3, <1>8, <2>1
          DEF ChainInv, FreshInv, AskedInv, ArmedTimerInv, SearchInv, Cause
<1>9. CASE OfferAbandoned(r, c) \/ NotifyNoDrivers(r, c)
  BY <1>8, <1>9 DEF OfferAbandoned, NotifyNoDrivers, Unlist
<1>10. CASE NoCandidate(r, c)
  BY <1>1, <1>3, <1>4, <1>10 DEF NoCandidate, SearchStages
<1>11. CASE MarkExpired(r, c)
  <2>1. requestStatus'[r] # "NONE"
    BY <1>1, <1>11 DEF MarkExpired, TypeOK
  <2> QED BY <1>1, <1>4, <1>11, <2>1 DEF MarkExpired, SearchStages
<1> QED
  BY <1>5, <1>6, <1>7, <1>9, <1>10, <1>11 DEF SearchStep

\* A driver declines, or is silent for too long: the one way a search starts
\* again, from a state without one.
LEMMA NextSearchKeepsChain ==
  ASSUME TypeOK, NEW r \in Request, ChainInv(r), NEW d \in Driver, NEW via,
         currentDriver[r] = d, d \in offers[r], r \in pendingRequests,
         Declines(r, d), SearchStarts(r, d, via), r \notin timeoutHandle',
         UNCHANGED <<requestStatus, pendingRequests, offers>>
  PROVE  ChainInv(r)'
<1>1. ~ Searching(r) /\ d \in Cause
  BY DEF ChainInv, AskedInv, Cause
<1>2. \A k \in Cause : Stage(r, k)' = IF k = d THEN "query" ELSE "idle"
  BY <1>1, StageAfter DEF Searching
<1>3. /\ currentDriver'[r] = None /\ None \notin offers[r]
      /\ declinedDrivers'[r] = declinedDrivers[r] \cup {d}
  BY DispatchAssumption DEF Declines, TypeOK
<1>4. FreshInv(r)' /\ SearchInv(r)'
  BY <1>1, <1>2 DEF ChainInv, FreshInv, SearchInv, Cause
<1>5. AskedInv(r)' /\ ArmedTimerInv(r)'
  BY <1>3 DEF ChainInv, AskedInv, ArmedTimerInv
<1> QED BY <1>4, <1>5 DEF ChainInv

\* An answer, the accept that it starts, and its failure.
LEMMA AnswerKeepsChain ==
  ASSUME OneSearchInv, NEW r \in Request, NEW d \in Driver, NEW n \in AnswerIndex,
         Answer(r, d, n) \/ AcceptStep(r, d, n) \/ AcceptFails(r, d, n)
  PROVE  ChainInv(r)'
<1> USE DEF db, entry, clients
<1>1. TypeOK /\ ChainInv(r)
  BY DEF OneSearchInv
<1>2. CASE DriverDecline(r, d, n)
  <2>1. /\ currentDriver[r] = d /\ d \in offers[r] /\ r \in pendingRequests
        /\ Declines(r, d) /\ SearchStarts(r, d, "ws") /\ r \notin timeoutHandle'
        /\ UNCHANGED <<requestStatus, pendingRequests, offers>>
    BY <1>2 DEF DriverDecline, NextAnswer, IsCurrent, ClearTimeout
  <2> QED BY <1>1, <2>1, NextSearchKeepsChain
<1>3. CASE ~ DriverDecline(r, d, n)
  <2>1. /\ UNCHANGED <<search, currentDriver, declinedDrivers, offers>>
        /\ pendingRequests' \subseteq pendingRequests
        /\ timeoutHandle' \subseteq timeoutHandle
    BY <1>3 DEF Answer, AcceptStep, DriverAccept, AnswerIgnored, SetDriverBusy, MarkMatched,
       CreateTrip, CreateTripRejected, NotifyMatched, NotifyFails, AcceptFails, ClearTimeout, Unlist
  <2>2. requestStatus'[r] = requestStatus[r] \/ requestStatus'[r] = "MATCHED"
    BY <1>1, <1>3 DEF Answer, AcceptStep, DriverAccept, AnswerIgnored, SetDriverBusy, MarkMatched,
       CreateTrip, CreateTripRejected, NotifyMatched, NotifyFails, AcceptFails, TypeOK
  <2> QED BY <1>1, <2>1, <2>2, QuietStep
<1> QED BY <1>2, <1>3

\* A step of one request, for that request.
LEMMA RequestStepKeepsChain ==
  ASSUME OneSearchInv, NEW r \in Request,
         \/ StartMatching(r) \/ TimeoutFires(r) \/ CancelStep(r)
         \/ CreateRideRequest(r) \/ CancelRead(r) \/ CancelFails(r)
  PROVE  ChainInv(r)'
<1> USE DEF db, entry, clients
<1>1. TypeOK /\ ChainInv(r) /\ None \notin offers[r] /\ None \in Cause
  BY DispatchAssumption DEF OneSearchInv, TypeOK, Cause
<1>2. CASE StartMatching(r)
  <2>1. /\ Stage(r, None) = "begin" /\ offers[r] = {} /\ Searching(r)
        /\ \A k \in Cause : Stage(r, k)' = IF k = None THEN "query" ELSE Stage(r, k)
    BY <1>1, <1>2, StageAfter DEF StartMatching, Searching, ChainInv, FreshInv
  <2>2. requestStatus[r] # "NONE" /\ r \notin timeoutHandle
    BY <1>1, <2>1 DEF ChainInv, FreshInv, ArmedTimerInv
  <2>3. UNCHANGED <<requestStatus, timeoutHandle, offers>>
    BY <1>2 DEF StartMatching
  <2>4. FreshInv(r)' /\ SearchInv(r)'
    BY <1>1, <2>1, <2>2, <2>3, DispatchAssumption DEF ChainInv, FreshInv, SearchInv, Cause
  <2>5. AskedInv(r)' /\ ArmedTimerInv(r)'
    BY <2>1, <2>2, <2>3 DEF AskedInv, ArmedTimerInv
  <2> QED BY <2>4, <2>5 DEF ChainInv
<1>3. CASE TimeoutFires(r)
  <2>1. CASE r \in pendingRequests /\ currentDriver[r] # None
    <3>1. currentDriver[r] \in offers[r] /\ currentDriver[r] \in Driver
      BY <1>1, <1>3 DEF TimeoutFires, ChainInv, ArmedTimerInv, TypeOK
    <3>2. /\ Declines(r, currentDriver[r]) /\ SearchStarts(r, currentDriver[r], "timer")
          /\ r \notin timeoutHandle'
          /\ UNCHANGED <<requestStatus, pendingRequests, offers>>
      BY <1>3, <2>1 DEF TimeoutFires
    <3> QED BY <1>1, <2>1, <3>1, <3>2, NextSearchKeepsChain
  <2>2. CASE ~ (r \in pendingRequests /\ currentDriver[r] # None)
    BY <1>1, <1>3, <2>2, QuietStep DEF TimeoutFires
  <2> QED BY <2>1, <2>2
<1>4. CASE CreateRideRequest(r)
  <2>1. /\ r \notin pendingRequests /\ offers[r] = {} /\ ~ Searching(r) /\ r \notin timeoutHandle
    BY <1>1, <1>4 DEF CreateRideRequest, ChainInv, FreshInv, ArmedTimerInv
  <2>2. SearchGoesTo(r, None, "begin") /\ UNCHANGED <<entry, offers>>
    BY <1>4 DEF CreateRideRequest
  <2>3. \A k \in Cause : Stage(r, k)' = IF k = None THEN "begin" ELSE "idle"
    BY <1>1, <2>1, <2>2, StageAfter DEF Searching
  <2>4. requestStatus'[r] # "NONE"
    BY <1>1, <1>4 DEF CreateRideRequest, TypeOK
  <2>5. FreshInv(r)' /\ SearchInv(r)'
    BY <2>1, <2>2, <2>3, <2>4, DispatchAssumption DEF FreshInv, SearchInv, Cause
  <2>6. AskedInv(r)' /\ ArmedTimerInv(r)'
    BY <2>1, <2>2 DEF AskedInv, ArmedTimerInv
  <2> QED BY <2>5, <2>6 DEF ChainInv
<1>5. CASE CancelStep(r) \/ CancelRead(r) \/ CancelFails(r)
  <2>1. /\ UNCHANGED <<search, currentDriver, declinedDrivers, offers>>
        /\ pendingRequests' \subseteq pendingRequests
        /\ timeoutHandle' \subseteq timeoutHandle
    BY <1>5 DEF CancelStep, CancelUnlist, CancelWrite, CancelRead, CancelFails, ClearTimeout,
       KeepTimeout, Unlist
  <2>2. requestStatus'[r] = requestStatus[r] \/ requestStatus'[r] = "CANCELED"
    BY <1>1, <1>5 DEF CancelStep, CancelUnlist, CancelWrite, CancelRead, CancelFails, TypeOK
  <2> QED BY <1>1, <2>1, <2>2, QuietStep
<1> QED BY <1>2, <1>3, <1>4, <1>5

\* The restart forgets every search, timer and entry.
LEMMA RestartKeepsChain ==
  ASSUME OneSearchInv, ServerRestarts, NEW r \in Request
  PROVE  ChainInv(r)'
<1>1. ChainInv(r) /\ None \notin offers[r] /\ None \in Cause /\ Driver \subseteq Cause
  BY DispatchAssumption DEF OneSearchInv, TypeOK, Cause
<1>2. /\ r \notin pendingRequests' /\ r \notin timeoutHandle' /\ currentDriver'[r] = None
      /\ \A k \in Cause : Stage(r, k)' = "idle"
      /\ UNCHANGED <<requestStatus, offers>>
  BY DEF ServerRestarts, Stage, NoSearch, db, clients
<1>3. ~ Searching(r)'
  BY <1>2 DEF Searching
<1> QED BY <1>1, <1>2, <1>3 DEF ChainInv, FreshInv, AskedInv, ArmedTimerInv, SearchInv

\* A search that throws takes the process down, or ends.
LEMMA ThrowKeepsChain ==
  ASSUME OneSearchInv, NEW r \in Request, NEW c \in Cause, Stage(r, c) # "idle",
         SearchThrows(r, c), NEW q \in Request
  PROVE  ChainInv(q)'
<1> USE DEF db, entry, clients
<1>1. TypeOK /\ ChainInv(r) /\ ChainInv(q)
  BY DEF OneSearchInv
<1>2. CASE ServerRestarts
  BY <1>2, RestartKeepsChain
<1>3. CASE /\ SearchEnds(r, c)
           /\ UNCHANGED <<db, entry, driverSockets, answers, canceling, clients>>
  <2>1. CASE q # r
    BY <1>1, <1>3, <2>1, StageAfter, QuietStep
  <2>2. CASE q = r
    <3>1. Searching(r) /\ ~ Searching(r)' /\ \A k \in Cause : Stage(r, k)' = "idle"
      BY <1>1, <1>3, StageAfter DEF Searching, ChainInv, SearchInv
    <3> QED BY <1>1, <1>3, <2>2, <3>1, DispatchAssumption
            DEF ChainInv, FreshInv, AskedInv, ArmedTimerInv, SearchInv, Cause
  <2> QED BY <2>1, <2>2
<1> QED BY <1>2, <1>3 DEF SearchThrows

\* No search runs at first.
LEMMA OneSearchStart == Init => OneSearchInv
<1> SUFFICES ASSUME Init PROVE OneSearchInv
  OBVIOUS
<1>1. ASSUME NEW r \in Request PROVE ChainInv(r)
  <2>1. \A k \in Cause : Stage(r, k) = "idle"
    BY DEF Init, Stage, NoSearch
  <2> QED BY <2>1 DEF Init, ChainInv, FreshInv, AskedInv, ArmedTimerInv, SearchInv, Searching, Cause
<1> QED BY <1>1, InitType DEF OneSearchInv

\* Whatever comes next keeps each request to one search, however often apps answer.
LEMMA OneSearchStep == OneSearchInv /\ [Next]_vars => OneSearchInv'
<1> SUFFICES ASSUME OneSearchInv, [Next]_vars, NEW q \in Request PROVE ChainInv(q)'
  BY NextType DEF OneSearchInv
<1>1. TypeOK /\ ChainInv(q)
  BY DEF OneSearchInv
<1>2. ASSUME SameRequest(q) PROVE ChainInv(q)'
  BY <1>1, <1>2, QuietStep DEF SameRequest
<1>3. ASSUME NEW r \in Request,
             \/ \E c \in Cause : SearchStep(r, c)
             \/ \E d \in Driver, n \in AnswerIndex :
                   Answer(r, d, n) \/ AcceptStep(r, d, n) \/ AcceptFails(r, d, n)
             \/ StartMatching(r) \/ TimeoutFires(r) \/ CancelStep(r)
             \/ CreateRideRequest(r) \/ CancelRead(r) \/ CancelFails(r)
      PROVE  ChainInv(q)'
  <2>1. CASE q = r
    BY <1>3, <2>1, SearchKeepsChain, AnswerKeepsChain, RequestStepKeepsChain
  <2>2. CASE q # r
    BY <1>1, <1>2, <1>3, <2>2, OtherRequestsSame
  <2> QED BY <2>1, <2>2
<1>4. CASE \/ \E d \in Driver : DriverConnects(d) \/ DriverDisconnects(d)
           \/ \E d \in Driver, status \in StatusWrites : UpdateDriverStatus(d, status)
           \/ UNCHANGED vars
  <2>1. SameRequest(q)
    BY <1>4 DEF DriverConnects, DriverDisconnects, UpdateDriverStatus, SameRequest, vars, db,
       entry, clients
  <2> QED BY <1>2, <2>1
<1>5. ASSUME NEW r \in Request, NEW c \in Cause, SearchFails(r, c) \/ ExpireFails(r, c)
      PROVE  ChainInv(q)'
  BY <1>5, ThrowKeepsChain DEF SearchFails, ExpireFails
<1>6. CASE Crash
  BY <1>6, RestartKeepsChain DEF Crash
<1> QED
  BY <1>3, <1>4, <1>5, <1>6 DEF Next, Environment, Failure

-----------------------------------------------------------------------------
\* However often the apps answer, one chain of tryNextDriver calls works on a
\* request, and never while a timer is armed for it (rides.service.ts:235-254).
THEOREM OneSearch == Spec => []OneSearchPerRequest
<1>1. OneSearchInv => OneSearchPerRequest
  BY DEF OneSearchInv, ChainInv, ArmedTimerInv, SearchInv, OneSearchPerRequest
<1> QED BY <1>1, OneSearchStart, OneSearchStep, PTL DEF Spec

\* No step takes a trip from its driver.
LEMMA TripStays ==
  ASSUME TypeOK, [Next]_vars, NEW q \in Request, trip[q] # None
  PROVE  trip'[q] = trip[q]
<1>1. CASE \E r \in Request, d \in Driver, n \in AnswerIndex : CreateTrip(r, d, n)
  BY <1>1 DEF CreateTrip, TypeOK
<1>2. CASE trip' = trip
  BY <1>2
<1> USE DEF db, entry, clients
<1>3. ASSUME NEW r \in Request, StartMatching(r) \/ TimeoutFires(r) \/ CancelStep(r)
      PROVE  trip' = trip
  BY <1>3 DEF StartMatching, TimeoutFires, CancelStep, CancelUnlist, CancelWrite
<1>4. ASSUME NEW r \in Request, NEW c \in Cause, SearchStep(r, c)
      PROVE  trip' = trip
  BY <1>4 DEF SearchStep, FindAvailable, OfferSent, OfferUnsent, OfferAbandoned, NoCandidate,
     MarkExpired, NotifyNoDrivers
<1>5. ASSUME NEW r \in Request, NEW d \in Driver, NEW n \in AnswerIndex, AcceptStep(r, d, n)
      PROVE  trip' = trip \/ CreateTrip(r, d, n)
  BY <1>5 DEF AcceptStep, SetDriverBusy, MarkMatched, CreateTripRejected, NotifyMatched,
     NotifyFails
<1>6. CASE Environment
  BY <1>6 DEF Environment, CreateRideRequest, CancelRead, Answer, DriverAccept, DriverDecline,
     AnswerIgnored, DriverConnects, DriverDisconnects, UpdateDriverStatus
<1>7. CASE Failure
  BY <1>7 DEF Failure, SearchFails, ExpireFails, SearchThrows, AcceptFails, CancelFails, Crash,
     ServerRestarts
<1>8. CASE UNCHANGED vars
  BY <1>8 DEF vars
<1> QED BY <1>1, <1>2, <1>3, <1>4, <1>5, <1>6, <1>7, <1>8 DEF Next

\* A timer is armed by a search only, for a driver outside those asked before.
LEMMA TimersAreForNewDrivers ==
  ASSUME OneSearchInv, [Next]_vars, NEW q \in Request, q \in timeoutHandle' \ timeoutHandle
  PROVE  currentDriver'[q] \notin offers[q]
<1>1. TypeOK /\ ChainInv(q)
  BY DEF OneSearchInv
<1> USE DEF db, entry, clients
<1>2. PICK r \in Request, c \in Cause, d \in Driver : OfferSent(r, c, d)
  <2>1. ASSUME NEW r \in Request, NEW c \in Cause, SearchStep(r, c)
        PROVE  (\E d \in Driver : OfferSent(r, c, d)) \/ timeoutHandle' \subseteq timeoutHandle
    BY <2>1 DEF SearchStep, FindAvailable, OfferUnsent, ClearTimeout, OfferAbandoned, NoCandidate,
       MarkExpired, NotifyNoDrivers
  <2>2. ASSUME NEW r \in Request, NEW d \in Driver, NEW n \in AnswerIndex,
               Answer(r, d, n) \/ AcceptStep(r, d, n) \/ AcceptFails(r, d, n)
        PROVE  timeoutHandle' \subseteq timeoutHandle
    BY <2>2 DEF Answer, AcceptStep, DriverAccept, DriverDecline, AnswerIgnored, SetDriverBusy,
       MarkMatched, CreateTrip, CreateTripRejected, NotifyMatched, NotifyFails, AcceptFails,
       ClearTimeout
  <2>3. ASSUME NEW r \in Request,
               \/ StartMatching(r) \/ TimeoutFires(r) \/ CancelStep(r)
               \/ CreateRideRequest(r) \/ CancelRead(r) \/ CancelFails(r)
        PROVE  timeoutHandle' \subseteq timeoutHandle
    BY <2>3 DEF StartMatching, TimeoutFires, CancelStep, CancelUnlist, CancelWrite,
       CreateRideRequest, CancelRead, CancelFails, ClearTimeout, KeepTimeout
  <2>4. CASE \/ \E d \in Driver : DriverConnects(d) \/ DriverDisconnects(d)
             \/ \E d \in Driver, status \in StatusWrites : UpdateDriverStatus(d, status)
             \/ \E r \in Request, c \in Cause : SearchFails(r, c) \/ ExpireFails(r, c)
             \/ Crash
             \/ UNCHANGED vars
    BY <2>4 DEF DriverConnects, DriverDisconnects, UpdateDriverStatus, SearchFails, ExpireFails,
       SearchThrows, Crash, ServerRestarts, vars
  <2> QED BY <2>1, <2>2, <2>3, <2>4 DEF Next, Environment, Failure
<1>3. q = r /\ currentDriver'[q] = d /\ d \notin declinedDrivers[q]
  BY <1>1, <1>2 DEF OfferSent, ArmTimeout, Remaining, TypeOK
<1>4. Searching(q)
  BY <1>2, <1>3 DEF OfferSent, Searching
\* While the search runs, everybody that was asked has declined.
<1>5. offers[q] \subseteq declinedDrivers[q]
  BY <1>1, <1>4 DEF ChainInv, AskedInv
<1> QED BY <1>3, <1>5

\* However often the apps answer and whatever fails, no driver is asked twice
\* for one request (rides.service.ts:229-254, 268-282).
THEOREM DriversAreAskedOnce == Spec => NobodyIsAskedTwice
<1>1. OneSearchInv /\ [Next]_vars =>
        [\A r \in Request :
            r \in timeoutHandle' \ timeoutHandle => currentDriver'[r] \notin offers[r]]_vars
  BY TimersAreForNewDrivers
<1> QED BY <1>1, OneSearchStart, OneSearchStep, PTL DEF Spec, NobodyIsAskedTwice

-----------------------------------------------------------------------------
(***************************************************************************)
(* As long as nothing fails and an app answers an offer once, nothing that *)
(* was begun is forgotten half-way, whoever may cancel: a listed request   *)
(* is being decided, a trip is announced or about to be, and a driver is   *)
(* BUSY for a reason.  The first of the three survives crashes.            *)
(***************************************************************************)
Driven(r) == r \in pendingRequests => r \in timeoutHandle \/ Searching(r) \/ AcceptInFlight(r)

Announced(r) == trip[r] # None =>
    \/ riderStatus[r] = "matched"
    \/ \E d \in Driver, n \in AnswerIndex : answers[r][d][n] = "notify"

\* A step that takes neither away from a request.
Serves(r) == (Driven(r) => Driven(r)') /\ (Announced(r) => Announced(r)')

\* A request nothing happened to.
LEMMA SameIsServed ==
  ASSUME NEW r \in Request, SameRequest(r)
  PROVE  Serves(r)
<1>1. Searching(r)' <=> Searching(r)
  BY DEF SameRequest, Searching, Stage
<1>2. AcceptInFlight(r)' <=> AcceptInFlight(r)
  BY DEF SameRequest, AcceptInFlight, Accepting
<1> QED BY <1>1, <1>2 DEF SameRequest, Driven, Announced, Serves

-----------------------------------------------------------------------------
(***************************************************************************)
(* The steps of the handlers of one request.                               *)
(***************************************************************************)

\* A search goes on, hands over to a timer, or takes the request off the list.
LEMMA SearchServes ==
  ASSUME IInv, NEW r \in Request, NEW c \in Cause, SearchStep(r, c)
  PROVE  Serves(r)
<1> USE DEF db, entry, clients, Serves
<1>1. TypeOK /\ RequestInv(r)
  BY DEF IInv
<1>2. trip[r] = None /\ trip'[r] = None
  <2>1. Searching(r)
    BY DEF SearchStep, FindAvailable, OfferSent, OfferUnsent, OfferAbandoned, NoCandidate,
           MarkExpired, NotifyNoDrivers, Searching
  <2>2. trip' = trip
    BY DEF SearchStep, FindAvailable, OfferSent, OfferUnsent, OfferAbandoned, NoCandidate,
           MarkExpired, NotifyNoDrivers
  <2> QED BY <1>1, <2>1, <2>2 DEF RequestInv, TripInv
<1>3. ASSUME NEW stage, stage # "idle", Stage(r, c)' = stage PROVE Driven(r)'
  BY <1>3 DEF Driven, Searching
<1>4. CASE FindAvailable(r, c)
  <2>1. Stage(r, c)' = "rank"
    BY <1>1, <1>4 DEF FindAvailable, Stage, TypeOK
  <2> QED BY <1>2, <1>3, <2>1 DEF Announced
<1>5. ASSUME NEW d \in Driver, OfferSent(r, c, d) PROVE Serves(r)
  BY <1>2, <1>5 DEF OfferSent, ArmTimeout, Driven, Announced
<1>6. ASSUME NEW d \in Driver, OfferUnsent(r, c, d) PROVE Serves(r)
  <2>1. Stage(r, c)' = "query"
    BY <1>1, <1>6, StageAfter DEF OfferUnsent
  <2> QED BY <1>2, <1>3, <2>1 DEF Announced
<1>7. CASE OfferAbandoned(r, c)
  BY <1>2, <1>7 DEF OfferAbandoned, Driven, Announced
<1>8. CASE NoCandidate(r, c) \/ MarkExpired(r, c)
  <2>1. Stage(r, c)' \in {"expire", "expired"}
    BY <1>1, <1>8, StageAfter DEF NoCandidate, MarkExpired
  <2> QED BY <1>2, <1>3, <2>1 DEF Announced
<1>9. CASE NotifyNoDrivers(r, c)
  BY <1>2, <1>9 DEF NotifyNoDrivers, Unlist, Driven, Announced
<1> QED BY <1>4, <1>5, <1>6, <1>7, <1>8, <1>9 DEF SearchStep

\* An answer starts an accept or a search; an accept goes on until the trip is
\* announced and the request is off the list.  The two ways in which one could
\* end without that do not occur: its trip is the first, and its driver is
\* still the current one.
LEMMA AnswerServes ==
  ASSUME AnswersOnce, AnswersOnce', IInv, NEW r \in Request,
         NEW d \in Driver, NEW n \in AnswerIndex, Answer(r, d, n) \/ AcceptStep(r, d, n)
  PROVE  Serves(r)
<1> USE DEF db, entry, clients, Serves
<1>1. /\ TypeOK /\ RequestInv(r) /\ n = 1
      /\ \A e \in Driver, m \in AnswerIndex : m # 1 =>
            answers[r][e][m] = "unsent" /\ answers'[r][e][m] = "unsent"
  BY FirstAnswer DEF IInv
<1>2. \A stage : AnswerGoesTo(r, d, n, stage) =>
         \A e \in Driver, m \in AnswerIndex :
            answers'[r][e][m] = IF e = d /\ m = n THEN stage ELSE answers[r][e][m]
  BY <1>1, AnswerAfter
<1>3. ASSUME NEW stage \in AcceptStages, AnswerGoesTo(r, d, n, stage) PROVE Driven(r)'
  <2>1. AcceptInFlight(r)'
    BY <1>2, <1>3 DEF AcceptInFlight, Accepting
  <2> QED BY <2>1 DEF Driven
<1>4. CASE DriverAccept(r, d, n)
  <2>1. trip[r] = None /\ trip'[r] = None
    <3>1. r \in pendingRequests /\ currentDriver[r] = d /\ answers[r][d][n] = "unsent"
      BY <1>4 DEF DriverAccept, NextAnswer, IsCurrent
    <3>2. trip[r] # None => \E m \in AnswerIndex : Accepting(r, trip[r], m) /\ trip[r] \in Driver
      BY <1>1, <3>1 DEF RequestInv, TripInv, Accepting, AcceptStages, TypeOK
    <3>3. trip[r] = None
      BY <1>1, <3>1, <3>2 DEF RequestInv, AcceptInv, Accepting, AcceptStages
    <3> QED BY <1>4, <3>3 DEF DriverAccept
  <2> QED BY <1>3, <1>4, <2>1 DEF DriverAccept, AcceptStages, Announced
<1>5. CASE DriverDecline(r, d, n)
  <2>1. Stage(r, d)' = "query"
    BY <1>1, <1>5, StageAfter DEF DriverDecline, Cause
  <2>2. Driven(r)'
    BY <2>1 DEF Driven, Searching, Cause
  <2>3. r \in pendingRequests /\ answers[r][d][n] = "unsent" /\ currentDriver[r] = d
    BY <1>5 DEF DriverDecline, NextAnswer, IsCurrent
  <2>4. trip[r] = None /\ trip'[r] = None
    <3>1. trip[r] # None => \E m \in AnswerIndex : Accepting(r, trip[r], m) /\ trip[r] \in Driver
      BY <1>1, <2>3 DEF RequestInv, TripInv, Accepting, AcceptStages, TypeOK
    <3>2. trip[r] = None
      BY <1>1, <2>3, <3>1 DEF RequestInv, AcceptInv, Accepting, AcceptStages
    <3> QED BY <1>5, <3>2 DEF DriverDecline
  <2> QED BY <2>2, <2>4 DEF Announced
<1>6. CASE AnswerIgnored(r, d, n)
  <2>1. \A e \in Driver, m \in AnswerIndex :
           Accepting(r, e, m) => answers'[r][e][m] = answers[r][e][m]
    BY <1>2, <1>6 DEF AnswerIgnored, NextAnswer, Accepting, AcceptStages
  <2>2. AcceptInFlight(r) => AcceptInFlight(r)'
    BY <2>1 DEF AcceptInFlight, Accepting
  <2>3. Searching(r) => Searching(r)'
    BY <1>6 DEF AnswerIgnored, Searching, Stage
  <2> QED BY <1>6, <2>1, <2>2, <2>3 DEF AnswerIgnored, Driven, Announced, Accepting, AcceptStages
\* What the steps of an accept share.
<1>7. answers[r][d][n] \in AcceptStages =>
         /\ currentDriver[r] = d
         /\ trip[r] = IF answers[r][d][n] = "notify" THEN d ELSE None
  BY <1>1 DEF RequestInv, AcceptInv, Accepting
<1>8. CASE SetDriverBusy(r, d, n) \/ MarkMatched(r, d, n)
  <2>1. trip[r] = None /\ trip'[r] = None
    BY <1>7, <1>8 DEF SetDriverBusy, MarkMatched, AcceptStages
  <2> QED BY <1>3, <1>8, <2>1 DEF SetDriverBusy, MarkMatched, AcceptStages, Announced
<1>9. CASE CreateTrip(r, d, n)
  <2>1. answers'[r][d][n] = "notify"
    BY <1>2, <1>9 DEF CreateTrip
  <2> QED BY <1>3, <1>9, <2>1 DEF CreateTrip, AcceptStages, Announced
<1>10. CASE CreateTripRejected(r, d, n) \/ NotifyFails(r, d, n)
  BY <1>7, <1>10, DispatchAssumption DEF CreateTripRejected, NotifyFails, AcceptStages
<1>11. CASE NotifyMatched(r, d, n)
  <2>1. riderStatus'[r] = "matched"
    BY <1>1, <1>11 DEF NotifyMatched, SendStatusToRider, TypeOK
  <2> QED BY <1>11, <2>1 DEF NotifyMatched, Unlist, Driven, Announced
<1> QED
  BY <1>4, <1>5, <1>6, <1>8, <1>9, <1>10, <1>11 DEF Answer, AcceptStep

\* The other handlers.
LEMMA RequestStepServes ==
  ASSUME IInv, NEW r \in Request,
         \/ StartMatching(r) \/ TimeoutFires(r) \/ CancelStep(r)
         \/ CreateRideRequest(r) \/ CancelRead(r)
  PROVE  Serves(r)
<1> USE DEF db, entry, clients, Serves
<1>1. TypeOK /\ RequestInv(r) /\ None \in Cause
  BY DEF IInv, Cause
<1>2. UNCHANGED <<trip, answers>>
  BY DEF StartMatching, TimeoutFires, CancelStep, CancelUnlist, CancelWrite, CreateRideRequest,
         CancelRead
<1>3. CASE StartMatching(r) \/ CreateRideRequest(r)
  <2>1. Stage(r, None)' \in {"query", "begin"}
    <3>1. CASE StartMatching(r)
      BY <1>1, <3>1, StageAfter DEF StartMatching
    <3>2. CASE CreateRideRequest(r)
      BY <1>1, <3>2, StageAfter DEF CreateRideRequest
    <3> QED BY <1>3, <3>1, <3>2
  <2>2. Driven(r)'
    BY <1>1, <2>1 DEF Driven, Searching
  <2>3. riderStatus' = riderStatus
    BY <1>3 DEF StartMatching, CreateRideRequest
  <2> QED BY <1>2, <2>2, <2>3 DEF Announced
<1>4. CASE TimeoutFires(r)
  <2>1. /\ r \in timeoutHandle /\ r \in pendingRequests
        /\ currentDriver[r] \in Driver /\ currentDriver[r] # None
        /\ trip[r] = None
    BY <1>1, <1>4, DispatchAssumption DEF TimeoutFires, RequestInv, TimerInv, TripInv, TypeOK
  <2>2. \E k \in Cause : Stage(r, k)' = "query"
    <3>1. SearchStarts(r, currentDriver[r], "timer") /\ currentDriver[r] \in Cause
      BY <1>4, <2>1 DEF TimeoutFires, Cause
    <3> QED BY <1>1, <3>1, StageAfter
  <2>3. Searching(r)'
    BY <2>2 DEF Searching
  <2> QED BY <1>2, <2>1, <2>3 DEF Driven, Announced
<1>5. CASE CancelUnlist(r)
  BY <1>2, <1>5 DEF CancelUnlist, Unlist, Driven, Announced
<1>6. CASE CancelWrite(r) \/ CancelRead(r)
  <2>1. UNCHANGED <<entry, search, clients>>
    BY <1>6 DEF CancelWrite, CancelRead
  <2>2. (Searching(r)' <=> Searching(r)) /\ (AcceptInFlight(r)' <=> AcceptInFlight(r))
    BY <1>2, <2>1 DEF Searching, Stage, AcceptInFlight, Accepting
  <2> QED BY <1>2, <2>1, <2>2 DEF Driven, Announced
<1> QED BY <1>3, <1>4, <1>5, <1>6 DEF CancelStep

-----------------------------------------------------------------------------
\* A request is served by every step that is not a failure.
LEMMA StepServes ==
  ASSUME AnswersOnce, AnswersOnce', IInv, [Undisturbed]_vars, NEW q \in Request
  PROVE  Serves(q)
<1>1. TypeOK
  BY DEF IInv
<1>2. ASSUME NEW r \in Request,
             \/ \E c \in Cause : SearchStep(r, c)
             \/ \E d \in Driver, n \in AnswerIndex : Answer(r, d, n) \/ AcceptStep(r, d, n)
             \/ StartMatching(r) \/ TimeoutFires(r) \/ CancelStep(r)
             \/ CreateRideRequest(r) \/ CancelRead(r)
      PROVE  Serves(q)
  <2>1. CASE q = r
    BY <1>2, <2>1, SearchServes, AnswerServes, RequestStepServes
  <2>2. CASE q # r
    BY <1>1, <1>2, <2>2, OtherRequestsSame, SameIsServed
  <2> QED BY <2>1, <2>2
<1>3. CASE \/ \E d \in Driver : DriverConnects(d) \/ DriverDisconnects(d)
           \/ \E d \in Driver, status \in StatusWrites : UpdateDriverStatus(d, status)
           \/ UNCHANGED vars
  <2>1. SameRequest(q)
    BY <1>3 DEF DriverConnects, DriverDisconnects, UpdateDriverStatus, SameRequest, vars, db,
       entry, clients
  <2> QED BY <2>1, SameIsServed DEF Serves
<1> QED
  BY <1>2, <1>3 DEF Undisturbed, Environment

\* The one failure that is left takes requests off the list, but loses the
\* announcement.
LEMMA CrashServes ==
  ASSUME AnswersOnce, AnswersOnce', IInv, [Next]_vars, Faults \subseteq {"crash"},
         NEW q \in Request
  PROVE  /\ Driven(q) => Driven(q)'
         /\ Announced(q) /\ ~ Crash => Announced(q)'
<1>1. Failure => Crash
  BY DEF Failure, SearchFails, ExpireFails, AcceptFails, CancelFails
<1>2. CASE Crash
  BY <1>2 DEF Crash, ServerRestarts, Driven
<1>3. CASE [Undisturbed]_vars
  BY <1>3, StepServes DEF Serves
<1> QED BY <1>1, <1>2, <1>3, NextMayFail

\* A listed request is not forgotten: it has a timer, a search or an accept
\* that will decide it.  Crashes, which empty the list, do not matter.
THEOREM PendingIsDriven ==
  ASSUME MaxAnswers = 1, Faults \subseteq {"crash"}
  PROVE  Spec => []PendingRequestIsDriven
<1> DEFINE Inv == IInv /\ \A r \in Request : Driven(r)
<1>1. Init => Inv
  BY InitInv DEF Init, Driven
<1>2. Inv /\ [Next]_vars => Inv'
  <2> SUFFICES ASSUME Inv, [Next]_vars, NEW q \in Request PROVE Driven(q)'
    BY NextInv, BoundedAnswers
  <2> QED BY CrashServes, BoundedAnswers
<1>3. Inv => PendingRequestIsDriven
  BY DEF Driven, PendingRequestIsDriven, IInv, TypeOK
<1> QED
  BY <1>1, <1>2, <1>3, PTL DEF Spec

\* "Trip is created and both parties are notified": the message to the rider
\* follows the insert whatever else happens to the request in between.
THEOREM TripsAreAnnounced ==
  ASSUME MaxAnswers = 1, Faults = {}
  PROVE  Spec => []TripIsAnnounced
<1> DEFINE Inv == IInv /\ \A r \in Request : Announced(r)
<1>1. Init => Inv
  BY InitInv DEF Init, Announced
<1>2. Inv /\ [Next]_vars => Inv'
  <2> SUFFICES ASSUME Inv, [Next]_vars, NEW q \in Request PROVE Announced(q)'
    BY NextInv, BoundedAnswers
  <2>1. ~ Crash
    BY DEF Crash
  <2> QED BY <2>1, CrashServes, BoundedAnswers
<1>3. Inv => TripIsAnnounced
  BY DEF Announced, TripIsAnnounced
<1> QED
  BY <1>1, <1>2, <1>3, PTL DEF Spec

-----------------------------------------------------------------------------
(***************************************************************************)
(* Drivers that are BUSY.                                                  *)
(***************************************************************************)

\* The reasons, and the steps that can take one away.
Occupies(r, d) ==
    \/ trip[r] = d
    \/ \E n \in AnswerIndex : answers[r][d][n] \in {"match", "create"}

\* Without faults a driver that a request occupies stays occupied by it.
LEMMA OccupiesOn ==
  ASSUME MaxAnswers = 1, Faults = {}, IInv, [Next]_vars,
         NEW q \in Request, NEW e \in Driver, Occupies(q, e)
  PROVE  Occupies(q, e)'
<1> USE DEF db, entry, clients
<1>1. TypeOK /\ RequestInv(q) /\ AnswerIndex = {1}
  BY DEF IInv, AnswerIndex
<1>2. ASSUME NEW r \in Request,
             \/ \E c \in Cause : SearchStep(r, c)
             \/ \E d \in Driver, n \in AnswerIndex : Answer(r, d, n) \/ AcceptStep(r, d, n)
             \/ StartMatching(r) \/ TimeoutFires(r) \/ CancelStep(r)
             \/ CreateRideRequest(r) \/ CancelRead(r),
             r # q
      PROVE  Occupies(q, e)'
  BY <1>1, <1>2, OtherRequestsSame DEF SameRequest, Occupies
<1>3. CASE \E d \in Driver, n \in AnswerIndex : Answer(q, d, n) \/ AcceptStep(q, d, n)
  <2>1. PICK d \in Driver : Answer(q, d, 1) \/ AcceptStep(q, d, 1)
    BY <1>1, <1>3
  <2>2. \A stage : AnswerGoesTo(q, d, 1, stage) =>
           answers'[q][e][1] = IF e = d THEN stage ELSE answers[q][e][1]
    BY <1>1, AnswerAfter
  <2>3. CASE Answer(q, d, 1)
    <3>1. answers[q][d][1] = "unsent" /\ trip' = trip
      BY <2>3 DEF Answer, DriverAccept, DriverDecline, AnswerIgnored, NextAnswer
    <3>2. \E stage : AnswerGoesTo(q, d, 1, stage)
      BY <2>3 DEF Answer, DriverAccept, DriverDecline, AnswerIgnored
    <3>3. e # d => answers'[q][e][1] = answers[q][e][1]
      BY <2>2, <3>2
    <3> QED BY <1>1, <3>1, <3>3 DEF Occupies
  <2>4. CASE SetDriverBusy(q, d, 1) \/ MarkMatched(q, d, 1)
    BY <1>1, <2>2, <2>4 DEF SetDriverBusy, MarkMatched, Occupies
  <2>5. CASE CreateTrip(q, d, 1)
    <3>1. trip[q] = None /\ e # None
      BY <2>5, DispatchAssumption DEF CreateTrip
    <3>2. trip'[q] = d
      BY <1>1, <2>5 DEF CreateTrip, TypeOK
    <3>3. e # d => answers'[q][e][1] = answers[q][e][1]
      BY <2>2, <2>5 DEF CreateTrip
    <3> QED BY <1>1, <3>1, <3>2, <3>3 DEF Occupies
  <2>6. CASE CreateTripRejected(q, d, 1)
    BY <1>1, <2>6 DEF CreateTripRejected, RequestInv, AcceptInv, Accepting, AcceptStages
  <2>7. CASE NotifyMatched(q, d, 1) \/ NotifyFails(q, d, 1)
    <3>1. answers[q][d][1] = "notify" /\ trip' = trip /\ AnswerGoesTo(q, d, 1, "done")
      BY <2>7 DEF NotifyMatched, NotifyFails
    <3> QED BY <1>1, <2>2, <3>1 DEF Occupies
  <2> QED BY <2>1, <2>3, <2>4, <2>5, <2>6, <2>7 DEF AcceptStep
<1>4. CASE UNCHANGED <<trip, answers>>
  BY <1>4 DEF Occupies
<1>5. ASSUME NEW r \in Request,
             \/ \E c \in Cause : SearchStep(r, c)
             \/ StartMatching(r) \/ TimeoutFires(r) \/ CancelStep(r)
             \/ CreateRideRequest(r) \/ CancelRead(r)
      PROVE  UNCHANGED <<trip, answers>>
  BY <1>5 DEF SearchStep, FindAvailable, OfferSent, OfferUnsent, OfferAbandoned, NoCandidate,
     MarkExpired, NotifyNoDrivers, StartMatching, TimeoutFires, CancelStep, CancelUnlist,
     CancelWrite, CreateRideRequest, CancelRead
<1>6. CASE \/ \E d \in Driver : DriverConnects(d) \/ DriverDisconnects(d)
           \/ \E d \in Driver, status \in StatusWrites : UpdateDriverStatus(d, status)
           \/ UNCHANGED vars
  BY <1>4, <1>6 DEF DriverConnects, DriverDisconnects, UpdateDriverStatus, vars
<1>7. ~ Failure
  BY DEF Failure, SearchFails, ExpireFails, AcceptFails, CancelFails, Crash
<1> QED
  BY <1>2, <1>3, <1>4, <1>5, <1>6, <1>7 DEF Next, Environment

\* The only step that makes a driver BUSY.
LEMMA BusyOnlyByAccept ==
  ASSUME MaxAnswers = 1, Faults = {}, "BUSY" \notin StatusWrites, IInv, [Next]_vars,
         NEW e \in Driver, driverStatus'[e] = "BUSY", driverStatus[e] # "BUSY"
  PROVE  \E r \in Request : Occupies(r, e)'
<1> USE DEF db, entry, clients
<1>1. TypeOK /\ AnswerIndex = {1}
  BY DEF IInv, AnswerIndex
<1>2. CASE \E r \in Request, d \in Driver, n \in AnswerIndex : SetDriverBusy(r, d, n)
  <2>1. PICK r \in Request, d \in Driver : SetDriverBusy(r, d, 1)
    BY <1>1, <1>2
  <2>2. e = d
    BY <1>1, <2>1 DEF SetDriverBusy, TypeOK
  <2>3. answers'[r][d][1] = "match"
    BY <1>1, <2>1, AnswerAfter DEF SetDriverBusy
  <2> QED BY <1>1, <2>2, <2>3 DEF Occupies
<1>3. CASE \E d \in Driver, status \in StatusWrites : UpdateDriverStatus(d, status)
  BY <1>1, <1>3 DEF UpdateDriverStatus, TypeOK
<1>4. CASE UNCHANGED driverStatus
  BY <1>4
<1>5. ASSUME NEW r \in Request, StartMatching(r) \/ TimeoutFires(r) \/ CancelStep(r)
      PROVE  UNCHANGED driverStatus
  BY <1>5 DEF StartMatching, TimeoutFires, CancelStep, CancelUnlist, CancelWrite
<1>6. ASSUME NEW r \in Request, NEW c \in Cause, SearchStep(r, c)
      PROVE  UNCHANGED driverStatus
  BY <1>6 DEF SearchStep, FindAvailable, OfferSent, OfferUnsent, OfferAbandoned, NoCandidate,
     MarkExpired, NotifyNoDrivers
<1>7. ASSUME NEW r \in Request, NEW d \in Driver, NEW n \in AnswerIndex, AcceptStep(r, d, n)
      PROVE  SetDriverBusy(r, d, n) \/ UNCHANGED driverStatus
  BY <1>7 DEF AcceptStep, MarkMatched, CreateTrip, CreateTripRejected, NotifyMatched, NotifyFails
<1>8. ASSUME Environment
      PROVE  \/ \E d \in Driver, status \in StatusWrites : UpdateDriverStatus(d, status)
             \/ UNCHANGED driverStatus
  BY <1>8 DEF Environment, CreateRideRequest, CancelRead, Answer, DriverAccept, DriverDecline,
     AnswerIgnored, DriverConnects, DriverDisconnects
<1>9. ~ Failure
  BY DEF Failure, SearchFails, ExpireFails, AcceptFails, CancelFails, Crash
<1>10. CASE UNCHANGED vars
  BY <1>10 DEF vars
<1> QED BY <1>2, <1>3, <1>4, <1>5, <1>6, <1>7, <1>8, <1>9, <1>10 DEF Next

\* A driver is not left BUSY for nothing, unless it set BUSY itself
\* (trips.service.ts, TripsService.create).
THEOREM BusyDriversHaveTrips ==
  ASSUME MaxAnswers = 1, Faults = {}, "BUSY" \notin StatusWrites
  PROVE  Spec => []BusyHasTrip
<1> DEFINE Busy == \A e \in Driver : driverStatus[e] = "BUSY" => \E r \in Request : Occupies(r, e)
           Inv  == IInv /\ Busy
<1>1. Init => Inv
  BY InitInv DEF Init
<1>2. Inv /\ [Next]_vars => Inv'
  <2> SUFFICES ASSUME Inv, [Next]_vars, NEW e \in Driver, driverStatus'[e] = "BUSY"
               PROVE  \E r \in Request : Occupies(r, e)'
    BY NextInv, BoundedAnswers
  <2>1. CASE driverStatus[e] = "BUSY"
    BY <2>1, OccupiesOn
  <2>2. CASE driverStatus[e] # "BUSY"
    BY <2>2, BusyOnlyByAccept
  <2> QED BY <2>1, <2>2
<1>3. Inv => BusyHasTrip
  BY DEF BusyHasTrip, Occupies
<1> QED
  BY <1>1, <1>2, <1>3, PTL DEF Spec
=============================================================================
