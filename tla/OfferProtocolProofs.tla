------------------------ MODULE OfferProtocolProofs ------------------------
(***************************************************************************)
(* RideDispatch implements OfferProtocol, when an app answers an offer     *)
(* once, for every set of requests and drivers and whatever fails.         *)
(*                                                                         *)
(* Three facts carry the proof.  The holder of a request is its current    *)
(* driver, or nobody.  An open offer has its timer armed, so that an       *)
(* accept finds the driver that holds the request already.  And the        *)
(* current driver changes only while a search runs, when nobody holds it.  *)
(***************************************************************************)
EXTENDS RideDispatchProofs

\* An accept whose trip is not there yet.
Deciding(r) == \E d \in Driver, n \in AnswerIndex : answers[r][d][n] \in {"busy", "match", "create"}

Held(r) == r \in timeoutHandle \/ Deciding(r)

\* An offer that its driver, still the current one, has not answered has its
\* timer armed.
ArmedInv(r) ==
    r \in pendingRequests /\ currentDriver[r] \in offers[r] =>
        \A n \in AnswerIndex : answers[r][currentDriver[r]][n] = "unsent" => r \in timeoutHandle

HoldInv == IInv /\ \A r \in Request : ArmedInv(r)

-----------------------------------------------------------------------------
\* The mapping, without CHOOSE.
HolderFacts == \A r \in Request :
    /\ Holder(r) = IF Held(r) THEN currentDriver[r] ELSE None
    /\ Held(r) => currentDriver[r] \in Driver /\ ~ Searching(r)

\* The holder of an offer is the current driver of its entry ...
LEMMA HolderIsCurrent == IInv => HolderFacts
<1> SUFFICES ASSUME IInv, NEW r \in Request
             PROVE  /\ Holder(r) = IF Held(r) THEN currentDriver[r] ELSE None
                    /\ Held(r) => currentDriver[r] \in Driver /\ ~ Searching(r)
  BY DEF HolderFacts
<1>1. TypeOK /\ TimerInv(r) /\ AcceptInv(r)
  BY DEF IInv, RequestInv
<1>2. ASSUME NEW d \in Driver, NEW n \in AnswerIndex,
             answers[r][d][n] \in {"busy", "match", "create"}
      PROVE  currentDriver[r] = d /\ ~ Searching(r)
  BY <1>1, <1>2 DEF AcceptInv, Accepting, AcceptStages
<1>3. r \in timeoutHandle => currentDriver[r] \in Driver /\ ~ Searching(r)
  BY <1>1 DEF TimerInv, TypeOK
<1>4. CASE r \in timeoutHandle
  BY <1>3, <1>4 DEF Holder, Held
<1>5. CASE r \notin timeoutHandle /\ Deciding(r)
  <2> DEFINE Decides(d) == \E n \in AnswerIndex : answers[r][d][n] \in {"busy", "match", "create"}
  <2>1. \E d \in Driver : Decides(d)
    BY <1>5 DEF Deciding
  <2>2. \A d \in Driver : Decides(d) => currentDriver[r] = d /\ ~ Searching(r)
    BY <1>2
  <2>3. Holder(r) = CHOOSE d \in Driver : Decides(d)
    BY <1>5 DEF Holder, Deciding
  <2> HIDE DEF Decides
  <2>4. Holder(r) \in Driver /\ Decides(Holder(r))
    BY <2>1, <2>3
  <2> QED BY <1>5, <2>2, <2>4 DEF Held
<1>6. CASE r \notin timeoutHandle /\ ~ Deciding(r)
  BY <1>6 DEF Holder, Held, Deciding
<1> QED BY <1>4, <1>5, <1>6

\* ... and after a step too.
LEMMA HolderIsCurrentNext == IInv' => HolderFacts'
  BY HolderIsCurrent, PTL

\* A request nothing happened to has the same holder.
LEMMA SameHolder ==
  ASSUME NEW r \in Request, SameRequest(r)
  PROVE  Holder(r)' = Holder(r) /\ (ArmedInv(r) => ArmedInv(r)')
  BY DEF SameRequest, Holder, ArmedInv

-----------------------------------------------------------------------------
\* Every handler but sendOfferToDriver and the insert of the trip: nobody is
\* asked, nobody gets the trip, and the request is held by the driver that
\* held it before, or by nobody.
Releases(r) ==
    /\ offers'[r] = offers[r]
    /\ trip'[r] = trip[r]
    /\ Holder(r)' \in {Holder(r), None}

\* What is enough for that.
LEMMA ReleasesBy ==
  ASSUME IInv, IInv', NEW r \in Request,
         offers'[r] = offers[r], trip'[r] = trip[r],
         currentDriver'[r] = currentDriver[r] \/ Searching(r)' \/ ~ Held(r)',
         Held(r)' => Held(r)
  PROVE  Releases(r)
<1>1. Holder(r) = IF Held(r) THEN currentDriver[r] ELSE None
  BY HolderIsCurrent DEF HolderFacts
<1>2. /\ Holder(r)' = IF Held(r)' THEN currentDriver'[r] ELSE None
      /\ Held(r)' => ~ Searching(r)'
  BY HolderIsCurrentNext DEF HolderFacts
<1> QED BY <1>1, <1>2 DEF Releases

-----------------------------------------------------------------------------
(***************************************************************************)
(* The steps of the handlers of one request.                               *)
(***************************************************************************)
LEMMA OfferSentOffers ==
  ASSUME HoldInv, IInv', NEW r \in Request, NEW c \in Cause, NEW d \in Driver, OfferSent(r, c, d)
  PROVE  /\ Holder(r) = None /\ trip[r] = None /\ d \notin offers[r]
         /\ offers' = [offers EXCEPT ![r] = @ \cup {d}]
         /\ trip' = trip
         /\ Holder(r)' = d
         /\ ArmedInv(r)'
<1>1. TypeOK /\ RequestInv(r) /\ Searching(r)
  BY DEF HoldInv, IInv, OfferSent, Searching
<1>2. Holder(r) = None
  BY <1>1, HolderIsCurrent DEF HoldInv, HolderFacts
<1>3. trip[r] = None
  BY <1>1 DEF RequestInv, TripInv
<1>4. d \notin offers[r]
  BY <1>1 DEF OfferSent, Remaining, RequestInv, OfferInv
<1>5. /\ r \in timeoutHandle'
      /\ currentDriver'[r] = d
      /\ offers' = [offers EXCEPT ![r] = @ \cup {d}]
      /\ trip' = trip
  BY <1>1 DEF OfferSent, ArmTimeout, TypeOK, db
<1>6. Holder(r)' = d
  BY <1>5, HolderIsCurrentNext DEF HolderFacts, Held
<1> QED BY <1>2, <1>3, <1>4, <1>5, <1>6 DEF ArmedInv

\* The trip is created: the holder is assigned and nobody holds the offer.
LEMMA CreateTripAssigns ==
  ASSUME MaxAnswers = 1, HoldInv, IInv', NEW r \in Request, NEW d \in Driver,
         NEW n \in AnswerIndex, CreateTrip(r, d, n)
  PROVE  /\ Holder(r) = d /\ trip[r] = None
         /\ trip' = [trip EXCEPT ![r] = d]
         /\ offers' = offers
         /\ Holder(r)' = None
         /\ ArmedInv(r)'
<1>1. TypeOK /\ RequestInv(r)
  BY DEF HoldInv, IInv
<1>2. answers[r][d][n] = "create" /\ AnswerGoesTo(r, d, n, "notify")
  BY DEF CreateTrip
<1>3. currentDriver[r] = d /\ r \notin timeoutHandle /\ Deciding(r)
  BY <1>1, <1>2 DEF RequestInv, AcceptInv, Accepting, AcceptStages, Deciding
<1>4. Holder(r) = d
  BY <1>3, HolderIsCurrent DEF HoldInv, HolderFacts, Held
<1>5. /\ trip' = [trip EXCEPT ![r] = d]
      /\ trip[r] = None
      /\ UNCHANGED <<entry, clients>>
  BY DEF CreateTrip
<1>6. AnswerIndex = {1}
  BY DEF AnswerIndex
<1>7. \A e \in Driver, m \in AnswerIndex :
         answers'[r][e][m] = IF e = d THEN "notify" ELSE answers[r][e][m]
  BY <1>1, <1>2, <1>6, AnswerAfter
<1>8. ~ Held(r)'
  <2>1. \A e \in Driver, m \in AnswerIndex : e # d =>
           answers[r][e][m] \notin {"busy", "match", "create"}
    BY <1>1, <1>3 DEF RequestInv, AcceptInv, Accepting, AcceptStages
  <2> QED BY <1>3, <1>5, <1>7, <2>1 DEF Held, Deciding, entry
<1>9. Holder(r)' = None
  BY <1>8, HolderIsCurrentNext DEF HolderFacts
<1>10. ArmedInv(r)'
  BY <1>3, <1>5, <1>6, <1>7 DEF ArmedInv, entry, clients
<1> QED BY <1>4, <1>5, <1>9, <1>10 DEF clients

\* The other steps of a search.
LEMMA SearchReleases ==
  ASSUME HoldInv, IInv', NEW r \in Request, NEW c \in Cause, SearchStep(r, c),
         \A d \in Driver : ~ OfferSent(r, c, d)
  PROVE  Releases(r) /\ ArmedInv(r)'
<1> USE DEF db, entry, clients
<1>1. TypeOK /\ RequestInv(r) /\ IInv
  BY DEF HoldInv, IInv
<1>2. Searching(r)
  BY DEF SearchStep, FindAvailable, OfferUnsent, OfferSent, OfferAbandoned, NoCandidate, MarkExpired,
         NotifyNoDrivers, Searching
<1>3. currentDriver[r] \notin offers[r] /\ r \notin timeoutHandle
  BY <1>1, <1>2 DEF RequestInv, OfferInv, TimerInv
<1>4. /\ UNCHANGED <<trip, offers, answers>>
      /\ timeoutHandle' \subseteq timeoutHandle
      /\ pendingRequests' \subseteq pendingRequests
  BY DEF SearchStep, FindAvailable, OfferUnsent, OfferAbandoned, NoCandidate, MarkExpired,
         NotifyNoDrivers, ClearTimeout, Unlist
<1>5. ~ Held(r)
  BY <1>1, <1>2, HolderIsCurrent DEF HolderFacts
<1>6. Held(r)' => Held(r)
  BY <1>4 DEF Held, Deciding
<1>7. Releases(r)
  BY <1>1, <1>4, <1>5, <1>6, ReleasesBy
<1>8. CASE \E d \in Driver : OfferUnsent(r, c, d)
  <2>1. Stage(r, c)' = "query"
    BY <1>1, <1>8, StageAfter DEF OfferUnsent
  <2>2. Searching(r)'
    BY <2>1 DEF Searching
  <2> QED BY <1>7, <2>2 DEF IInv, RequestInv, OfferInv, ArmedInv
<1>9. CASE \A d \in Driver : ~ OfferUnsent(r, c, d)
  <2>1. currentDriver'[r] = currentDriver[r]
    BY <1>9 DEF SearchStep, FindAvailable, OfferAbandoned, NoCandidate, MarkExpired, NotifyNoDrivers
  <2> QED BY <1>3, <1>4, <1>7, <2>1 DEF ArmedInv
<1> QED BY <1>8, <1>9

\* Answers, and an accept on its way to the insert of the trip or after it.
LEMMA AnswerReleases ==
  ASSUME MaxAnswers = 1, HoldInv, IInv', NEW r \in Request, NEW d \in Driver, NEW n \in AnswerIndex,
         Answer(r, d, n) \/ AcceptStep(r, d, n) \/ AcceptFails(r, d, n), ~ CreateTrip(r, d, n)
  PROVE  Releases(r) /\ ArmedInv(r)'
<1> USE DEF db, entry, clients
<1>1. TypeOK /\ RequestInv(r) /\ IInv /\ ArmedInv(r)
  BY DEF HoldInv, IInv
<1>2. UNCHANGED <<trip, offers>> /\ AnswerIndex = {1} /\ n = 1
  BY DEF Answer, AcceptStep, DriverAccept, DriverDecline, AnswerIgnored, SetDriverBusy,
         MarkMatched, CreateTripRejected, NotifyMatched, NotifyFails, AcceptFails, AnswerIndex
<1>3. \A stage : AnswerGoesTo(r, d, n, stage) => \A e \in Driver, m \in AnswerIndex :
         answers'[r][e][m] = IF e = d /\ m = n THEN stage ELSE answers[r][e][m]
  BY <1>1, AnswerAfter
<1>4. CASE DriverAccept(r, d, n)
  <2>1. /\ answers[r][d][n] = "unsent" /\ d \in offers[r]
        /\ r \in pendingRequests /\ currentDriver[r] = d
        /\ AnswerGoesTo(r, d, n, "busy")
        /\ UNCHANGED <<currentDriver, pendingRequests>>
    BY <1>4 DEF DriverAccept, NextAnswer, IsCurrent
  <2>2. r \in timeoutHandle
    BY <1>1, <2>1 DEF ArmedInv
  <2>3. Releases(r)
    BY <1>1, <1>2, <2>1, <2>2, ReleasesBy DEF Held
  <2>4. ArmedInv(r)'
    BY <1>2, <1>3, <2>1 DEF ArmedInv
  <2> QED BY <2>3, <2>4
<1>5. CASE DriverDecline(r, d, n)
  <2>1. Stage(r, d)' = "query"
    BY <1>1, <1>5, StageAfter DEF DriverDecline, Cause
  <2>2. Searching(r)'
    BY <2>1 DEF Searching, Cause
  <2>3. ~ Held(r)'
    BY <2>2, HolderIsCurrentNext DEF HolderFacts
  <2>4. Releases(r)
    BY <1>1, <1>2, <2>3, ReleasesBy
  <2>5. ArmedInv(r)'
    BY <2>2 DEF IInv, RequestInv, OfferInv, ArmedInv
  <2> QED BY <2>4, <2>5
<1>6. CASE AnswerIgnored(r, d, n)
  <2>1. /\ ~ IsCurrent(r, d) /\ AnswerGoesTo(r, d, n, "done")
        /\ UNCHANGED <<pendingRequests, currentDriver, timeoutHandle>>
    BY <1>6 DEF AnswerIgnored
  <2>2. Held(r)' => Held(r)
    BY <1>2, <1>3, <2>1 DEF Held, Deciding
  <2>3. Releases(r)
    BY <1>1, <1>2, <2>1, <2>2, ReleasesBy
  <2>4. ArmedInv(r)'
    BY <1>1, <1>2, <1>3, <2>1 DEF ArmedInv, IsCurrent, TypeOK
  <2> QED BY <2>3, <2>4
<1>7. CASE AcceptStep(r, d, n) \/ AcceptFails(r, d, n)
  <2>1. PICK stage \in {"match", "create", "notify", "done"} :
           /\ AnswerGoesTo(r, d, n, stage)
           /\ stage \in {"match", "create", "notify"} =>
                 answers[r][d][n] \in {"busy", "match", "create"}
    BY <1>7 DEF AcceptStep, SetDriverBusy, MarkMatched, CreateTripRejected, NotifyMatched,
       NotifyFails, AcceptFails
  <2>2. /\ pendingRequests' \subseteq pendingRequests
        /\ UNCHANGED <<currentDriver, timeoutHandle>>
    BY <1>7 DEF AcceptStep, SetDriverBusy, MarkMatched, CreateTripRejected, NotifyMatched,
       NotifyFails, AcceptFails, Unlist
  <2>3. Held(r)' => Held(r)
    BY <1>2, <1>3, <2>1, <2>2 DEF Held, Deciding
  <2>4. Releases(r)
    BY <1>1, <1>2, <2>2, <2>3, ReleasesBy
  <2>5. \A e \in Driver : answers'[r][e][1] = "unsent" => answers[r][e][1] = "unsent"
    BY <1>2, <1>3, <2>1
  <2>6. ArmedInv(r)'
    <3>1. offers[r] \subseteq Driver
      BY <1>1 DEF TypeOK
    <3> QED BY <1>1, <1>2, <2>2, <2>5, <3>1 DEF ArmedInv
  <2> QED BY <2>4, <2>6
<1> QED BY <1>4, <1>5, <1>6, <1>7 DEF Answer

\* The other handlers of a request.
LEMMA RequestStepReleases ==
  ASSUME HoldInv, IInv', NEW r \in Request,
         \/ StartMatching(r) \/ TimeoutFires(r) \/ CancelStep(r)
         \/ CreateRideRequest(r) \/ CancelRead(r) \/ CancelFails(r)
  PROVE  Releases(r) /\ ArmedInv(r)'
<1> USE DEF db, entry, clients
<1>1. TypeOK /\ RequestInv(r) /\ IInv /\ ArmedInv(r)
  BY DEF HoldInv, IInv
<1>2. /\ UNCHANGED <<trip, offers, answers>>
      /\ timeoutHandle' \subseteq timeoutHandle
  BY DEF StartMatching, TimeoutFires, CancelStep, CancelUnlist, CancelWrite, ClearTimeout,
         KeepTimeout, CreateRideRequest, CancelRead, CancelFails
<1>3. Held(r)' => Held(r)
  BY <1>2 DEF Held, Deciding
<1>4. CASE StartMatching(r) \/ (TimeoutFires(r) /\ currentDriver'[r] # currentDriver[r])
  <2>1. \E c \in Cause : Stage(r, c)' = "query"
    <3>1. CASE StartMatching(r)
      BY <1>1, <3>1, StageAfter DEF StartMatching, Cause
    <3>2. CASE TimeoutFires(r) /\ currentDriver'[r] # currentDriver[r]
      <4>1. SearchStarts(r, currentDriver[r], "timer") /\ currentDriver[r] \in Cause
        BY <1>1, <3>2 DEF TimeoutFires, TypeOK
      <4> QED BY <1>1, <4>1, StageAfter
    <3> QED BY <1>4, <3>1, <3>2
  <2>2. Searching(r)'
    BY <2>1 DEF Searching
  <2>3. Releases(r)
    BY <1>1, <1>2, <1>3, <2>2, ReleasesBy
  <2>4. ArmedInv(r)'
    BY <2>2 DEF IInv, RequestInv, OfferInv, ArmedInv
  <2> QED BY <2>3, <2>4
<1>5. CASE ~ StartMatching(r) /\ currentDriver'[r] = currentDriver[r]
  <2>1. Releases(r)
    BY <1>1, <1>2, <1>3, <1>5, ReleasesBy
  <2>2. ASSUME r \in pendingRequests', currentDriver[r] \in offers[r]
        PROVE  r \in timeoutHandle => r \in timeoutHandle'
    <3>1. currentDriver[r] \in Driver /\ currentDriver[r] # None
      BY <1>1, <2>2, DispatchAssumption DEF TypeOK
    <3>2. CASE TimeoutFires(r)
      <4>1. r \in pendingRequests
        BY <2>2, <3>2 DEF TimeoutFires
      <4>2. currentDriver'[r] = None
        BY <1>1, <3>1, <3>2, <4>1 DEF TimeoutFires, Declines, TypeOK
      <4> QED BY <1>5, <3>1, <4>2
    <3>3. CASE CancelUnlist(r)
      BY <2>2, <3>3 DEF CancelUnlist, Unlist
    <3>4. CASE CancelWrite(r) \/ CreateRideRequest(r) \/ CancelRead(r) \/ CancelFails(r)
      BY <3>4 DEF CancelWrite, CreateRideRequest, CancelRead, CancelFails
    <3> QED BY <1>5, <3>2, <3>3, <3>4 DEF CancelStep
  <2>3. pendingRequests' \subseteq pendingRequests
    BY <1>5 DEF TimeoutFires, CancelStep, CancelUnlist, CancelWrite, Unlist, CreateRideRequest,
       CancelRead, CancelFails
  <2>4. ArmedInv(r)'
    BY <1>1, <1>2, <1>5, <2>2, <2>3 DEF ArmedInv
  <2> QED BY <2>1, <2>4
<1>6. currentDriver'[r] # currentDriver[r] => StartMatching(r) \/ TimeoutFires(r)
  BY DEF CancelStep, CancelUnlist, CancelWrite, CreateRideRequest, CancelRead, CancelFails
<1> QED BY <1>4, <1>5, <1>6

\* A restart lets every offer go.
LEMMA RestartReleases ==
  ASSUME HoldInv, IInv', ServerRestarts, NEW r \in Request
  PROVE  Releases(r) /\ ArmedInv(r)'
<1>1. r \notin pendingRequests' /\ ~ Held(r)' /\ offers'[r] = offers[r] /\ trip'[r] = trip[r]
  BY DEF ServerRestarts, Held, Deciding, Accepting, AcceptStages, clients, db
<1> QED BY <1>1, ReleasesBy DEF HoldInv, ArmedInv

\* A search that throws releases what was held, or holds on.
LEMMA ThrowReleases ==
  ASSUME HoldInv, IInv', NEW r \in Request, NEW c \in Cause, SearchThrows(r, c), NEW q \in Request
  PROVE  Releases(q) /\ ArmedInv(q)'
<1>1. CASE ServerRestarts
  BY <1>1, RestartReleases
<1>2. CASE UNCHANGED <<db, entry, driverSockets, answers, canceling, clients>>
  <2>1. Releases(q)
    BY <1>2, ReleasesBy DEF HoldInv, Held, Deciding, db, entry, clients
  <2> QED BY <1>2, <2>1 DEF HoldInv, ArmedInv, entry, clients
<1> QED BY <1>1, <1>2 DEF SearchThrows

-----------------------------------------------------------------------------
(***************************************************************************)
(* From the handlers of a request to the steps of the protocol.            *)
(***************************************************************************)

\* Requests that release at once make one step of the protocol.
LEMMA ReleaseStep ==
  ASSUME \A r \in Request : Releases(r), TypeOK, TypeOK'
  PROVE  Protocol!Next
<1> DEFINE R == {r \in Request : Holder(r)' # Holder(r)}
<1>1. offers' = offers /\ trip' = trip
  BY DEF Releases, TypeOK
<1>2. [r \in Request |-> Holder(r)'] =
         [r \in Request |-> IF r \in R THEN None ELSE [q \in Request |-> Holder(q)][r]]
  BY DEF Releases
<1>3. Protocol!Release(R)
  BY <1>1, <1>2 DEF Protocol!Release
<1> QED BY <1>3 DEF Protocol!Next

\* The invariant that the mapping needs, and the step a step maps to.
LEMMA StepImplements ==
  MaxAnswers = 1 /\ HoldInv /\ IInv' /\ [Next]_vars => HoldInv' /\ [Protocol!Next]_Protocol!vars
<1> SUFFICES ASSUME MaxAnswers = 1, HoldInv, IInv', [Next]_vars
             PROVE  (\A q \in Request : ArmedInv(q)') /\ Protocol!Next
  BY DEF HoldInv
<1>1. TypeOK /\ TypeOK' /\ IInv
  BY DEF HoldInv, IInv
<1>2. ASSUME \A q \in Request : Releases(q) /\ ArmedInv(q)'
      PROVE  (\A q \in Request : ArmedInv(q)') /\ Protocol!Next
  BY <1>1, <1>2, ReleaseStep
<1>3. ASSUME NEW q \in Request, SameRequest(q)
      PROVE  Releases(q) /\ ArmedInv(q)'
  BY <1>3, SameHolder DEF Releases, SameRequest, HoldInv
<1>4. ASSUME NEW r \in Request, NEW c \in Cause, NEW d \in Driver, OfferSent(r, c, d)
      PROVE  (\A q \in Request : ArmedInv(q)') /\ Protocol!Next
  <2>1. \A q \in Request : q # r => SameRequest(q)
    BY <1>1, <1>4, OtherRequestsSame DEF SearchStep
  <2>2. /\ Holder(r) = None /\ trip[r] = None /\ d \notin offers[r]
        /\ offers' = [offers EXCEPT ![r] = @ \cup {d}]
        /\ trip' = trip
        /\ Holder(r)' = d
        /\ ArmedInv(r)'
    BY <1>4, OfferSentOffers
  <2>3. [q \in Request |-> Holder(q)'] = [[q \in Request |-> Holder(q)] EXCEPT ![r] = d]
    BY <2>1, <2>2, SameHolder
  <2>4. Protocol!Offer(r, d)
    BY <2>2, <2>3 DEF Protocol!Offer
  <2> QED BY <1>3, <2>1, <2>2, <2>4 DEF Protocol!Next
<1>5. ASSUME NEW r \in Request, NEW d \in Driver, NEW n \in AnswerIndex, CreateTrip(r, d, n)
      PROVE  (\A q \in Request : ArmedInv(q)') /\ Protocol!Next
  <2>1. \A q \in Request : q # r => SameRequest(q)
    BY <1>1, <1>5, OtherRequestsSame DEF AcceptStep
  <2>2. /\ Holder(r) = d /\ trip[r] = None
        /\ trip' = [trip EXCEPT ![r] = d]
        /\ offers' = offers
        /\ Holder(r)' = None
        /\ ArmedInv(r)'
    BY <1>5, CreateTripAssigns
  <2>3. [q \in Request |-> Holder(q)'] = [[q \in Request |-> Holder(q)] EXCEPT ![r] = None]
    BY <2>1, <2>2, SameHolder
  <2>4. d # None
    BY DispatchAssumption
  <2>5. Protocol!Assign(r)
    BY <2>2, <2>3, <2>4 DEF Protocol!Assign
  <2> QED BY <1>3, <2>1, <2>2, <2>5 DEF Protocol!Next
<1>6. ASSUME NEW r \in Request,
             \/ \E c \in Cause : SearchStep(r, c) /\ \A d \in Driver : ~ OfferSent(r, c, d)
             \/ \E d \in Driver, n \in AnswerIndex :
                   /\ Answer(r, d, n) \/ AcceptStep(r, d, n) \/ AcceptFails(r, d, n)
                   /\ ~ CreateTrip(r, d, n)
             \/ StartMatching(r) \/ TimeoutFires(r) \/ CancelStep(r)
             \/ CreateRideRequest(r) \/ CancelRead(r) \/ CancelFails(r)
      PROVE  \A q \in Request : Releases(q) /\ ArmedInv(q)'
  <2>1. Releases(r) /\ ArmedInv(r)'
    BY <1>6, SearchReleases, AnswerReleases, RequestStepReleases
  <2>2. \A q \in Request : q # r => SameRequest(q)
    BY <1>1, <1>6, OtherRequestsSame
  <2> QED BY <1>3, <2>1, <2>2
<1>7. ASSUME \/ \E d \in Driver : DriverConnects(d) \/ DriverDisconnects(d)
             \/ \E d \in Driver, status \in StatusWrites : UpdateDriverStatus(d, status)
             \/ UNCHANGED vars
      PROVE  \A q \in Request : Releases(q) /\ ArmedInv(q)'
  <2>1. \A q \in Request : SameRequest(q)
    BY <1>7 DEF DriverConnects, DriverDisconnects, UpdateDriverStatus, SameRequest, vars, db,
       entry, clients
  <2> QED BY <1>3, <2>1
<1>8. ASSUME \/ \E r \in Request, c \in Cause : SearchFails(r, c) \/ ExpireFails(r, c)
             \/ Crash
      PROVE  \A q \in Request : Releases(q) /\ ArmedInv(q)'
  BY <1>8, ThrowReleases, RestartReleases DEF SearchFails, ExpireFails, Crash
<1> QED
  BY <1>2, <1>4, <1>5, <1>6, <1>7, <1>8 DEF Next, Environment, Failure, SearchStep, AcceptStep

\* The initial states are those of the protocol.
LEMMA InitImplements == Init => HoldInv /\ Protocol!Init
<1> SUFFICES ASSUME Init PROVE HoldInv /\ Protocol!Init
  OBVIOUS
<1>1. IInv
  BY InitInv
<1>2. ASSUME NEW r \in Request PROVE ArmedInv(r) /\ Holder(r) = None
  <2>1. ~ Held(r) /\ r \notin pendingRequests
    BY DEF Init, Held, Deciding
  <2> QED BY <1>1, <2>1, HolderIsCurrent DEF ArmedInv, HolderFacts
<1> QED BY <1>1, <1>2 DEF HoldInv, Init, Protocol!Init

\* Every run of the handlers is a run of the offer protocol: one driver at a
\* time holds the offer, nobody is asked twice, and the trip goes to the holder
\* (RidesService, sendOfferToDriver to handleDriverAccept).
THEOREM OfferProtocolImplemented ==
  ASSUME MaxAnswers = 1 PROVE Spec => ImplementsOfferProtocol
<1>1. HoldInv /\ [Next]_vars => HoldInv' /\ [Protocol!Next]_Protocol!vars
  BY NextInv, BoundedAnswers, StepImplements DEF HoldInv
<1> QED BY <1>1, InitImplements, PTL DEF Spec, ImplementsOfferProtocol, Protocol!Spec
=============================================================================
