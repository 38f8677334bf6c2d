--------------------------- MODULE RideAppsProofs ---------------------------
(***************************************************************************)
(* The dispatch with the apps at its ends, for every set of requests and   *)
(* drivers, every length of the countdown, every number of answers and     *)
(* every choice of the ends that are played by their app.                  *)
(***************************************************************************)
EXTENDS RideApps, RideDispatchProofs, FiniteSetTheorems

(***************************************************************************)
(* The composition: the apps choose when the backend is called and with    *)
(* what, and every step of the whole is a step of the backend, or none.    *)
(***************************************************************************)
LEMMA FreshFacts ==
  HasFreshRequest => /\ FreshRequest \in Request
                     /\ requestStatus[FreshRequest] = "NONE"
                     /\ FreshRequest \notin riderApp.posting
  BY DEF HasFreshRequest, FreshRequest

\* A handler of the backend is a step of RideDispatch, and no failure.
LEMMA BackendDispatches ==
  ASSUME NEW r \in Request, Backend(r)
  PROVE  Undisturbed
<1>1. ASSUME NEW c \in Cause, Search(r, c) PROVE SearchStep(r, c)
  BY <1>1 DEF Search, SendOffer, GiveUp, SearchStep
<1>2. ASSUME NEW d \in Driver, NEW n \in AnswerIndex, Accept(r, d, n) PROVE AcceptStep(r, d, n)
  BY <1>2 DEF Accept, AnnounceMatch, AcceptStep
<1>3. TimeOut(r) => TimeoutFires(r)
  BY DEF TimeOut
<1> QED BY <1>1, <1>2, <1>3 DEF Backend, Undisturbed

\* So is what the driver's page makes the backend do ...
LEMMA DriverEndDispatches ==
  ASSUME AppsTypeOK, NEW d \in Driver, DriverEnd(d)
  PROVE  Undisturbed \/ UNCHANGED vars
<1>1. CASE OfferArrives(d) \/ CountdownTicks(d) \/ DriverClicks(d) \/ ReadProfile(d)
           \/ ResponseArrives(d)
  BY <1>1 DEF OfferArrives, CountdownTicks, DriverClicks, ReadProfile, ResponseArrives, DriverRuns
<1>2. CASE WriteStatus(d)
  BY <1>2 DEF WriteStatus, UpdateDriverStatus, Undisturbed, Environment
<1>3. CASE AnswerArrives(d)
  <2>1. driverApp[d].outbox \in Seq(D!Message) /\ driverApp[d].outbox # <<>>
    BY <1>3 DEF AnswerArrives, AppsTypeOK, D!App
  <2>2. Head(driverApp[d].outbox) \in D!Message
    BY <2>1
  <2>3. Head(driverApp[d].outbox).request \in Request
    BY <2>2 DEF D!Message
  <2>4. \E r \in Request, n \in AnswerIndex : Answer(r, d, n)
    BY <1>3, <2>3 DEF AnswerArrives, Answer
  <2> QED BY <2>4 DEF Undisturbed, Environment
<1>4. CASE LinkBreaks(d)
  BY <1>4 DEF LinkBreaks, Undisturbed, Environment
<1> QED BY <1>1, <1>2, <1>3, <1>4 DEF DriverEnd

\* ... and the rider's.
LEMMA RiderEndDispatches ==
  ASSUME RiderEnd
  PROVE  Undisturbed \/ UNCHANGED vars
<1>1. CASE RiderClicks \/ StatusArrives
  BY <1>1 DEF RiderClicks, StatusArrives, RiderRuns
<1>2. ASSUME NEW r \in Request, HandleRequest(r) \/ RequestReturns(r)
      PROVE  Undisturbed \/ UNCHANGED vars
  BY <1>2 DEF HandleRequest, RequestReturns, RiderRuns, Undisturbed, Environment
<1> QED BY <1>1, <1>2 DEF RiderEnd

\* The whole does what RideDispatch does without failures.
LEMMA NothingFails == AppsTypeOK /\ [AppsNext]_allVars => [Undisturbed]_vars
<1> SUFFICES ASSUME AppsTypeOK, AppsNext PROVE Undisturbed \/ UNCHANGED vars
  BY DEF allVars
<1>1. ASSUME NEW d \in Driver, LinkOpens(d) PROVE Undisturbed
  BY <1>1 DEF LinkOpens, Undisturbed, Environment
<1>2. ASSUME NEW d \in Driver, AnyDriver(d) PROVE Undisturbed
  <2>1. 1 \in AnswerIndex
    BY DispatchAssumption DEF AnswerIndex
  <2>2. CASE \E r \in Request : DriverAccept(r, d, 1) \/ AnswerIgnored(r, d, 1) \/ DriverDecline(r, d, 1)
    BY <2>1, <2>2 DEF Undisturbed, Environment, Answer
  <2>3. CASE DriverDisconnects(d) \/ UpdateDriverStatus(d, "ONLINE")
    BY <2>3 DEF Undisturbed, Environment, UpdateDriverStatus
  <2> QED BY <1>2, <2>2, <2>3 DEF AnyDriver
<1>3. AnyRider => Undisturbed
  BY FreshFacts DEF AnyRider, Undisturbed, Environment
<1> QED
  BY <1>1, <1>2, <1>3, BackendDispatches, DriverEndDispatches, RiderEndDispatches DEF AppsNext

\* In particular it refines RideDispatch, step by step.
LEMMA AppsStepDispatches == AppsTypeOK /\ [AppsNext]_allVars => [Next]_vars
  BY NothingFails, NextMayFail

-----------------------------------------------------------------------------
(***************************************************************************)
(* Type correctness.                                                       *)
(***************************************************************************)

\* An answer that the page sends is about the offer it shows.
LEMMA DriverEmits ==
  ASSUME NEW a \in D!App, a.currentOffer # None, NEW answer \in {"accept", "decline"}
  PROVE  D!Emit(a, answer) \in D!App
<1>1. [request |-> a.currentOffer, answer |-> answer] \in D!Message
  BY DEF D!Message, D!App
<1>2. Append(a.outbox, [request |-> a.currentOffer, answer |-> answer]) \in Seq(D!Message)
  <2>1. a.outbox \in Seq(D!Message)
    BY DEF D!App
  <2> QED BY <1>1, <2>1
<1>3. \A s \in Seq(D!Message) : [a EXCEPT !.outbox = s] \in D!App
  BY DEF D!App
<1> QED BY <1>2, <1>3 DEF D!Emit, D!App

\* The handlers of the driver's page, one by one.
LEMMA DriverHandlers ==
  ASSUME NEW a \in D!App
  PROVE  /\ a.inbox # <<>> => D!HandleRideOffer(a) \in D!App
         /\ D!Ticking(a) => D!Tick(a) \in D!App
         /\ D!ShowsOffer(a) => D!AcceptOffer(a) \in D!App
         /\ D!RejectOffer(a) \in D!App
         /\ D!ArriveAtPickup(a) \in D!App
         /\ D!StartTrip(a) \in D!App
         /\ D!CompleteTrip(a) \in D!App
         /\ D!MayGoOnline(a) => D!GoOnline(a) \in D!App
         /\ D!MayGoOffline(a) => D!GoOffline(a) \in D!App
         /\ D!ProfileArrives(a) \in D!App
         /\ D!ChangeArrives(a) \in D!App
         /\ D!ChangeFails(a) \in D!App
         /\ a.outbox # <<>> => D!Sent(a) \in D!App
         /\ \A r \in Request : D!Deliver(a, r) \in D!App
<1>0. /\ a.inbox \in Seq(Request) /\ a.outbox \in Seq(D!Message)
      /\ a.currentOffer \in Request \cup {None}
      /\ a.changes \in 0 .. MaxChanges /\ a.offerTimeout \in 1 .. OfferSeconds
      /\ OfferSeconds \in 1 .. OfferSeconds /\ MaxChanges \in Nat
  <2>1. /\ a.inbox \in Seq(Request) /\ a.outbox \in Seq(D!Message)
        /\ a.currentOffer \in Request \cup {None}
        /\ a.changes \in 0 .. MaxChanges /\ a.offerTimeout \in 1 .. OfferSeconds
    BY DEF D!App
  <2> QED BY <2>1, AppsAssumption
<1>1. \A s \in Seq(D!Message) : [a EXCEPT !.outbox = s] \in D!App
  BY DEF D!App
<1>2. \A s \in Seq(Request) : [a EXCEPT !.inbox = s] \in D!App
  BY DEF D!App
<1>3. a.inbox # <<>> => D!HandleRideOffer(a) \in D!App
  <2> SUFFICES ASSUME a.inbox # <<>> PROVE D!HandleRideOffer(a) \in D!App
    OBVIOUS
  <2>1. Tail(a.inbox) \in Seq(Request) /\ Head(a.inbox) \in Request
    BY <1>0
  <2> DEFINE b == [a EXCEPT !.inbox = Tail(@), !.currentOffer = Head(a.inbox),
                            !.state = "ride_offer", !.offerTimeout = OfferSeconds]
  <2>2. b \in D!App
    BY <1>0, <2>1 DEF D!App, D!DriverState
  <2>3. D!HandleRideOffer(a) = [b EXCEPT !.orphaned = b.orphaned \/ b.countdown, !.countdown = TRUE]
    BY <2>2 DEF D!HandleRideOffer, D!StartCountdown, D!App
  <2>4. (b.orphaned \/ b.countdown) \in BOOLEAN
    OBVIOUS
  <2> HIDE DEF b
  <2>5. \A o \in BOOLEAN : [b EXCEPT !.orphaned = o, !.countdown = TRUE] \in D!App
    BY <2>2 DEF D!App
  <2> QED BY <2>3, <2>4, <2>5
<1>4. ASSUME a.currentOffer # None, NEW answer \in {"accept", "decline"}
      PROVE  D!Emit(a, answer) \in D!App
  BY <1>4, DriverEmits
<1>5. ASSUME NEW b \in D!App, NEW state \in D!DriverState
      PROVE  /\ [D!StopOfferTimeout(b) EXCEPT !.state = state] \in D!App
             /\ [D!StopOfferTimeout(b) EXCEPT !.currentOffer = None, !.state = state] \in D!App
  BY <1>5 DEF D!StopOfferTimeout, D!App
<1>6. D!ShowsOffer(a) => D!AcceptOffer(a) \in D!App
  BY <1>4, <1>5 DEF D!ShowsOffer, D!AcceptOffer, D!DriverState
<1>7. D!RejectOffer(a) \in D!App
  <2> DEFINE told == IF a.currentOffer = None THEN a ELSE D!Emit(a, "decline")
  <2>1. told \in D!App
    BY <1>4
  <2> HIDE DEF told
  <2>2. [D!StopOfferTimeout(told) EXCEPT !.currentOffer = None, !.state = "online"] \in D!App
    BY <1>5, <2>1 DEF D!DriverState
  <2> QED BY <2>2 DEF D!RejectOffer, told
<1>8. D!Tick(a) \in D!App
  <2>1. a.offerTimeout > 1 => a.offerTimeout - 1 \in 1 .. OfferSeconds
    BY <1>0, AppsAssumption
  <2>2. \A n \in 1 .. OfferSeconds : [a EXCEPT !.offerTimeout = n] \in D!App
    BY DEF D!App
  <2>3. a.offerTimeout <= 1 \/ a.offerTimeout > 1
    BY <1>0
  <2> QED BY <1>7, <2>1, <2>2, <2>3 DEF D!Tick, D!App
<1>9. /\ D!ArriveAtPickup(a) \in D!App
      /\ D!StartTrip(a) \in D!App
      /\ D!CompleteTrip(a) \in D!App
  BY DEF D!ArriveAtPickup, D!StartTrip, D!CompleteTrip, D!App, D!DriverState
<1>10. /\ D!MayGoOnline(a) => D!GoOnline(a) \in D!App
       /\ D!MayGoOffline(a) => D!GoOffline(a) \in D!App
  <2>1. a.changes < MaxChanges => a.changes + 1 \in 0 .. MaxChanges
    BY <1>0
  <2>2. \A n \in 0 .. MaxChanges, status \in {"to ONLINE", "to OFFLINE"} :
           [a EXCEPT !.change = status, !.changes = n] \in D!App
    BY DEF D!App
  <2>3. /\ D!GoOnline(a) = [a EXCEPT !.change = "to ONLINE", !.changes = a.changes + 1]
        /\ D!GoOffline(a) = [a EXCEPT !.change = "to OFFLINE", !.changes = a.changes + 1]
    BY DEF D!GoOnline, D!GoOffline, D!Asked, D!App
  <2> QED BY <2>1, <2>2, <2>3 DEF D!MayGoOnline, D!MayGoOffline
<1>11. /\ D!ProfileArrives(a) \in D!App
       /\ D!ChangeArrives(a) \in D!App
       /\ D!ChangeFails(a) \in D!App
  BY DEF D!ProfileArrives, D!ChangeArrives, D!ChangeFails, D!App, D!DriverState
<1>12. a.outbox # <<>> => D!Sent(a) \in D!App
  <2>1. a.outbox # <<>> => Tail(a.outbox) \in Seq(D!Message)
    BY <1>0
  <2> QED BY <1>1, <2>1 DEF D!Sent, D!App
<1>13. ASSUME NEW r \in Request PROVE D!Deliver(a, r) \in D!App
  <2>1. Append(a.inbox, r) \in Seq(Request)
    BY <1>0
  <2> QED BY <1>2, <2>1 DEF D!Deliver, D!App
<1> QED BY <1>3, <1>6, <1>7, <1>8, <1>9, <1>10, <1>11, <1>12, <1>13
\* The handlers of the rider's page.
LEMMA RiderHandlers ==
  ASSUME NEW a \in R!App
  PROVE  /\ R!StartBooking(a) \in R!App
         /\ R!ChoosePlace(a) \in R!App
         /\ R!ConfirmPickup(a) \in R!App
         /\ R!CancelRequest(a) \in R!App
         /\ a.inbox # <<>> => R!HandleStatus(a) \in R!App
         /\ \A r \in Request : /\ R!RequestRide(a, r) \in R!App
                               /\ R!Responded(a, r) \in R!App
                               /\ R!RequestFails(a, r) \in R!App
         /\ \A r \in Request, status \in R!Statuses, d \in Cause : R!Deliver(a, r, status, d) \in R!App
<1>1. /\ R!StartBooking(a) \in R!App
      /\ R!ChoosePlace(a) \in R!App
      /\ R!ConfirmPickup(a) \in R!App
  BY DEF R!StartBooking, R!ChoosePlace, R!ConfirmPickup, R!App, R!RideState
<1>2. ASSUME NEW b \in R!App PROVE R!ResetState(b) \in R!App
  BY DEF R!ResetState, R!App, R!RideState
<1>3. R!CancelRequest(a) \in R!App
  <2>1. \A b \in R!App : [b EXCEPT !.abandoned = TRUE] \in R!App
    BY DEF R!App
  <2> QED BY <1>2, <2>1 DEF R!CancelRequest
<1>4. ASSUME NEW r \in Request
      PROVE  /\ R!RequestRide(a, r) \in R!App
             /\ R!Responded(a, r) \in R!App
             /\ R!RequestFails(a, r) \in R!App
  <2>1. a.posting \cup {r} \in SUBSET Request /\ a.posting \ {r} \in SUBSET Request
    BY DEF R!App
  <2> QED BY <2>1 DEF R!RequestRide, R!Responded, R!RequestFails, R!App, R!RideState
<1>5. ASSUME a.inbox # <<>> PROVE R!HandleStatus(a) \in R!App
  <2>1. a.inbox \in Seq(R!Message)
    BY DEF R!App
  <2>2. Head(a.inbox) \in R!Message /\ Tail(a.inbox) \in Seq(R!Message)
    BY <1>5, <2>1
  <2> DEFINE msg == Head(a.inbox)
             b   == [a EXCEPT !.inbox = Tail(@)]
  <2>3. msg.request \in Request /\ msg.driver \in Driver \cup {None}
    BY <2>2 DEF R!Message
  <2>4. b \in R!App
    BY <2>2 DEF R!App
  <2>5. R!HandleStatus(a) =
           CASE msg.status = "matching"   -> [b EXCEPT !.state = "searching"]
             [] msg.status = "matched"    -> [b EXCEPT !.state = "matched", !.shown = msg.request,
                                                       !.matchedDriver = msg.driver]
             [] msg.status = "no_drivers" -> R!ResetState(b)
             [] OTHER                     -> b
    BY DEF R!HandleStatus
  <2> HIDE DEF msg, b
  <2>6. /\ [b EXCEPT !.state = "searching"] \in R!App
        /\ [b EXCEPT !.state = "matched", !.shown = msg.request, !.matchedDriver = msg.driver] \in R!App
        /\ R!ResetState(b) \in R!App
    BY <1>2, <2>3, <2>4 DEF R!App, R!RideState
  <2> QED BY <2>4, <2>5, <2>6
<1>6. ASSUME NEW r \in Request, NEW status \in R!Statuses, NEW d \in Cause
      PROVE  R!Deliver(a, r, status, d) \in R!App
  <2>1. [request |-> r, status |-> status, driver |-> d] \in R!Message
    BY DEF R!Message, Cause
  <2>2. Append(a.inbox, [request |-> r, status |-> status, driver |-> d]) \in Seq(R!Message)
    BY <2>1 DEF R!App
  <2>3. \A s \in Seq(R!Message) : [a EXCEPT !.inbox = s] \in R!App
    BY DEF R!App
  <2> QED BY <2>2, <2>3 DEF R!Deliver, R!App
<1> QED BY <1>1, <1>3, <1>4, <1>5, <1>6

\* The pages are opened well typed.
LEMMA AppsInitType == AppsInit => AppsTypeOK
<1> SUFFICES ASSUME AppsInit PROVE AppsTypeOK
  OBVIOUS
<1>1. /\ <<>> \in Seq(Request) /\ <<>> \in Seq(D!Message) /\ <<>> \in Seq(R!Message)
      /\ OfferSeconds \in 1 .. OfferSeconds /\ 0 \in 0 .. MaxChanges
  BY AppsAssumption
<1>2. D!Opened \in D!App
  BY <1>1 DEF D!Opened, D!App, D!DriverState
<1>3. R!Opened \in R!App
  BY <1>1 DEF R!Opened, R!App, R!RideState
<1> QED BY <1>2, <1>3, InitType DEF AppsInit, AppsTypeOK

\* What a step of the driver's end does to its page.
LEMMA DriverPageType ==
  ASSUME AppsTypeOK, NEW d \in Driver, DriverEnd(d)
  PROVE  driverApp' \in [Driver -> D!App]
<1>1. driverApp \in [Driver -> D!App] /\ driverApp[d] \in D!App
  BY DEF AppsTypeOK
<1>2. ASSUME NEW b \in D!App, DriverRuns(d, b) PROVE driverApp' \in [Driver -> D!App]
  BY <1>1, <1>2 DEF DriverRuns
<1>3. CASE OfferArrives(d) \/ CountdownTicks(d) \/ DriverClicks(d)
  BY <1>1, <1>2, <1>3, DriverHandlers DEF OfferArrives, CountdownTicks, DriverClicks
<1>4. CASE ReadProfile(d)
  <2>1. driverStatus[d] \in D!DriverStatus
    BY DEF AppsTypeOK, TypeOK, D!DriverStatus
  <2>2. [driverApp[d] EXCEPT !.profile = driverStatus[d]] \in D!App
    BY <1>1, <2>1 DEF D!App
  <2> QED BY <1>2, <1>4, <2>2 DEF ReadProfile
<1>5. CASE WriteStatus(d)
  <2>1. PICK status \in {"ONLINE", "OFFLINE"} : driverApp' = [driverApp EXCEPT ![d].change = status]
    BY <1>5 DEF WriteStatus
  <2>2. [driverApp[d] EXCEPT !.change = status] \in D!App
    BY <1>1 DEF D!App
  <2> QED BY <1>1, <2>1, <2>2
<1>6. CASE ResponseArrives(d)
  BY <1>1, <1>2, <1>6, DriverHandlers DEF ResponseArrives
<1>7. CASE AnswerArrives(d)
  <2>1. driverApp' = [driverApp EXCEPT ![d] = D!Sent(driverApp[d])] /\ D!Sent(driverApp[d]) \in D!App
    BY <1>1, <1>7, DriverHandlers DEF AnswerArrives
  <2> QED BY <1>1, <2>1
<1>8. CASE LinkBreaks(d)
  <2>0. <<>> \in Seq(Request) /\ <<>> \in Seq(D!Message)
    OBVIOUS
  <2>1. [driverApp[d] EXCEPT !.inbox = <<>>, !.outbox = <<>>] \in D!App
    BY <1>1, <2>0 DEF D!App
  <2>2. driverApp' = [driverApp EXCEPT ![d] = [driverApp[d] EXCEPT !.inbox = <<>>, !.outbox = <<>>]]
    BY <1>1, <1>8 DEF LinkBreaks
  <2> QED BY <1>1, <2>1, <2>2
<1> QED BY <1>3, <1>4, <1>5, <1>6, <1>7, <1>8 DEF DriverEnd

\* Every step keeps the types of both pages.
LEMMA AppsNextType == AppsTypeOK /\ [AppsNext]_allVars => AppsTypeOK'
<1> SUFFICES ASSUME AppsTypeOK, [AppsNext]_allVars PROVE AppsTypeOK'
  OBVIOUS
<1>1. TypeOK' /\ driverApp \in [Driver -> D!App] /\ riderApp \in R!App
  BY AppsStepDispatches, NextType DEF AppsTypeOK
<1>2. CASE UNCHANGED allVars
  BY <1>1, <1>2 DEF AppsTypeOK, allVars, apps, vars, entry
<1>3. \A r \in Request, status \in R!Statuses, d \in Cause :
         TellRider(r, status, d) => riderApp' \in R!App
  BY <1>1, RiderHandlers DEF TellRider
<1>4. {"driver_declined", "no_drivers", "matching", "matched"} \subseteq R!Statuses /\ None \in Cause
      /\ Driver \subseteq Cause
  BY DEF R!Statuses, Cause
<1>5. /\ Waits => lost' \subseteq timeoutHandle' /\ played' \in Ends
      /\ lost \subseteq timeoutHandle /\ played \in Ends
  BY DEF AppsTypeOK, Waits
<1>6. /\ Unseen => driverApp' \in [Driver -> D!App] /\ riderApp' \in R!App
                   /\ lost' \subseteq timeoutHandle' /\ played' \in Ends
      /\ \A r \in Request, status \in R!Statuses, d \in Cause : Tell(r, status, d) =>
            driverApp' \in [Driver -> D!App] /\ riderApp' \in R!App
            /\ lost' \subseteq timeoutHandle' /\ played' \in Ends
  BY <1>1, <1>3, <1>5 DEF Unseen, Tell
<1> DEFINE Typed == driverApp' \in [Driver -> D!App] /\ riderApp' \in R!App
                    /\ lost' \subseteq timeoutHandle' /\ played' \in Ends
<1>7. ASSUME NEW r \in Request, Backend(r) PROVE Typed
  <2>1. ASSUME NEW c \in Cause, NEW d \in Driver, SendOffer(r, c, d) PROVE Typed
    <3>1. D!Deliver(driverApp[d], r) \in D!App
      BY <1>1, DriverHandlers
    <3> QED BY <1>1, <1>5, <2>1, <3>1 DEF SendOffer, TellDriver
  <2>2. ASSUME NEW c \in Cause, Search(r, c) PROVE Typed
    BY <1>4, <1>6, <2>1, <2>2 DEF Search, GiveUp
  <2>3. TimeOut(r) => Typed
    BY <1>4, <1>6 DEF TimeOut
  <2>4. ASSUME NEW d \in Driver, NEW n \in AnswerIndex, Accept(r, d, n) PROVE Typed
    BY <1>4, <1>6, <2>4 DEF Accept, AnnounceMatch
  <2> QED BY <1>6, <1>7, <2>2, <2>3, <2>4 DEF Backend
<1>8. ASSUME NEW d \in Driver, DriverEnd(d) PROVE Typed
  <2>1. driverApp' \in [Driver -> D!App]
    BY <1>8, DriverPageType
  <2>2. CASE AnswerArrives(d)
    <3>1. Head(driverApp[d].outbox).request \in Request
      <4>1. driverApp[d].outbox \in Seq(D!Message) /\ driverApp[d].outbox # <<>>
        BY <1>1, <2>2 DEF AnswerArrives, D!App
      <4>2. Head(driverApp[d].outbox) \in D!Message
        BY <4>1
      <4> QED BY <4>2 DEF D!Message
    <3> QED BY <1>1, <1>3, <1>4, <1>5, <2>1, <2>2, <3>1 DEF AnswerArrives
  <2>3. CASE LinkBreaks(d)
    BY <1>1, <1>5, <2>1, <2>3 DEF LinkBreaks, DriverDisconnects, entry
  <2>4. CASE ~ AnswerArrives(d) /\ ~ LinkBreaks(d)
    <3>1. UNCHANGED <<timeoutHandle, played, riderApp, lost>>
      BY <1>8, <2>4 DEF DriverEnd, OfferArrives, CountdownTicks, DriverClicks, ReadProfile,
         WriteStatus, ResponseArrives, DriverRuns, UpdateDriverStatus, vars, entry
    <3> QED BY <1>1, <1>5, <2>1, <3>1
  <2> QED BY <2>2, <2>3, <2>4
<1>9. ASSUME NEW d \in Driver, AnyDriver(d) PROVE Typed
  BY <1>4, <1>6, <1>9 DEF AnyDriver
<1>10. ASSUME RiderEnd PROVE Typed
  <2>1. ASSUME NEW b \in R!App, RiderRuns(b) PROVE Typed
    BY <1>1, <1>5, <2>1 DEF RiderRuns, vars, entry
  <2>2. CASE RiderClicks
    BY <1>1, <2>1, <2>2, RiderHandlers, FreshFacts DEF RiderClicks
  <2>3. ASSUME NEW r \in Request, HandleRequest(r) \/ RequestReturns(r) PROVE Typed
    BY <1>1, <1>6, <2>1, <2>3, RiderHandlers DEF HandleRequest, RequestReturns
  <2>4. CASE StatusArrives
    BY <1>1, <2>1, <2>4, RiderHandlers DEF StatusArrives
  <2> QED BY <1>10, <2>2, <2>3, <2>4 DEF RiderEnd
<1>11. CASE AppsNext
  <2>1. Typed
    BY <1>6, <1>7, <1>8, <1>9, <1>10, <1>11 DEF AppsNext, LinkOpens, AnyRider
  <2> QED BY <1>1, <2>1 DEF AppsTypeOK
<1> QED BY <1>2, <1>11

\* Every state of the composition is well typed: the backend's, both pages', and
\* the messages on their way (driver-dashboard.component.ts,
\* rider-dashboard.component.ts).
THEOREM AppsTypeCorrect == AppsSpec => []AppsTypeOK
  BY AppsInitType, AppsNextType, PTL DEF AppsSpec

\* The composition is a behaviour of the dispatch: whatever is proved of
\* RideDispatch for drivers and riders that do as they like holds with the apps.
THEOREM AppsDispatch == AppsSpec => Spec
<1>1. AppsInit => Init
  BY DEF AppsInit
<1> QED BY <1>1, AppsTypeCorrect, AppsStepDispatches, PTL DEF AppsSpec, Spec

-----------------------------------------------------------------------------
(***************************************************************************)
(* The inductive invariants.                                               *)
(***************************************************************************)

\* Where the offer of r can be: on its way to the page a, on it, in a message on
\* its way from it, and in the answer the backend has got.
InInbox(a, r)  == \E i \in 1 .. Len(a.inbox) : a.inbox[i] = r
InOutbox(a, r) == \E i \in 1 .. Len(a.outbox) : a.outbox[i].request = r
Counting(a, r) == a.countdown /\ a.currentOffer = r
Answered(r, d) == answers[r][d][1] # "unsent"

\* A countdown that has its handle answers for the current offer, and stops
\* when the driver does.
CountdownInv(a) == ~ a.orphaned =>
    /\ a.state = "ride_offer" => a.countdown
    /\ a.countdown => a.currentOffer # None /\ a.state \notin D!Riding

\* The offer is in one place ...
PlacesInv(a, r, d) ==
    /\ InInbox(a, r) \/ Counting(a, r) \/ InOutbox(a, r) \/ Answered(r, d) => d \in offers[r]
    /\ InInbox(a, r) => ~ Counting(a, r) /\ ~ InOutbox(a, r) /\ ~ Answered(r, d)
    /\ Counting(a, r) => ~ InOutbox(a, r) /\ ~ Answered(r, d)
    /\ InOutbox(a, r) => ~ Answered(r, d)

\* ... and there only once.
OnceInv(a, r, d) ==
    /\ \A i, j \in 1 .. Len(a.inbox) : a.inbox[i] = r /\ a.inbox[j] = r => i = j
    /\ \A i, j \in 1 .. Len(a.outbox) : a.outbox[i].request = r /\ a.outbox[j].request = r => i = j
    /\ \A n \in AnswerIndex : n # 1 => answers[r][d][n] = "unsent"

KnownOffer(r, d) == "driver" \in played /\ ~ driverApp[d].orphaned =>
    PlacesInv(driverApp[d], r, d) /\ OnceInv(driverApp[d], r, d)

\* A driver without a page has got nothing from it, and answers once.
NoPageInv == "driver" \notin played => AnswersOnce /\ \A d \in Driver : driverApp[d] = D!Opened

DriverEndInv ==
    /\ OneSearchInv
    /\ AppsTypeOK
    /\ NoPageInv
    /\ \A d \in Driver : CountdownInv(driverApp[d])
    /\ \A d \in Driver, r \in Request : KnownOffer(r, d)
    /\ SilenceIsVisible

-----------------------------------------------------------------------------
(***************************************************************************)
(* What the handlers of the driver's page do to it, as far as offers go.   *)
(***************************************************************************)

\* The offers stay where they are.
Stays(a, b) ==
    /\ b.inbox = a.inbox /\ b.outbox = a.outbox /\ b.orphaned = a.orphaned
    /\ b.countdown = a.countdown /\ b.currentOffer = a.currentOffer
    /\ b.state = a.state
       \/ (b.state # "ride_offer" /\ (b.state \in D!Riding => a.state \in D!Riding))

\* The ride is over.
Finishes(a, b) ==
    /\ b.inbox = a.inbox /\ b.outbox = a.outbox /\ b.orphaned = a.orphaned
    /\ b.countdown = a.countdown /\ b.currentOffer = None
    /\ a.state = "in_trip" /\ b.state = "online"

\* An offer comes up.
Shows(a, b) ==
    /\ a.inbox # <<>> /\ b.inbox = Tail(a.inbox) /\ b.outbox = a.outbox
    /\ b.currentOffer = Head(a.inbox) /\ b.countdown /\ b.state = "ride_offer"
    /\ (b.orphaned <=> a.orphaned \/ a.countdown)

\* The driver answers it, or its last second does.
Replies(a, b) ==
    /\ a.countdown \/ a.orphaned \/ a.state = "ride_offer"
    /\ b.inbox = a.inbox /\ ~ b.countdown /\ b.orphaned = a.orphaned
    /\ b.state \in {"en_route", "online"}
    /\ IF a.currentOffer = None THEN b.outbox = a.outbox
       ELSE \E answer \in {"accept", "decline"} :
               b.outbox = Append(a.outbox, [request |-> a.currentOffer, answer |-> answer])

Handles(a, b) == Stays(a, b) \/ Finishes(a, b) \/ Shows(a, b) \/ Replies(a, b)

\* Every handler of the page does one of these.
LEMMA DriverHandlerEffects ==
  ASSUME NEW a \in D!App
  PROVE  /\ a.inbox # <<>> => Shows(a, D!HandleRideOffer(a))
         /\ D!Ticking(a) => Handles(a, D!Tick(a))
         /\ D!ShowsOffer(a) => Replies(a, D!AcceptOffer(a)) /\ Replies(a, D!RejectOffer(a))
         /\ a.state = "en_route" => Stays(a, D!ArriveAtPickup(a))
         /\ a.state = "at_pickup" => Stays(a, D!StartTrip(a))
         /\ a.state = "in_trip" => Finishes(a, D!CompleteTrip(a))
         /\ Stays(a, D!GoOnline(a)) /\ Stays(a, D!GoOffline(a))
         /\ Stays(a, D!ProfileArrives(a)) /\ Stays(a, D!ChangeArrives(a))
         /\ Stays(a, D!ChangeFails(a))
<1>1. a.inbox # <<>> => Shows(a, D!HandleRideOffer(a))
  BY DEF D!HandleRideOffer, D!StartCountdown, D!App, Shows
<1>2. ASSUME a.currentOffer # None, NEW answer \in {"accept", "decline"}
      PROVE  /\ D!Emit(a, answer).outbox = Append(a.outbox, [request |-> a.currentOffer, answer |-> answer])
             /\ D!Emit(a, answer).inbox = a.inbox /\ D!Emit(a, answer).orphaned = a.orphaned
             /\ D!Emit(a, answer) \in D!App
  BY <1>2, DriverEmits DEF D!Emit, D!App
<1>3. ASSUME NEW b \in D!App, NEW state
      PROVE  LET c == [D!StopOfferTimeout(b) EXCEPT !.state = state]
                 e == [D!StopOfferTimeout(b) EXCEPT !.currentOffer = None, !.state = state]
             IN  /\ c.outbox = b.outbox /\ c.inbox = b.inbox /\ c.orphaned = b.orphaned
                 /\ ~ c.countdown /\ c.state = state
                 /\ e.outbox = b.outbox /\ e.inbox = b.inbox /\ e.orphaned = b.orphaned
                 /\ ~ e.countdown /\ e.state = state
  BY DEF D!StopOfferTimeout, D!App
<1>4. D!ShowsOffer(a) => Replies(a, D!AcceptOffer(a))
  BY <1>2, <1>3 DEF D!ShowsOffer, D!AcceptOffer, Replies
<1>5. a.countdown \/ a.orphaned \/ a.state = "ride_offer" => Replies(a, D!RejectOffer(a))
  <2> DEFINE told == IF a.currentOffer = None THEN a ELSE D!Emit(a, "decline")
  <2>1. /\ told \in D!App /\ told.inbox = a.inbox /\ told.orphaned = a.orphaned
        /\ IF a.currentOffer = None THEN told.outbox = a.outbox
           ELSE told.outbox = Append(a.outbox, [request |-> a.currentOffer, answer |-> "decline"])
    BY <1>2
  <2>2. D!RejectOffer(a) = [D!StopOfferTimeout(told) EXCEPT !.currentOffer = None, !.state = "online"]
    BY DEF D!RejectOffer
  <2> HIDE DEF told
  <2> QED BY <1>3, <2>1, <2>2 DEF Replies
<1>6. D!Ticking(a) => Handles(a, D!Tick(a))
  <2>1. \A n : Stays(a, [a EXCEPT !.offerTimeout = n])
    BY DEF Stays, D!App
  <2> QED BY <1>5, <2>1 DEF D!Ticking, D!Tick, Handles
<1>7. /\ a.state = "en_route" => Stays(a, D!ArriveAtPickup(a))
      /\ a.state = "at_pickup" => Stays(a, D!StartTrip(a))
      /\ a.state = "in_trip" => Finishes(a, D!CompleteTrip(a))
  BY DEF D!ArriveAtPickup, D!StartTrip, D!CompleteTrip, D!App, D!Riding, Stays, Finishes
<1>8. /\ Stays(a, D!GoOnline(a)) /\ Stays(a, D!GoOffline(a))
      /\ Stays(a, D!ChangeFails(a))
  BY DEF D!GoOnline, D!GoOffline, D!ChangeFails, D!App, Stays
<1>9. Stays(a, D!ProfileArrives(a)) /\ Stays(a, D!ChangeArrives(a))
  BY DEF D!ProfileArrives, D!ChangeArrives, D!App, D!Riding, Stays
<1> QED BY <1>1, <1>4, <1>5, <1>6, <1>7, <1>8, <1>9 DEF D!ShowsOffer

-----------------------------------------------------------------------------
(***************************************************************************)
(* The steps of the whole, as the driver's end sees them.                  *)
(***************************************************************************)

\* A handler of one page ran.
PageMoves(d) ==
    /\ "driver" \in played
    /\ \E b \in D!App : Handles(driverApp[d], b) /\ driverApp' = [driverApp EXCEPT ![d] = b]
    /\ UNCHANGED <<entry, search, answers, offers, played, lost>>

\* Offers and answers do not travel, and no timer is armed.
NothingTravels ==
    /\ UNCHANGED <<driverApp, offers, played>>
    /\ "driver" \in played => \A r \in Request, d \in Driver, n \in AnswerIndex :
          answers'[r][d][n] = "unsent" <=> answers[r][d][n] = "unsent"
    /\ "driver" \notin played => AnswersOnce'
    /\ \A r \in timeoutHandle' \cap pendingRequests' :
          /\ r \in timeoutHandle \cap pendingRequests
          /\ currentDriver'[r] = currentDriver[r]
          /\ r \in lost' <=> r \in lost

\* The steps of the driver's end, by what they do to offers on their way.
LEMMA DriverEndMoves ==
  ASSUME AppsTypeOK, "driver" \in played, NEW d \in Driver, DriverEnd(d)
  PROVE  PageMoves(d) \/ AnswerArrives(d) \/ LinkBreaks(d)
<1>1. driverApp[d] \in D!App /\ driverApp \in [Driver -> D!App] /\ driverApp' \in [Driver -> D!App]
  BY DriverPageType DEF AppsTypeOK
<1>2. ASSUME NEW b, DriverRuns(d, b), Handles(driverApp[d], b) PROVE PageMoves(d)
  <2>1. driverApp' = [driverApp EXCEPT ![d] = b]
    BY <1>2 DEF DriverRuns
  <2>2. b \in D!App
    BY <1>1, <2>1
  <2>3. UNCHANGED <<entry, search, answers, offers, played, lost>>
    BY <1>2 DEF DriverRuns, vars, clients
  <2> QED BY <1>2, <2>1, <2>2, <2>3 DEF PageMoves
<1>3. CASE OfferArrives(d) \/ CountdownTicks(d) \/ DriverClicks(d)
  BY <1>1, <1>2, <1>3, DriverHandlerEffects
     DEF OfferArrives, CountdownTicks, DriverClicks, Handles
<1>4. CASE ReadProfile(d)
  <2>1. Stays(driverApp[d], [driverApp[d] EXCEPT !.profile = driverStatus[d]])
    BY <1>1 DEF Stays, D!App
  <2> QED BY <1>2, <1>4, <2>1 DEF ReadProfile, Handles
<1>5. CASE WriteStatus(d)
  <2>1. PICK status \in {"ONLINE", "OFFLINE"} :
           /\ driverApp' = [driverApp EXCEPT ![d].change = status]
           /\ IF driverStatus[d] = status THEN UNCHANGED vars ELSE UpdateDriverStatus(d, status)
           /\ UNCHANGED <<played, riderApp, lost>>
    BY <1>5 DEF WriteStatus
  <2> DEFINE b == [driverApp[d] EXCEPT !.change = status]
  <2>2. driverApp' = [driverApp EXCEPT ![d] = b]
    BY <1>1, <2>1
  <2>3. b \in D!App
    BY <1>1, <2>2
  <2>4. Stays(driverApp[d], b)
    BY <1>1 DEF Stays, D!App
  <2>5. UNCHANGED <<entry, search, answers, offers, played, lost>>
    BY <2>1 DEF UpdateDriverStatus, vars, clients
  <2> QED BY <2>2, <2>3, <2>4, <2>5 DEF PageMoves, Handles
<1>6. CASE ResponseArrives(d)
  BY <1>1, <1>2, <1>6, DriverHandlerEffects DEF ResponseArrives, Handles
<1> QED BY <1>3, <1>4, <1>5, <1>6 DEF DriverEnd

\* The steps of the backend that send no offer.
LEMMA BackendTellsNoDriver ==
  ASSUME OneSearchInv, AppsTypeOK, NoPageInv, NEW r \in Request, Backend(r)
  PROVE  NothingTravels \/ \E c \in Cause, d \in Driver : SendOffer(r, c, d)
<1> USE DEF db, entry, clients
<1>1. TypeOK /\ ChainInv(r)
  BY DEF OneSearchInv
<1>2. ASSUME UNCHANGED <<driverApp, offers, answers>>, Waits,
             \A q \in timeoutHandle' \cap pendingRequests' :
                /\ q \in timeoutHandle \cap pendingRequests
                /\ currentDriver'[q] = currentDriver[q]
      PROVE  NothingTravels
  BY <1>2 DEF NothingTravels, NoPageInv, AnswersOnce, Waits
<1>3. CASE StartMatching(r) /\ Unseen
  <2>1. r \notin timeoutHandle
    BY <1>1, <1>3 DEF StartMatching, ChainInv, ArmedTimerInv, Searching, Cause
  <2> QED BY <1>1, <1>2, <1>3, <2>1 DEF StartMatching, Unseen, TypeOK
<1>4. CASE TimeOut(r)
  <2>1. UNCHANGED <<driverApp, offers, answers, pendingRequests>> /\ Waits
    BY <1>4 DEF TimeOut, TimeoutFires, Tell, Unseen
  <2>2. /\ timeoutHandle' = timeoutHandle \ {r}
        /\ \A q \in Request : q # r => currentDriver'[q] = currentDriver[q]
    BY <1>1, <1>4 DEF TimeOut, TimeoutFires, Declines, TypeOK
  <2> QED BY <1>1, <1>2, <2>1, <2>2 DEF TypeOK
<1>5. ASSUME NEW c \in Cause, Search(r, c), ~ \E d \in Driver : SendOffer(r, c, d)
      PROVE  NothingTravels
  <2>1. CASE \E d \in Driver : OfferUnsent(r, c, d) /\ Unseen
    <3>1. UNCHANGED <<driverApp, offers, answers, pendingRequests>> /\ Waits
      BY <2>1 DEF OfferUnsent, Unseen
    <3>2. /\ timeoutHandle' = timeoutHandle \ {r}
          /\ \A q \in Request : q # r => currentDriver'[q] = currentDriver[q]
      BY <1>1, <2>1 DEF OfferUnsent, ClearTimeout, TypeOK
    <3> QED BY <1>1, <1>2, <3>1, <3>2 DEF TypeOK
  <2>2. CASE \/ (FindAvailable(r, c) \/ OfferAbandoned(r, c) \/ NoCandidate(r, c)
                    \/ MarkExpired(r, c)) /\ Unseen
             \/ GiveUp(r, c)
    BY <1>2, <2>2 DEF FindAvailable, OfferAbandoned, NoCandidate, MarkExpired, GiveUp,
       NotifyNoDrivers, Unlist, Unseen, Tell
  <2> QED BY <1>5, <2>1, <2>2 DEF Search
<1>6. ASSUME NEW d \in Driver, NEW n \in AnswerIndex, Accept(r, d, n) PROVE NothingTravels
  <2>1. /\ UNCHANGED <<driverApp, offers, timeoutHandle, currentDriver>> /\ Waits
        /\ pendingRequests' \subseteq pendingRequests
        /\ answers[r][d][n] \in AcceptStages
        /\ \E stage \in AcceptStages \cup {"done"} : AnswerGoesTo(r, d, n, stage)
    BY <1>6 DEF Accept, AnnounceMatch, SetDriverBusy, MarkMatched, CreateTrip, CreateTripRejected,
       NotifyFails, NotifyMatched, Unlist, Unseen, Tell, AcceptStages
  <2>2. \A q \in Request, e \in Driver, m \in AnswerIndex :
           answers'[q][e][m] = "unsent" <=> answers[q][e][m] = "unsent"
    BY <1>1, <2>1 DEF AnswerGoesTo, AcceptStages, TypeOK
  <2> QED BY <2>1, <2>2 DEF NothingTravels, NoPageInv, AnswersOnce, Waits
<1> QED BY <1>3, <1>4, <1>5, <1>6 DEF Backend

\* And those of the whole.
LEMMA AppsMoves ==
  ASSUME OneSearchInv, AppsTypeOK, NoPageInv, AppsNext
  PROVE  \/ NothingTravels
         \/ \E d \in Driver : "driver" \in played /\ (PageMoves(d) \/ AnswerArrives(d) \/ LinkBreaks(d))
         \/ \E r \in Request, c \in Cause, d \in Driver : SendOffer(r, c, d)
<1> USE DEF db, entry, clients
<1>1. TypeOK
  BY DEF OneSearchInv
<1>2. ASSUME UNCHANGED <<driverApp, offers, answers, played, lost, entry>> PROVE NothingTravels
  BY <1>2 DEF NothingTravels, NoPageInv, AnswersOnce
<1>3. ASSUME UNCHANGED <<driverApp, offers, answers, entry>>, Waits PROVE NothingTravels
  BY <1>3 DEF NothingTravels, NoPageInv, AnswersOnce, Waits
<1>4. ASSUME NEW d \in Driver, LinkOpens(d) PROVE NothingTravels
  BY <1>3, <1>4 DEF LinkOpens, DriverConnects, Unseen
<1>5. CASE AnyRider
  BY <1>3, <1>5 DEF AnyRider, CreateRideRequest, Unseen
<1>6. CASE RiderEnd
  <2>1. CASE RiderClicks \/ StatusArrives
    BY <1>2, <2>1 DEF RiderClicks, StatusArrives, RiderRuns, vars
  <2>2. ASSUME NEW r \in Request, HandleRequest(r) PROVE NothingTravels
    BY <1>3, <2>2 DEF HandleRequest, CreateRideRequest, Unseen
  <2>3. ASSUME NEW r \in Request, RequestReturns(r) PROVE NothingTravels
    BY <1>2, <2>3 DEF RequestReturns, RiderRuns, vars
  <2> QED BY <1>6, <2>1, <2>2, <2>3 DEF RiderEnd
<1>7. ASSUME NEW d \in Driver, "driver" \notin played, AnyDriver(d) PROVE NothingTravels
  <2>1. CASE (DriverDisconnects(d) \/ UpdateDriverStatus(d, "ONLINE")) /\ Unseen
    BY <1>3, <2>1 DEF DriverDisconnects, UpdateDriverStatus, Unseen
  <2>2. ASSUME NEW r \in Request,
               (DriverAccept(r, d, 1) \/ AnswerIgnored(r, d, 1) \/ DriverDecline(r, d, 1)),
               Waits, UNCHANGED driverApp
        PROVE  NothingTravels
    <3>1. /\ UNCHANGED <<offers, pendingRequests>>
          /\ \E stage : AnswerGoesTo(r, d, 1, stage)
          /\ \/ UNCHANGED <<timeoutHandle, currentDriver>>
             \/ timeoutHandle' = timeoutHandle \ {r}
      BY <2>2 DEF DriverAccept, AnswerIgnored, DriverDecline, ClearTimeout
    <3>2. \A q \in Request : q # r => currentDriver'[q] = currentDriver[q]
      BY <1>1, <2>2 DEF DriverAccept, AnswerIgnored, DriverDecline, Declines, TypeOK
    <3>3. AnswersOnce'
      BY <1>1, <1>7, <3>1 DEF NoPageInv, AnswersOnce, AnswerGoesTo, TypeOK
    <3>4. \A q \in timeoutHandle' \cap pendingRequests' :
             /\ q \in timeoutHandle \cap pendingRequests
             /\ currentDriver'[q] = currentDriver[q]
      BY <1>1, <3>1, <3>2 DEF TypeOK
    <3> QED BY <1>7, <2>2, <3>1, <3>3, <3>4 DEF NothingTravels, Waits
  <2> QED BY <1>7, <2>1, <2>2 DEF AnyDriver, Unseen, Tell
<1> QED
  BY <1>4, <1>5, <1>6, <1>7, DriverEndMoves, BackendTellsNoDriver DEF AppsNext

-----------------------------------------------------------------------------
(***************************************************************************)
(* The driver's end keeps its invariant.                                   *)
(***************************************************************************)

\* A page whose countdown has its handle answers for what it shows.
LEMMA CountdownKept ==
  ASSUME NEW a \in D!App, NEW b \in D!App, Handles(a, b), CountdownInv(a)
  PROVE  CountdownInv(b)
<1>1. CASE Stays(a, b) \/ Finishes(a, b) \/ Replies(a, b)
  BY <1>1 DEF Stays, Finishes, Replies, CountdownInv, D!Riding
<1>2. CASE Shows(a, b)
  <2>1. a.inbox \in Seq(Request) /\ a.inbox # <<>>
    BY <1>2 DEF Shows, D!App
  <2>2. b.currentOffer # None
    BY <1>2, <2>1, AppsAssumption DEF Shows
  <2> QED BY <1>2, <2>2 DEF Shows, CountdownInv, D!Riding
<1> QED BY <1>1, <1>2 DEF Handles

\* Taking the first of a sequence, and adding one at its end.
LEMMA FirstAndRest ==
  ASSUME NEW S, NEW s \in Seq(S), s # <<>>
  PROVE  /\ Head(s) = s[1] /\ 1 \in 1 .. Len(s)
         /\ Tail(s) \in Seq(S) /\ Len(Tail(s)) = Len(s) - 1 /\ Len(s) \in Nat
         /\ \A i \in 1 .. Len(Tail(s)) : Tail(s)[i] = s[i + 1] /\ i + 1 \in 1 .. Len(s)
         /\ \A i \in 1 .. Len(s) : i # 1 => i - 1 \in 1 .. Len(Tail(s)) /\ s[i] = Tail(s)[i - 1]
  OBVIOUS

\* A sequence with one more element.
LEMMA OneMore ==
  ASSUME NEW S, NEW s \in Seq(S), NEW x \in S
  PROVE  /\ Append(s, x) \in Seq(S) /\ Len(s) \in Nat /\ Len(Append(s, x)) = Len(s) + 1
         /\ Append(s, x)[Len(s) + 1] = x
         /\ \A i \in 1 .. Len(s) : Append(s, x)[i] = s[i] /\ i \in 1 .. Len(Append(s, x))
         /\ \A i \in 1 .. Len(Append(s, x)) : i \in 1 .. Len(s) \/ i = Len(s) + 1
  OBVIOUS

\* The same of the requests named in an inbox, and in an outbox.
LEMMA InboxTaken ==
  ASSUME NEW s \in Seq(Request), s # <<>>, NEW r \in Request
  PROVE  /\ Head(s) \in Request
         /\ (\E i \in 1 .. Len(s) : s[i] = r) <=>
               (Head(s) = r \/ \E i \in 1 .. Len(Tail(s)) : Tail(s)[i] = r)
         /\ (\A i, j \in 1 .. Len(s) : s[i] = r /\ s[j] = r => i = j) =>
               /\ Head(s) = r => \A i \in 1 .. Len(Tail(s)) : Tail(s)[i] # r
               /\ \A i, j \in 1 .. Len(Tail(s)) : Tail(s)[i] = r /\ Tail(s)[j] = r => i = j
<1>1. Head(s) \in Request
  OBVIOUS
<1> DEFINE t == Tail(s)
<1>2. /\ Head(s) = s[1] /\ 1 \in 1 .. Len(s) /\ Len(s) \in Nat /\ Len(t) = Len(s) - 1
      /\ \A i \in 1 .. Len(t) : t[i] = s[i + 1] /\ i + 1 \in 1 .. Len(s)
      /\ \A i \in 1 .. Len(s) : i # 1 => i - 1 \in 1 .. Len(t) /\ s[i] = t[i - 1]
  BY FirstAndRest
<1> HIDE DEF t
<1>3. (\E i \in 1 .. Len(s) : s[i] = r) <=> (Head(s) = r \/ \E i \in 1 .. Len(t) : t[i] = r)
  BY <1>2
<1>4. ASSUME \A i, j \in 1 .. Len(s) : s[i] = r /\ s[j] = r => i = j
      PROVE  /\ Head(s) = r => \A i \in 1 .. Len(t) : t[i] # r
             /\ \A i, j \in 1 .. Len(t) : t[i] = r /\ t[j] = r => i = j
  BY <1>2, <1>4
<1> QED BY <1>1, <1>3, <1>4 DEF t

\* The first answer leaves the outbox.
LEMMA OutboxTaken ==
  ASSUME NEW s \in Seq(D!Message), s # <<>>, NEW r \in Request
  PROVE  /\ Head(s).request \in Request /\ Head(s).answer \in {"accept", "decline"}
         /\ (\E i \in 1 .. Len(s) : s[i].request = r) <=>
               (Head(s).request = r \/ \E i \in 1 .. Len(Tail(s)) : Tail(s)[i].request = r)
         /\ (\A i, j \in 1 .. Len(s) : s[i].request = r /\ s[j].request = r => i = j) =>
               /\ Head(s).request = r => \A i \in 1 .. Len(Tail(s)) : Tail(s)[i].request # r
               /\ \A i, j \in 1 .. Len(Tail(s)) :
                     Tail(s)[i].request = r /\ Tail(s)[j].request = r => i = j
<1>1. Head(s) \in D!Message
  OBVIOUS
<1> DEFINE t == Tail(s)
<1>2. /\ Head(s) = s[1] /\ 1 \in 1 .. Len(s) /\ Len(s) \in Nat /\ Len(t) = Len(s) - 1
      /\ \A i \in 1 .. Len(t) : t[i] = s[i + 1] /\ i + 1 \in 1 .. Len(s)
      /\ \A i \in 1 .. Len(s) : i # 1 => i - 1 \in 1 .. Len(t) /\ s[i] = t[i - 1]
  BY FirstAndRest
<1> HIDE DEF t
<1>3. (\E i \in 1 .. Len(s) : s[i].request = r) <=>
         (Head(s).request = r \/ \E i \in 1 .. Len(t) : t[i].request = r)
  BY <1>2
<1>4. ASSUME \A i, j \in 1 .. Len(s) : s[i].request = r /\ s[j].request = r => i = j
      PROVE  /\ Head(s).request = r => \A i \in 1 .. Len(t) : t[i].request # r
             /\ \A i, j \in 1 .. Len(t) : t[i].request = r /\ t[j].request = r => i = j
  BY <1>2, <1>4
<1> QED BY <1>1, <1>3, <1>4 DEF t, D!Message

\* An offer joins the inbox.
LEMMA InboxGrows ==
  ASSUME NEW s \in Seq(Request), NEW q \in Request, NEW r \in Request
  PROVE  LET t == Append(s, q) IN
         /\ (\E i \in 1 .. Len(t) : t[i] = r) <=> (q = r \/ \E i \in 1 .. Len(s) : s[i] = r)
         /\ (\A i, j \in 1 .. Len(s) : s[i] = r /\ s[j] = r => i = j)
            /\ ~ (q = r /\ \E i \in 1 .. Len(s) : s[i] = r)
            => \A i, j \in 1 .. Len(t) : t[i] = r /\ t[j] = r => i = j
<1> DEFINE t == Append(s, q)
<1>1. /\ Len(s) \in Nat /\ Len(t) = Len(s) + 1 /\ t[Len(s) + 1] = q
      /\ \A i \in 1 .. Len(s) : t[i] = s[i] /\ i \in 1 .. Len(t)
      /\ \A i \in 1 .. Len(t) : i \in 1 .. Len(s) \/ i = Len(s) + 1
  BY OneMore
<1> HIDE DEF t
<1>2. (\E i \in 1 .. Len(t) : t[i] = r) <=> (q = r \/ \E i \in 1 .. Len(s) : s[i] = r)
  BY <1>1
<1>3. ASSUME \A i, j \in 1 .. Len(s) : s[i] = r /\ s[j] = r => i = j,
             ~ (q = r /\ \E i \in 1 .. Len(s) : s[i] = r)
      PROVE  \A i, j \in 1 .. Len(t) : t[i] = r /\ t[j] = r => i = j
  BY <1>1, <1>3
<1> QED BY <1>2, <1>3 DEF t

\* An answer joins the outbox.
LEMMA OutboxGrows ==
  ASSUME NEW s \in Seq(D!Message), NEW m \in D!Message, NEW r \in Request
  PROVE  LET t == Append(s, m) IN
         /\ (\E i \in 1 .. Len(t) : t[i].request = r) <=>
               (m.request = r \/ \E i \in 1 .. Len(s) : s[i].request = r)
         /\ (\A i, j \in 1 .. Len(s) : s[i].request = r /\ s[j].request = r => i = j)
            /\ ~ (m.request = r /\ \E i \in 1 .. Len(s) : s[i].request = r)
            => \A i, j \in 1 .. Len(t) : t[i].request = r /\ t[j].request = r => i = j
<1> DEFINE t == Append(s, m)
<1>1. /\ Len(s) \in Nat /\ Len(t) = Len(s) + 1 /\ t[Len(s) + 1] = m
      /\ \A i \in 1 .. Len(s) : t[i] = s[i] /\ i \in 1 .. Len(t)
      /\ \A i \in 1 .. Len(t) : i \in 1 .. Len(s) \/ i = Len(s) + 1
  BY OneMore
<1> HIDE DEF t
<1>2. (\E i \in 1 .. Len(t) : t[i].request = r) <=>
         (m.request = r \/ \E i \in 1 .. Len(s) : s[i].request = r)
  BY <1>1
<1>3. ASSUME \A i, j \in 1 .. Len(s) : s[i].request = r /\ s[j].request = r => i = j,
             ~ (m.request = r /\ \E i \in 1 .. Len(s) : s[i].request = r)
      PROVE  \A i, j \in 1 .. Len(t) : t[i].request = r /\ t[j].request = r => i = j
  BY <1>1, <1>3
<1> QED BY <1>2, <1>3 DEF t

\* An answer that the page sends is for the offer that counts down.
LEMMA RepliesForCurrent ==
  ASSUME NEW a \in D!App, NEW b \in D!App, Replies(a, b), NEW r \in Request
  PROVE  /\ InOutbox(b, r) <=> (a.currentOffer = r \/ InOutbox(a, r))
         /\ (\A i, j \in 1 .. Len(a.outbox) :
                a.outbox[i].request = r /\ a.outbox[j].request = r => i = j)
            /\ ~ (a.currentOffer = r /\ InOutbox(a, r))
            => \A i, j \in 1 .. Len(b.outbox) :
                  b.outbox[i].request = r /\ b.outbox[j].request = r => i = j
<1>1. r # None /\ a.outbox \in Seq(D!Message) /\ a.currentOffer \in Request \cup {None}
  BY AppsAssumption DEF D!App
<1>2. CASE a.currentOffer = None
  BY <1>1, <1>2 DEF Replies, InOutbox
<1>3. CASE a.currentOffer # None
  <2>1. PICK answer \in {"accept", "decline"} :
           b.outbox = Append(a.outbox, [request |-> a.currentOffer, answer |-> answer])
    BY <1>3 DEF Replies
  <2> DEFINE m == [request |-> a.currentOffer, answer |-> answer]
  <2>2. m \in D!Message /\ m.request = a.currentOffer
    BY <1>1, <1>3 DEF D!Message
  <2> HIDE DEF m
  <2>3. b.outbox = Append(a.outbox, m)
    BY <2>1 DEF m
  <2> QED BY <1>1, <2>2, <2>3, OutboxGrows DEF InOutbox
<1> QED BY <1>2, <1>3

\* A handler moves an offer on, and copies none.
LEMMA PlacesKept ==
  ASSUME NEW a \in D!App, NEW b \in D!App, Handles(a, b), CountdownInv(a), ~ b.orphaned,
         NEW r \in Request, NEW d \in Driver, PlacesInv(a, r, d), OnceInv(a, r, d)
  PROVE  PlacesInv(b, r, d) /\ OnceInv(b, r, d)
<1>1. r # None /\ a.inbox \in Seq(Request)
  BY AppsAssumption DEF D!App
<1>2. CASE Stays(a, b) \/ Finishes(a, b)
  BY <1>1, <1>2 DEF Stays, Finishes, PlacesInv, OnceInv, InInbox, InOutbox, Counting
<1>3. CASE Shows(a, b)
  <2>1. /\ a.inbox # <<>> /\ b.inbox = Tail(a.inbox) /\ b.outbox = a.outbox
        /\ b.currentOffer = Head(a.inbox) /\ b.countdown /\ ~ a.countdown /\ ~ a.orphaned
    BY <1>3 DEF Shows
  <2>2. /\ InInbox(a, r) <=> Counting(b, r) \/ InInbox(b, r)
        /\ InOutbox(b, r) <=> InOutbox(a, r)
    BY <1>1, <2>1, InboxTaken DEF InInbox, InOutbox, Counting
  <2>3. /\ Counting(b, r) => ~ InInbox(b, r)
        /\ OnceInv(b, r, d)
    BY <1>1, <2>1, InboxTaken DEF InInbox, Counting, OnceInv
  <2> QED BY <2>1, <2>2, <2>3 DEF PlacesInv
<1>4. CASE Replies(a, b)
  <2>1. /\ ~ a.orphaned /\ a.countdown /\ ~ b.countdown /\ b.inbox = a.inbox
    BY <1>4 DEF Replies, CountdownInv
  <2>2. Counting(a, r) <=> a.currentOffer = r
    BY <2>1 DEF Counting
  <2>3. InOutbox(b, r) <=> Counting(a, r) \/ InOutbox(a, r)
    BY <1>4, <2>2, RepliesForCurrent
  <2>4. /\ ~ Counting(b, r)
        /\ InInbox(b, r) <=> InInbox(a, r)
    BY <2>1 DEF Counting, InInbox
  <2>5. OnceInv(b, r, d)
    BY <1>4, <2>1, <2>2, RepliesForCurrent DEF OnceInv, PlacesInv
  <2> QED BY <2>3, <2>4, <2>5 DEF PlacesInv
<1> QED BY <1>2, <1>3, <1>4 DEF Handles

\* The page, or a message to or from it, has the offer of r, or the page has a
\* countdown that answers for what it should not.
Visible(a, r) == a.orphaned \/ Counting(a, r) \/ InInbox(a, r) \/ InOutbox(a, r)

\* No handler loses an offer.
LEMMA VisibleKept ==
  ASSUME NEW a \in D!App, NEW b \in D!App, Handles(a, b), CountdownInv(a),
         NEW r \in Request, Visible(a, r)
  PROVE  Visible(b, r)
<1>1. r # None /\ a.inbox \in Seq(Request)
  BY AppsAssumption DEF D!App
<1>2. CASE Stays(a, b)
  BY <1>2 DEF Stays, Visible, InInbox, InOutbox, Counting
<1>3. CASE Finishes(a, b)
  BY <1>3 DEF Finishes, Visible, InInbox, InOutbox, Counting, CountdownInv, D!Riding
<1>4. CASE Shows(a, b)
  <2>1. InInbox(a, r) => Counting(b, r) \/ InInbox(b, r)
    BY <1>1, <1>4, InboxTaken DEF Shows, InInbox, Counting
  <2> QED BY <1>4, <2>1 DEF Shows, Visible, Counting, InOutbox
<1>5. CASE Replies(a, b)
  BY <1>5, RepliesForCurrent DEF Replies, Visible, Counting, InInbox
<1> QED BY <1>2, <1>3, <1>4, <1>5 DEF Handles

\* What a step leaves of an offer, by the page b it leaves.
LEMMA KnownByPage ==
  ASSUME NEW d \in Driver, NEW r \in Request, NEW b, driverApp'[d] = b, UNCHANGED played,
         answers'[r][d] = answers[r][d], d \in offers[r] => d \in offers'[r],
         ~ b.orphaned => PlacesInv(b, r, d) /\ OnceInv(b, r, d)
  PROVE  KnownOffer(r, d)'
  BY DEF KnownOffer, PlacesInv, OnceInv, InInbox, InOutbox, Counting, Answered

\* A handler of the page keeps each offer in one place.
LEMMA MovesKeepDriverEnd ==
  ASSUME DriverEndInv, NEW d \in Driver, PageMoves(d)
  PROVE  /\ NoPageInv'
         /\ \A e \in Driver : CountdownInv(driverApp[e])'
         /\ \A e \in Driver, r \in Request : KnownOffer(r, e)'
         /\ SilenceIsVisible'
<1> USE DEF DriverEndInv, PageMoves, entry
<1>1. /\ driverApp \in [Driver -> D!App] /\ timeoutHandle \subseteq Request
      /\ currentDriver \in [Request -> Cause]
  BY DEF AppsTypeOK, TypeOK
<1>2. PICK b \in D!App : Handles(driverApp[d], b) /\ driverApp' = [driverApp EXCEPT ![d] = b]
  OBVIOUS
<1>3. driverApp'[d] = b /\ \A e \in Driver : e # d => driverApp'[e] = driverApp[e]
  BY <1>1, <1>2
<1>4. NoPageInv'
  BY DEF NoPageInv
<1>5. ASSUME NEW e \in Driver PROVE CountdownInv(driverApp[e])'
  <2>1. CASE e = d
    <3>1. CountdownInv(b)
      BY <1>1, <1>2, CountdownKept
    <3> QED BY <1>3, <2>1, <3>1 DEF CountdownInv
  <2>2. CASE e # d
    BY <1>3, <2>2 DEF CountdownInv
  <2> QED BY <2>1, <2>2
<1>6. ASSUME NEW e \in Driver, NEW r \in Request PROVE KnownOffer(r, e)'
  <2>1. CASE e = d
    <3>1. ~ b.orphaned => ~ driverApp[d].orphaned
      BY <1>2 DEF Handles, Stays, Finishes, Shows, Replies
    <3>2. ~ b.orphaned => PlacesInv(b, r, d) /\ OnceInv(b, r, d)
      BY <1>1, <1>2, <3>1, PlacesKept DEF KnownOffer
    <3> QED BY <1>3, <2>1, <3>2, KnownByPage
  <2>2. CASE e # d
    BY <1>3, <2>2 DEF KnownOffer, PlacesInv, OnceInv, InInbox, InOutbox, Counting, Answered
  <2> QED BY <2>1, <2>2
<1>7. ASSUME NEW r \in (timeoutHandle \cap pendingRequests) \ lost
      PROVE  Visible(driverApp[currentDriver[r]], r)'
  <2>1. Visible(driverApp[currentDriver[r]], r)
    BY DEF SilenceIsVisible, Visible, InInbox, InOutbox, Counting
  <2>2. currentDriver[r] \in Driver /\ currentDriver' = currentDriver /\ r \in Request
    BY <1>1, DispatchAssumption DEF OneSearchInv, ChainInv, ArmedTimerInv, TypeOK
  <2>3. CASE currentDriver[r] = d
    <3>1. Visible(b, r)
      BY <1>1, <1>2, <2>1, <2>2, <2>3, VisibleKept
    <3> QED BY <1>3, <2>2, <2>3, <3>1 DEF Visible, InInbox, InOutbox, Counting
  <2>4. CASE currentDriver[r] # d
    BY <1>3, <2>1, <2>2, <2>4 DEF Visible, InInbox, InOutbox, Counting
  <2> QED BY <2>3, <2>4
<1>8. SilenceIsVisible'
  BY <1>7 DEF SilenceIsVisible, Visible, InInbox, InOutbox, Counting
<1> QED BY <1>4, <1>5, <1>6, <1>8

\* A step that moves no offer and no answer.
LEMMA QuietKeepsDriverEnd ==
  ASSUME DriverEndInv, NothingTravels
  PROVE  /\ NoPageInv'
         /\ \A e \in Driver : CountdownInv(driverApp[e])'
         /\ \A e \in Driver, r \in Request : KnownOffer(r, e)'
         /\ SilenceIsVisible'
<1> USE DEF DriverEndInv
<1>1. NoPageInv' /\ \A e \in Driver : CountdownInv(driverApp[e])'
  BY DEF NothingTravels, NoPageInv, CountdownInv
<1>2. ASSUME NEW e \in Driver, NEW r \in Request PROVE KnownOffer(r, e)'
  <2>1. 1 \in AnswerIndex
    BY DispatchAssumption DEF AnswerIndex
  <2> QED BY <2>1 DEF NothingTravels, KnownOffer, PlacesInv, OnceInv, InInbox, InOutbox, Counting,
          Answered
<1>3. SilenceIsVisible'
  BY DEF NothingTravels, SilenceIsVisible
<1> QED BY <1>1, <1>2, <1>3

\* A break loses what is on its way, and the offers the backend still waits on
\* are remembered as lost.
LEMMA BreakKeepsDriverEnd ==
  ASSUME DriverEndInv, "driver" \in played, NEW d \in Driver, LinkBreaks(d)
  PROVE  /\ NoPageInv'
         /\ \A e \in Driver : CountdownInv(driverApp[e])'
         /\ \A e \in Driver, r \in Request : KnownOffer(r, e)'
         /\ SilenceIsVisible'
<1> USE DEF DriverEndInv, entry
<1>1. /\ driverApp \in [Driver -> D!App] /\ timeoutHandle \subseteq Request
      /\ driverApp' = [driverApp EXCEPT ![d].inbox = <<>>, ![d].outbox = <<>>]
      /\ UNCHANGED <<entry, answers, offers, played>>
  BY DEF AppsTypeOK, TypeOK, LinkBreaks, DriverDisconnects, clients
<1>2. \A e \in Driver : e # d => driverApp'[e] = driverApp[e]
  BY <1>1
<1>3. /\ driverApp'[d].inbox = <<>> /\ driverApp'[d].outbox = <<>>
      /\ driverApp'[d].orphaned = driverApp[d].orphaned
      /\ driverApp'[d].countdown = driverApp[d].countdown
      /\ driverApp'[d].currentOffer = driverApp[d].currentOffer
      /\ driverApp'[d].state = driverApp[d].state
  BY <1>1 DEF D!App
<1>4. NoPageInv'
  BY <1>1 DEF NoPageInv
<1>5. ASSUME NEW e \in Driver PROVE CountdownInv(driverApp[e])'
  BY <1>2, <1>3 DEF CountdownInv
<1>6. ASSUME NEW e \in Driver, NEW r \in Request PROVE KnownOffer(r, e)'
  <2>1. CASE e = d
    <3>1. ~ InInbox(driverApp[d], r)' /\ ~ InOutbox(driverApp[d], r)'
      BY <1>3 DEF InInbox, InOutbox
    <3>2. /\ Counting(driverApp[d], r)' <=> Counting(driverApp[d], r)
          /\ Answered(r, d)' <=> Answered(r, d)
      BY <1>1, <1>3 DEF Counting, Answered
    <3>3. \A i \in 1 .. Len(<<>>) : FALSE
      OBVIOUS
    <3> QED BY <1>1, <1>3, <2>1, <3>1, <3>2, <3>3 DEF KnownOffer, PlacesInv, OnceInv
  <2>2. CASE e # d
    BY <1>1, <1>2, <2>2 DEF KnownOffer, PlacesInv, OnceInv, InInbox, InOutbox, Counting, Answered
  <2> QED BY <2>1, <2>2
<1>7. ASSUME NEW r \in (timeoutHandle \cap pendingRequests) \ lost'
      PROVE  Visible(driverApp[currentDriver[r]], r)'
  <2>1. r \notin lost /\ ~ InInbox(driverApp[d], r) /\ ~ InOutbox(driverApp[d], r)
    BY <1>7 DEF LinkBreaks, InInbox, InOutbox
  <2>2. Visible(driverApp[currentDriver[r]], r)
    BY <2>1 DEF SilenceIsVisible, Visible, InInbox, InOutbox, Counting
  <2>3. currentDriver[r] \in Driver /\ currentDriver' = currentDriver
    BY <1>1, DispatchAssumption DEF OneSearchInv, ChainInv, ArmedTimerInv, TypeOK
  <2>4. CASE currentDriver[r] = d
    BY <1>3, <2>1, <2>2, <2>3, <2>4 DEF Visible, Counting
  <2>5. CASE currentDriver[r] # d
    BY <1>2, <2>2, <2>3, <2>5 DEF Visible, InInbox, InOutbox, Counting
  <2> QED BY <2>4, <2>5
<1>8. SilenceIsVisible'
  BY <1>1, <1>7 DEF SilenceIsVisible, Visible, InInbox, InOutbox, Counting
<1> QED BY <1>4, <1>5, <1>6, <1>8

\* An answer gets to the backend.  That of the driver a listed request waits for
\* ends the wait.
LEMMA AnswerKeepsDriverEnd ==
  ASSUME DriverEndInv, "driver" \in played, NEW d \in Driver, AnswerArrives(d)
  PROVE  /\ NoPageInv'
         /\ \A e \in Driver : CountdownInv(driverApp[e])'
         /\ \A e \in Driver, r \in Request : KnownOffer(r, e)'
         /\ SilenceIsVisible'
<1> USE DEF DriverEndInv, entry
<1>1. /\ driverApp \in [Driver -> D!App] /\ driverApp[d] \in D!App
      /\ timeoutHandle \subseteq Request /\ TypeOK
      /\ driverApp[d].outbox \in Seq(D!Message) /\ driverApp[d].outbox # <<>>
  BY DEF AppsTypeOK, TypeOK, AnswerArrives, D!App
<1>2. PICK q \in Request : q = Head(driverApp[d].outbox).request
  <2>1. Head(driverApp[d].outbox) \in D!Message
    BY <1>1
  <2> QED BY <2>1 DEF D!Message
<1>3. PICK n \in AnswerIndex : DriverAccept(q, d, n) \/ DriverDecline(q, d, n) \/ AnswerIgnored(q, d, n)
  BY <1>2 DEF AnswerArrives
<1>4. /\ driverApp' = [driverApp EXCEPT ![d] = D!Sent(driverApp[d])]
      /\ Waits
  BY DEF AnswerArrives
<1>5. /\ \A e \in Driver : e # d => driverApp'[e] = driverApp[e]
      /\ driverApp'[d].inbox = driverApp[d].inbox
      /\ driverApp'[d].outbox = Tail(driverApp[d].outbox)
      /\ driverApp'[d].orphaned = driverApp[d].orphaned
      /\ driverApp'[d].countdown = driverApp[d].countdown
      /\ driverApp'[d].currentOffer = driverApp[d].currentOffer
      /\ driverApp'[d].state = driverApp[d].state
  BY <1>1, <1>4 DEF D!Sent, D!App
<1>6. /\ NextAnswer(q, d, n) /\ UNCHANGED <<offers, played, pendingRequests>>
      /\ \E stage : AnswerGoesTo(q, d, n, stage)
      /\ timeoutHandle' \subseteq timeoutHandle
      /\ IsCurrent(q, d) => q \notin timeoutHandle'
      /\ \A r \in Request : r # q => currentDriver'[r] = currentDriver[r]
      /\ ~ IsCurrent(q, d) => currentDriver' = currentDriver
  BY <1>1, <1>3, <1>4 DEF DriverAccept, DriverDecline, AnswerIgnored, ClearTimeout, Declines,
     TypeOK, Waits, clients
<1>7. /\ \A r \in Request, e \in Driver : r # q \/ e # d => answers'[r][e] = answers[r][e]
      /\ \A m \in AnswerIndex : m # n => answers'[q][d][m] = answers[q][d][m]
  BY <1>1, <1>2, <1>6 DEF AnswerGoesTo, TypeOK
<1>8. ASSUME NEW r \in Request
      PROVE  /\ InOutbox(driverApp[d], r) <=> (q = r \/ InOutbox(driverApp[d], r)')
             /\ OnceInv(driverApp[d], r, d) =>
                   /\ q = r => ~ InOutbox(driverApp[d], r)'
                   /\ \A i, j \in 1 .. Len(driverApp'[d].outbox) :
                         /\ driverApp'[d].outbox[i].request = r
                         /\ driverApp'[d].outbox[j].request = r
                         => i = j
  BY <1>1, <1>2, <1>5, OutboxTaken DEF InOutbox, OnceInv
<1>9. ASSUME NEW e \in Driver PROVE CountdownInv(driverApp[e])'
  BY <1>5 DEF CountdownInv
<1>10. ASSUME NEW e \in Driver, NEW r \in Request PROVE KnownOffer(r, e)'
  <2>1. CASE e = d /\ r = q
    <3>1. SUFFICES ASSUME ~ driverApp'[d].orphaned
                   PROVE  PlacesInv(driverApp[d], q, d)' /\ OnceInv(driverApp[d], q, d)'
      BY <2>1 DEF KnownOffer
    <3>2. PlacesInv(driverApp[d], q, d) /\ OnceInv(driverApp[d], q, d)
      BY <1>2, <1>5, <3>1 DEF KnownOffer
    <3>3. /\ ~ InOutbox(driverApp[d], q)' /\ ~ InInbox(driverApp[d], q)' /\ ~ Counting(driverApp[d], q)'
          /\ d \in offers'[q]
      BY <1>2, <1>5, <1>6, <1>8, <3>2 DEF PlacesInv, InInbox, Counting, NextAnswer
    <3>4. n = 1
      <4>1. 1 \in AnswerIndex /\ (n # 1 => 1 < n)
        BY DispatchAssumption DEF AnswerIndex
      <4>2. answers[q][d][1] = "unsent"
        BY <1>2, <1>8, <3>2 DEF PlacesInv, Answered
      <4> QED BY <1>6, <4>1, <4>2 DEF NextAnswer
    <3>5. OnceInv(driverApp[d], q, d)'
      BY <1>2, <1>5, <1>7, <1>8, <3>2, <3>4 DEF OnceInv
    <3> QED BY <3>3, <3>5 DEF PlacesInv
  <2>2. CASE e = d /\ r # q
    <3>1. SUFFICES ASSUME ~ driverApp'[d].orphaned
                   PROVE  PlacesInv(driverApp[d], r, d)' /\ OnceInv(driverApp[d], r, d)'
      BY <2>2 DEF KnownOffer
    <3>2. PlacesInv(driverApp[d], r, d) /\ OnceInv(driverApp[d], r, d)
      BY <1>5, <3>1 DEF KnownOffer
    <3>3. /\ InOutbox(driverApp[d], r)' <=> InOutbox(driverApp[d], r)
          /\ InInbox(driverApp[d], r)' <=> InInbox(driverApp[d], r)
          /\ Counting(driverApp[d], r)' <=> Counting(driverApp[d], r)
          /\ Answered(r, d)' <=> Answered(r, d)
          /\ d \in offers'[r] <=> d \in offers[r]
      BY <1>5, <1>6, <1>7, <1>8, <2>2 DEF InInbox, Counting, Answered
    <3>4. OnceInv(driverApp[d], r, d)'
      BY <1>5, <1>7, <1>8, <2>2, <3>2 DEF OnceInv
    <3> QED BY <3>2, <3>3, <3>4 DEF PlacesInv
  <2>3. CASE e # d
    BY <1>5, <1>6, <1>7, <2>3
       DEF KnownOffer, PlacesInv, OnceInv, InInbox, InOutbox, Counting, Answered
  <2> QED BY <2>1, <2>2, <2>3
<1>11. ASSUME NEW r \in (timeoutHandle' \cap pendingRequests') \ lost'
       PROVE  Visible(driverApp[currentDriver[r]], r)'
  <2>1. r \in (timeoutHandle \cap pendingRequests) \ lost /\ r \in Request
    BY <1>1, <1>4, <1>6, <1>11 DEF Waits
  <2>2. Visible(driverApp[currentDriver[r]], r)
    BY <2>1 DEF SilenceIsVisible, Visible, InInbox, InOutbox, Counting
  <2>3. r = q => currentDriver[r] # d
    BY <1>6, <1>11, <2>1 DEF IsCurrent
  <2>4. currentDriver[r] \in Driver /\ currentDriver'[r] = currentDriver[r]
    BY <1>1, <1>6, <2>1, <2>3, DispatchAssumption
       DEF OneSearchInv, ChainInv, ArmedTimerInv, TypeOK, IsCurrent
  <2>5. CASE currentDriver[r] = d
    <3>1. InOutbox(driverApp[d], r) => InOutbox(driverApp[d], r)'
      BY <1>8, <2>1, <2>3, <2>5
    <3>2. Visible(driverApp[d], r)'
      BY <1>5, <2>2, <2>5, <3>1 DEF Visible, InInbox, Counting
    <3> QED BY <2>4, <2>5, <3>2 DEF Visible, InInbox, InOutbox, Counting
  <2>6. CASE currentDriver[r] # d
    BY <1>5, <2>2, <2>4, <2>6 DEF Visible, InInbox, InOutbox, Counting
  <2> QED BY <2>5, <2>6
<1>12. SilenceIsVisible'
  BY <1>11 DEF SilenceIsVisible, Visible, InInbox, InOutbox, Counting
<1>13. NoPageInv'
  BY <1>6 DEF NoPageInv
<1> QED BY <1>9, <1>10, <1>12, <1>13

\* An offer is sent to a driver that never had it.
LEMMA OfferKeepsDriverEnd ==
  ASSUME DriverEndInv, NEW q \in Request, NEW c \in Cause, NEW d \in Driver, SendOffer(q, c, d)
  PROVE  /\ NoPageInv'
         /\ \A e \in Driver : CountdownInv(driverApp[e])'
         /\ \A e \in Driver, r \in Request : KnownOffer(r, e)'
         /\ SilenceIsVisible'
<1> USE DEF DriverEndInv, entry
<1>1. /\ TypeOK /\ ChainInv(q) /\ driverApp \in [Driver -> D!App] /\ driverApp[d] \in D!App
      /\ driverApp[d].inbox \in Seq(Request)
  BY DEF AppsTypeOK, OneSearchInv, D!App
<1>2. d \notin offers[q] /\ q \notin timeoutHandle
  BY <1>1 DEF SendOffer, OfferSent, Remaining, ChainInv, AskedInv, ArmedTimerInv, Searching
<1>3. /\ currentDriver' = [currentDriver EXCEPT ![q] = d]
      /\ offers' = [offers EXCEPT ![q] = @ \cup {d}]
      /\ timeoutHandle' = timeoutHandle \cup {q}
      /\ UNCHANGED <<pendingRequests, answers, played>>
      /\ Waits /\ TellDriver(d, D!Deliver(driverApp[d], q))
  BY DEF SendOffer, OfferSent, ArmTimeout, Waits
<1>4. \A r \in Request, e \in Driver : e \in offers'[r] <=> e \in offers[r] \/ (r = q /\ e = d)
  BY <1>1, <1>3 DEF TypeOK
<1>5. \A e \in Driver : e # d \/ "driver" \notin played => driverApp'[e] = driverApp[e]
  BY <1>1, <1>3 DEF TellDriver
<1>6. ASSUME "driver" \in played
      PROVE  /\ driverApp'[d].inbox = Append(driverApp[d].inbox, q)
             /\ driverApp'[d].outbox = driverApp[d].outbox
             /\ driverApp'[d].orphaned = driverApp[d].orphaned
             /\ driverApp'[d].countdown = driverApp[d].countdown
             /\ driverApp'[d].currentOffer = driverApp[d].currentOffer
             /\ driverApp'[d].state = driverApp[d].state
  BY <1>1, <1>3, <1>6 DEF TellDriver, D!Deliver, D!App
<1>7. ASSUME "driver" \in played, NEW r \in Request
       PROVE  /\ InInbox(driverApp[d], r)' <=> (q = r \/ InInbox(driverApp[d], r))
              /\ (\A i, j \in 1 .. Len(driverApp[d].inbox) :
                     driverApp[d].inbox[i] = r /\ driverApp[d].inbox[j] = r => i = j)
                 /\ ~ (q = r /\ InInbox(driverApp[d], r))
                 => \A i, j \in 1 .. Len(driverApp'[d].inbox) :
                       driverApp'[d].inbox[i] = r /\ driverApp'[d].inbox[j] = r => i = j
  <2>1. PICK s \in Seq(Request) : s = driverApp[d].inbox
    BY <1>1
  <2>2. driverApp'[d].inbox = Append(s, q)
    BY <1>6, <1>7, <2>1
  <2> QED BY <2>1, <2>2, InboxGrows DEF InInbox
<1>8. NoPageInv'
  BY <1>3, <1>5 DEF NoPageInv, AnswersOnce
<1>9. ASSUME NEW e \in Driver PROVE CountdownInv(driverApp[e])'
  BY <1>5, <1>6 DEF CountdownInv
<1>10. ASSUME NEW e \in Driver, NEW r \in Request PROVE KnownOffer(r, e)'
  <2>1. CASE e = d
    <3>1. SUFFICES ASSUME "driver" \in played, ~ driverApp'[d].orphaned
                   PROVE  PlacesInv(driverApp[d], r, d)' /\ OnceInv(driverApp[d], r, d)'
      BY <1>3, <2>1 DEF KnownOffer
    <3>2. PlacesInv(driverApp[d], r, d) /\ OnceInv(driverApp[d], r, d)
      BY <1>6, <3>1 DEF KnownOffer
    <3>3. InInbox(driverApp[d], r)' <=> q = r \/ InInbox(driverApp[d], r)
      BY <1>7, <3>1
    <3>4. /\ InOutbox(driverApp[d], r)' <=> InOutbox(driverApp[d], r)
          /\ Counting(driverApp[d], r)' <=> Counting(driverApp[d], r)
          /\ Answered(r, d)' <=> Answered(r, d)
      BY <1>3, <1>6, <3>1 DEF InOutbox, Counting, Answered
    <3>5. ~ (q = r /\ InInbox(driverApp[d], r))
      BY <1>2, <3>2 DEF PlacesInv
    <3>6. OnceInv(driverApp[d], r, d)'
      <4>1. \A i, j \in 1 .. Len(driverApp'[d].inbox) :
               driverApp'[d].inbox[i] = r /\ driverApp'[d].inbox[j] = r => i = j
        BY <1>7, <3>1, <3>2, <3>5 DEF OnceInv
      <4> QED BY <1>3, <1>6, <3>1, <3>2, <4>1 DEF OnceInv
    <3> QED BY <1>2, <1>4, <3>2, <3>3, <3>4, <3>6 DEF PlacesInv
  <2>2. CASE e # d
    <3>1. driverApp'[e] = driverApp[e] /\ UNCHANGED <<answers, played>>
          /\ (e \in offers[r] => e \in offers'[r])
      BY <1>3, <1>4, <1>5, <2>2
    <3> QED BY <3>1 DEF KnownOffer, PlacesInv, OnceInv, InInbox, InOutbox, Counting, Answered
  <2> QED BY <2>1, <2>2
<1>11. ASSUME "driver" \in played, NEW r \in (timeoutHandle' \cap pendingRequests') \ lost'
       PROVE  Visible(driverApp[currentDriver[r]], r)'
  <2>1. r \in Request /\ pendingRequests \subseteq Request
    BY <1>1, <1>3, <1>11 DEF TypeOK
  <2>2. CASE r = q
    <3>1. currentDriver'[r] = d
      BY <1>1, <1>3, <2>2 DEF TypeOK
    <3>2. InInbox(driverApp[d], q)'
      BY <1>11, <1>7
    <3> QED BY <2>2, <3>1, <3>2 DEF Visible, InInbox, InOutbox, Counting
  <2>3. CASE r # q
    <3>1. r \in (timeoutHandle \cap pendingRequests) \ lost
      BY <1>3, <1>11, <2>3 DEF Waits
    <3>2. Visible(driverApp[currentDriver[r]], r)
      BY <1>11, <3>1 DEF SilenceIsVisible, Visible, InInbox, InOutbox, Counting
    <3>3. currentDriver[r] \in Driver /\ currentDriver'[r] = currentDriver[r]
      BY <1>1, <1>3, <2>1, <2>3, <3>1, DispatchAssumption
         DEF OneSearchInv, ChainInv, ArmedTimerInv, TypeOK
    <3>4. CASE currentDriver[r] = d
      <4>1. InInbox(driverApp[d], r) => InInbox(driverApp[d], r)'
        BY <1>11, <1>7, <2>1
      <4>2. Visible(driverApp[d], r)'
        BY <1>6, <1>11, <3>2, <3>4, <4>1 DEF Visible, InOutbox, Counting
      <4> QED BY <3>3, <3>4, <4>2 DEF Visible, InInbox, InOutbox, Counting
    <3>5. CASE currentDriver[r] # d
      BY <1>5, <3>2, <3>3, <3>5 DEF Visible, InInbox, InOutbox, Counting
    <3> QED BY <3>4, <3>5
  <2> QED BY <2>2, <2>3
<1>12. SilenceIsVisible'
  BY <1>3, <1>11 DEF SilenceIsVisible, Visible, InInbox, InOutbox, Counting
<1> QED BY <1>8, <1>9, <1>10, <1>12

\* No offer is out at first.
LEMMA DriverEndStart == AppsInit => DriverEndInv
<1> SUFFICES ASSUME AppsInit PROVE DriverEndInv
  OBVIOUS
<1>1. OneSearchInv /\ AppsTypeOK
  BY OneSearchStart, AppsInitType DEF AppsInit
<1>2. /\ \A d \in Driver : driverApp[d] = D!Opened
      /\ \A r \in Request, d \in Driver, n \in AnswerIndex : answers[r][d][n] = "unsent"
      /\ 1 \in AnswerIndex
  BY DispatchAssumption DEF AppsInit, Init, AnswerIndex
<1>3. NoPageInv /\ \A d \in Driver : CountdownInv(driverApp[d])
  <2>1. NoPageInv
    BY <1>2 DEF NoPageInv, AnswersOnce
  <2>2. CountdownInv(D!Opened)
    BY DEF CountdownInv, D!Opened
  <2> QED BY <1>2, <2>1, <2>2
<1>4. ASSUME NEW d \in Driver, NEW r \in Request PROVE KnownOffer(r, d)
  <2>1. driverApp[d].inbox = <<>> /\ driverApp[d].outbox = <<>> /\ ~ driverApp[d].countdown
    BY <1>2 DEF D!Opened
  <2>2. ~ InInbox(driverApp[d], r) /\ ~ InOutbox(driverApp[d], r) /\ ~ Counting(driverApp[d], r)
        /\ ~ Answered(r, d)
    BY <1>2, <2>1 DEF InInbox, InOutbox, Counting, Answered
  <2> QED BY <1>2, <2>1, <2>2 DEF KnownOffer, PlacesInv, OnceInv
<1>5. SilenceIsVisible
  BY DEF AppsInit, Init, SilenceIsVisible
<1> QED BY <1>1, <1>3, <1>4, <1>5 DEF DriverEndInv

\* Whatever comes next keeps the invariant of the driver's end.
LEMMA DriverEndStep == DriverEndInv /\ [AppsNext]_allVars => DriverEndInv'
<1> SUFFICES ASSUME DriverEndInv, [AppsNext]_allVars PROVE DriverEndInv'
  OBVIOUS
<1>1. OneSearchInv' /\ AppsTypeOK'
  BY AppsStepDispatches, OneSearchStep, AppsNextType DEF DriverEndInv
<1>2. CASE AppsNext
  BY <1>1, <1>2, AppsMoves, MovesKeepDriverEnd, QuietKeepsDriverEnd, BreakKeepsDriverEnd,
     AnswerKeepsDriverEnd, OfferKeepsDriverEnd DEF DriverEndInv
<1>3. CASE UNCHANGED allVars
  <2>1. NothingTravels
    BY <1>3 DEF DriverEndInv, allVars, apps, vars, entry, clients, NothingTravels, NoPageInv, AnswersOnce
  <2> QED BY <1>1, <2>1, QuietKeepsDriverEnd DEF DriverEndInv
<1> QED BY <1>2, <1>3

\* The invariant of the driver's end.
THEOREM DriverEndInvariance == AppsSpec => []DriverEndInv
  BY DriverEndStart, DriverEndStep, PTL DEF AppsSpec

\* The countdown of the page and the timer of the backend count the same thirty
\* seconds: the driver that is about to be called silent has the offer
\* (rides.service.ts:160, driver-dashboard.component.ts:374).
THEOREM SilencesAreVisible == AppsSpec => []SilenceIsVisible
  BY DriverEndInvariance, PTL DEF DriverEndInv

\* A set of which any two members are the same.
LEMMA AtMostOne ==
  ASSUME NEW S, \A x, y \in S : x = y
  PROVE  IsFiniteSet(S) /\ Cardinality(S) \in {0, 1} /\ (S = {} => Cardinality(S) = 0)
<1>1. CASE S = {}
  BY <1>1, FS_EmptySet
<1>2. CASE S # {}
  <2>1. PICK x : S = {x}
    BY <1>2
  <2> QED BY <2>1, FS_Singleton
<1> QED BY <1>1, <1>2

\* A page whose countdowns have their handle answers an offer once
\* (driver-dashboard.component.ts:341-395).
THEOREM OneAnswerEach == AppsSpec => []OneAnswerUnlessOrphaned
<1>1. DriverEndInv => OneAnswerUnlessOrphaned
  <2> SUFFICES ASSUME DriverEndInv, NEW d \in Driver, ~ driverApp[d].orphaned, NEW r \in Request
               PROVE  AnswersSent(r, d) <= 1
    BY DEF OneAnswerUnlessOrphaned
  <2> DEFINE A == {n \in AnswerIndex : answers[r][d][n] # "unsent"}
             B == {i \in 1 .. Len(driverApp[d].outbox) : driverApp[d].outbox[i].request = r}
  <2>1. A \subseteq {1}
    BY DEF DriverEndInv, NoPageInv, AnswersOnce, KnownOffer, OnceInv
  <2>2. CASE "driver" \in played
    <3>1. PlacesInv(driverApp[d], r, d) /\ OnceInv(driverApp[d], r, d)
      BY <2>2 DEF DriverEndInv, KnownOffer
    <3>2. \A i, j \in B : i = j
      BY <3>1 DEF OnceInv
    <3>3. A = {} \/ B = {}
      BY <2>1, <3>1 DEF PlacesInv, InOutbox, Answered
    <3> HIDE DEF A, B
    <3>4. /\ Cardinality(A) \in {0, 1} /\ (A = {} => Cardinality(A) = 0)
          /\ Cardinality(B) \in {0, 1} /\ (B = {} => Cardinality(B) = 0)
      BY <2>1, <3>2, AtMostOne
    <3>5. Cardinality(A) + Cardinality(B) <= 1
      BY <3>3, <3>4
    <3> QED BY <3>5 DEF A, B, AnswersSent
  <2>3. CASE "driver" \notin played
    <3>1. driverApp[d].outbox = <<>>
      BY <2>3 DEF DriverEndInv, NoPageInv, D!Opened
    <3>2. B = {}
      BY <3>1
    <3> HIDE DEF A, B
    <3>3. Cardinality(A) \in {0, 1} /\ Cardinality(B) = 0
      BY <2>1, <3>2, AtMostOne
    <3>4. Cardinality(A) + Cardinality(B) <= 1
      BY <3>3
    <3> QED BY <3>4 DEF A, B, AnswersSent
  <2> QED BY <2>2, <2>3
<1> QED BY <1>1, DriverEndInvariance, PTL

\* What can take a ride off the page.
LEMMA RideStays ==
  ASSUME AppsTypeOK, NEW d \in Driver, CountdownInv(driverApp[d]), AppsNext,
         driverApp[d].state \in {"en_route", "at_pickup"},
         ~ driverApp[d].orphaned, driverApp[d].change \notin {"ONLINE", "OFFLINE"}
  PROVE  driverApp'[d].state \in D!Riding \cup {"ride_offer"}
<1> DEFINE a == driverApp[d]
<1>1. /\ driverApp \in [Driver -> D!App] /\ a \in D!App /\ ~ a.countdown
  BY DEF AppsTypeOK, CountdownInv, D!Riding
<1>2. CASE driverApp'[d].state = driverApp[d].state
  BY <1>2 DEF D!Riding
<1>3. CASE "driver" \in played /\ DriverEnd(d)
  <2>1. ASSUME NEW b, DriverRuns(d, b) PROVE driverApp'[d] = b
    BY <1>1, <2>1 DEF DriverRuns
  <2>2. CASE OfferArrives(d)
    <3>1. D!HandleRideOffer(a).state = "ride_offer"
      BY <1>1 DEF D!HandleRideOffer, D!StartCountdown, D!App
    <3> QED BY <2>1, <2>2, <3>1 DEF OfferArrives
  <2>3. ~ CountdownTicks(d)
    BY <1>1 DEF CountdownTicks, D!Ticking
  <2>4. CASE DriverClicks(d)
    <3>1. /\ D!ArriveAtPickup(a).state = "at_pickup"
          /\ D!StartTrip(a).state = "in_trip"
      BY <1>1 DEF D!ArriveAtPickup, D!StartTrip, D!App
    <3>2. ~ D!ShowsOffer(a) /\ ~ D!MayGoOnline(a) /\ ~ D!MayGoOffline(a) /\ a.state # "in_trip"
      BY DEF D!ShowsOffer, D!MayGoOnline, D!MayGoOffline
    <3> QED BY <2>1, <2>4, <3>1, <3>2 DEF DriverClicks, D!Riding
  <2>5. CASE ReadProfile(d)
    <3>1. [a EXCEPT !.profile = driverStatus[d]].state = a.state
      BY <1>1 DEF D!App
    <3> QED BY <1>2, <2>1, <2>5, <3>1 DEF ReadProfile
  <2>6. CASE WriteStatus(d)
    <3>1. driverApp'[d].state = a.state
      BY <1>1, <2>6 DEF WriteStatus, D!App
    <3> QED BY <1>2, <3>1
  <2>7. CASE ResponseArrives(d)
    <3>1. /\ D!ProfileArrives(a).state = a.state
          /\ D!ChangeFails(a).state = a.state
      BY <1>1 DEF D!ProfileArrives, D!ChangeFails, D!App
    <3> QED BY <1>2, <2>1, <2>7, <3>1 DEF ResponseArrives
  <2>8. CASE AnswerArrives(d)
    <3>1. driverApp'[d].state = a.state
      BY <1>1, <2>8 DEF AnswerArrives, D!Sent, D!App
    <3> QED BY <1>2, <3>1
  <2>9. CASE LinkBreaks(d)
    <3>1. driverApp'[d].state = a.state
      BY <1>1, <2>9 DEF LinkBreaks, D!App
    <3> QED BY <1>2, <3>1
  <2> QED BY <1>3, <2>2, <2>3, <2>4, <2>5, <2>6, <2>7, <2>8, <2>9 DEF DriverEnd
<1>4. CASE \E e \in Driver : "driver" \in played /\ DriverEnd(e) /\ e # d
  BY <1>1, <1>2, <1>4 DEF DriverEnd, OfferArrives, CountdownTicks, DriverClicks, ReadProfile,
     WriteStatus, ResponseArrives, AnswerArrives, LinkBreaks, DriverRuns
<1>5. ASSUME NEW r \in Request, NEW c \in Cause, NEW e \in Driver, SendOffer(r, c, e)
      PROVE  driverApp'[d].state = driverApp[d].state
  BY <1>1, <1>5 DEF SendOffer, TellDriver, D!Deliver, D!App
<1>6. ASSUME NEW r \in Request, Backend(r) PROVE driverApp'[d].state = driverApp[d].state
  BY <1>5, <1>6 DEF Backend, Search, TimeOut, Accept, AnnounceMatch, GiveUp, Unseen, Tell
<1>7. CASE \/ \E e \in Driver : LinkOpens(e) \/ AnyDriver(e)
           \/ RiderEnd \/ AnyRider
  BY <1>2, <1>7 DEF LinkOpens, AnyDriver, RiderEnd, RiderClicks, HandleRequest, RequestReturns,
     StatusArrives, RiderRuns, AnyRider, Unseen, Tell
<1> QED BY <1>2, <1>3, <1>4, <1>6, <1>7 DEF AppsNext

\* A driver that heads for a pickup keeps that ride on the page, unless another
\* offer comes, a status response of before does, or a countdown was orphaned
\* (driver-dashboard.component.ts:321-343, 395).
THEOREM RidesAreKept == AppsSpec => RideIsKept
<1>1. DriverEndInv /\ [AppsNext]_allVars =>
         [\A d \in Driver :
             /\ driverApp[d].state \in {"en_route", "at_pickup"}
             /\ driverApp'[d].state \notin D!Riding
             => \/ driverApp[d].orphaned
                \/ driverApp[d].change \in {"ONLINE", "OFFLINE"}
                \/ driverApp'[d].state = "ride_offer"]_allVars
  BY RideStays DEF DriverEndInv
<1> QED BY <1>1, DriverEndInvariance, PTL DEF AppsSpec, RideIsKept

\* No page has a countdown that it cannot stop.
NobodyOrphaned == \A d \in Driver : ~ driverApp[d].orphaned

\* As long as that is so, the dispatch is the one of apps that answer once, and
\* everything proved of that one holds.
LEMMA HandlesGiveOneAnswer == DriverEndInv => (NobodyOrphaned => AnswersOnce)
  BY DEF DriverEndInv, NobodyOrphaned, AnswersOnce, NoPageInv, KnownOffer, OnceInv

\* A page that has orphaned a countdown stays marked.
LEMMA OrphansStay == DriverEndInv /\ [AppsNext]_allVars => (NobodyOrphaned' => NobodyOrphaned)
<1> SUFFICES ASSUME DriverEndInv, [AppsNext]_allVars, NEW d \in Driver, driverApp[d].orphaned
             PROVE  driverApp'[d].orphaned
  BY DEF NobodyOrphaned
<1>1. driverApp \in [Driver -> D!App]
  BY DEF DriverEndInv, AppsTypeOK
<1>2. CASE NothingTravels \/ UNCHANGED allVars
  BY <1>2 DEF NothingTravels, allVars, apps
<1>3. ASSUME NEW e \in Driver, PageMoves(e) PROVE driverApp'[d].orphaned
  BY <1>1, <1>3 DEF PageMoves, Handles, Stays, Finishes, Shows, Replies
<1>4. ASSUME NEW e \in Driver, AnswerArrives(e) \/ LinkBreaks(e) PROVE driverApp'[d].orphaned
  BY <1>1, <1>4 DEF AnswerArrives, LinkBreaks, D!Sent, D!App
<1>5. ASSUME NEW r \in Request, NEW c \in Cause, NEW e \in Driver, SendOffer(r, c, e)
      PROVE  driverApp'[d].orphaned
  BY <1>1, <1>5 DEF SendOffer, TellDriver, D!Deliver, D!App
<1> QED BY <1>2, <1>3, <1>4, <1>5, AppsMoves DEF DriverEndInv

\* The invariant of RideDispatch holds on until a countdown is orphaned.
LEMMA OrderlyStep ==
  DriverEndInv /\ (NobodyOrphaned => IInv) /\ [AppsNext]_allVars => (NobodyOrphaned => IInv)'
<1> SUFFICES ASSUME DriverEndInv, NobodyOrphaned => IInv, [AppsNext]_allVars, NobodyOrphaned'
             PROVE  IInv'
  OBVIOUS
<1>1. NobodyOrphaned /\ IInv
  BY OrphansStay
<1>2. DriverEndInv'
  BY DriverEndStep
<1>3. AnswersOnce
  BY <1>1, HandlesGiveOneAnswer
<1>4. (DriverEndInv => (NobodyOrphaned => AnswersOnce))'
  BY HandlesGiveOneAnswer, PTL
<1>5. AnswersOnce'
  BY <1>2, <1>4
<1> QED BY <1>1, <1>3, <1>5, AppsStepDispatches, NextInv DEF DriverEndInv

\* What it means for the offers.
LEMMA OrderlyMeans ==
  ASSUME IInv, AnswersOnce
  PROVE  /\ AcceptExcludesOthers /\ TimerHasOpenOffer
         /\ ExpiredHasNoTrip /\ TripOnlyForOfferedDriver
<1>1. AcceptExcludesOthers
  <2>1. \A r \in Request, d \in Driver, n \in AnswerIndex : Accepting(r, d, n) => n = 1
    BY DEF AnswersOnce, Accepting, AcceptStages
  <2> QED BY <2>1 DEF IInv, RequestInv, AcceptInv, AcceptExcludesOthers, AcceptInFlight
<1>2. TimerHasOpenOffer
  BY DEF IInv, TypeOK, RequestInv, TimerInv, TimerHasOpenOffer
<1>3. ExpiredHasNoTrip
  BY DEF IInv, RequestInv, TripInv, ExpiredHasNoTrip
<1>4. TripOnlyForOfferedDriver
  BY DEF IInv, RequestInv, TripInv, TripOnlyForOfferedDriver
<1> QED BY <1>1, <1>2, <1>3, <1>4

\* Until a page overwrites the handle of a countdown that runs, the backend can
\* rely on one answer per offer: an accept excludes the timer, the search and any
\* other accept, a timer belongs to an open offer, and only a driver that was
\* asked and did not decline gets the trip, and none after EXPIRED
\* (rides.service.ts:184-254, driver-dashboard.component.ts:395).
THEOREM OrderlyUntilOrphaned ==
  AppsSpec => [](NobodyOrphaned => /\ AcceptExcludesOthers /\ TimerHasOpenOffer
                                   /\ ExpiredHasNoTrip /\ TripOnlyForOfferedDriver)
<1>1. AppsInit => (NobodyOrphaned => IInv)
  BY InitInv DEF AppsInit
<1>2. DriverEndInv /\ (NobodyOrphaned => IInv) =>
         (NobodyOrphaned => /\ AcceptExcludesOthers /\ TimerHasOpenOffer
                            /\ ExpiredHasNoTrip /\ TripOnlyForOfferedDriver)
  BY HandlesGiveOneAnswer, OrderlyMeans
<1> QED BY <1>1, <1>2, OrderlyStep, DriverEndInvariance, PTL DEF AppsSpec
=============================================================================
