----------------------------- MODULE DriverApp -----------------------------
(***************************************************************************)
(* The driver's dashboard and the WebSocketService under it, as the        *)
(* handlers of one page: each operator takes the state of an app to its    *)
(* state after the handler.  RideApps decides when which handler runs.     *)
(*                                                                         *)
(* The page is single-threaded and every handler runs to its end; what     *)
(* goes wrong is between handlers: a countdown whose handle was            *)
(* overwritten keeps ticking, and an HTTP response finds another state     *)
(* than the one its request was sent from.                                 *)
(***************************************************************************)
EXTENDS Naturals, Sequences

CONSTANTS
    Request,        \* ride requests an offer can name
    None,           \* JavaScript's null
    OfferSeconds,   \* what handleRideOffer sets the countdown to (30)
    MaxChanges      \* bound: clicks on Go Online and Go Offline

DriverState == {"offline", "online", "ride_offer", "en_route", "at_pickup", "in_trip"}
Riding      == {"en_route", "at_pickup", "in_trip"}
Message     == [request : Request, answer : {"accept", "decline"}]
DriverStatus == {"ONLINE", "OFFLINE", "BUSY"}

\* `profile` and `change` are the GET and the PATCH that may be in flight: the
\* status that the server read or wrote is in the response.
App == [
    state        : DriverState,
    currentOffer : Request \cup {None},
    offerTimeout : 1 .. OfferSeconds,
    countdown    : BOOLEAN,     \* offerTimeoutInterval is not null
    orphaned     : BOOLEAN,     \* an interval runs whose handle was overwritten
    driver       : BOOLEAN,     \* driver() is not null
    profile      : {"asked", "done"} \cup DriverStatus,
    change       : {"none", "to ONLINE", "to OFFLINE", "ONLINE", "OFFLINE"},
    changes      : 0 .. MaxChanges,
    inbox        : Seq(Request),    \* driver.offer messages on their way
    outbox       : Seq(Message)]    \* answers on their way

\* ngOnInit: the profile is asked for and the socket connects.
Opened == [
    state |-> "offline", currentOffer |-> None, offerTimeout |-> OfferSeconds,
    countdown |-> FALSE, orphaned |-> FALSE, driver |-> FALSE,
    profile |-> "asked", change |-> "none", changes |-> 0, inbox |-> <<>>, outbox |-> <<>>]

-----------------------------------------------------------------------------
(***************************************************************************)
(* The socket.                                                             *)
(***************************************************************************)
Emit(a, answer) ==
    [a EXCEPT !.outbox = Append(@, [request |-> a.currentOffer, answer |-> answer])]

Deliver(a, r) == [a EXCEPT !.inbox = Append(@, r)]
Sent(a)       == [a EXCEPT !.outbox = Tail(@)]

-----------------------------------------------------------------------------
(***************************************************************************)
(* Offers.                                                                 *)
(***************************************************************************)
KeepOfferTimeout(a) == a
StopOfferTimeout(a) == [a EXCEPT !.countdown = FALSE]

\* The handle of a countdown that still runs is overwritten and not stopped.
NoCountdown(a)    == a
StartCountdown(a) == [a EXCEPT !.orphaned = @ \/ a.countdown, !.countdown = TRUE]

HandleRideOffer(a) ==
    StartCountdown([a EXCEPT !.inbox = Tail(@), !.currentOffer = Head(a.inbox),
                             !.state = "ride_offer", !.offerTimeout = OfferSeconds])

\* The buttons of the modal, which is shown for an offer in state ride_offer.
ShowsOffer(a) == a.state = "ride_offer" /\ a.currentOffer # None

\* The accept is sent, not awaited: the ride is shown whatever becomes of it,
\* and the offer stays the current one.
AcceptOffer(a) == [StopOfferTimeout(Emit(a, "accept")) EXCEPT !.state = "en_route"]

RejectOffer(a) ==
    LET told == IF a.currentOffer = None THEN a ELSE Emit(a, "decline")
    IN  [StopOfferTimeout(told) EXCEPT !.currentOffer = None, !.state = "online"]

\* A second of any countdown: at the last one it rejects what is current.
Ticking(a) == a.countdown \/ a.orphaned

TickPastZero(a) ==
    IF a.offerTimeout < 1 THEN RejectOffer(a) ELSE [a EXCEPT !.offerTimeout = @ - 1]

Tick(a) ==
    IF a.offerTimeout <= 1 THEN RejectOffer(a) ELSE [a EXCEPT !.offerTimeout = @ - 1]

-----------------------------------------------------------------------------
(***************************************************************************)
(* The ride.  currentTrip is never set, so these buttons send nothing.     *)
(***************************************************************************)
ArriveAtPickup(a) == [a EXCEPT !.state = "at_pickup"]
StartTrip(a)      == [a EXCEPT !.state = "in_trip"]
CompleteTrip(a)   == [a EXCEPT !.currentOffer = None, !.state = "online"]

-----------------------------------------------------------------------------
(***************************************************************************)
(* The profile and the status, over HTTP.  One change is in flight at a    *)
(* time.                                                                   *)
(***************************************************************************)
ProfileArrives(a) ==
    [a EXCEPT !.profile = "done", !.driver = TRUE,
              !.state = IF a.profile = "ONLINE" /\ @ = "offline" THEN "online" ELSE @]

\* The button of state "offline" is enabled once the driver is known to be
\* approved, as every driver of RideDispatch is.
MayGoOnline(a)  == a.state = "offline" /\ a.driver /\ a.change = "none" /\ a.changes < MaxChanges
MayGoOffline(a) == a.state = "online" /\ a.change = "none" /\ a.changes < MaxChanges

Asked(status) == IF status = "ONLINE" THEN "to ONLINE" ELSE "to OFFLINE"

GoOnline(a)  == [a EXCEPT !.change = Asked("ONLINE"), !.changes = @ + 1]
GoOffline(a) == [a EXCEPT !.change = Asked("OFFLINE"), !.changes = @ + 1]

\* The responses set the state whatever it has become since the click.
ChangeArrives(a) ==
    [a EXCEPT !.change = "none", !.driver = TRUE,
              !.state = IF a.change = "ONLINE" THEN "online" ELSE "offline"]

ChangeFails(a) == [a EXCEPT !.change = "none"]
=============================================================================
