------------------------------ MODULE RiderApp ------------------------------
(***************************************************************************)
(* The rider's dashboard, as the handlers of one page (see DriverApp).     *)
(* Every status message is taken for the ride on the screen: its requestId *)
(* is not looked at.  The ghost fields `shown` and `abandoned` remember    *)
(* what the page does not: whose match is shown, and that the rider left a *)
(* search that the backend goes on with.                                   *)
(***************************************************************************)
EXTENDS Sequences

CONSTANTS
    Request,    \* requests this rider can make
    Driver,     \* drivers a match can name
    None        \* JavaScript's null

RideState == {"idle", "selecting_pickup", "selecting_dropoff", "searching", "matched"}
Statuses  == {"matching", "matched", "no_drivers", "driver_declined"}
Message   == [request : Request, status : Statuses, driver : Driver \cup {None}]

App == [
    state         : RideState,
    pickup        : BOOLEAN,
    dropoff       : BOOLEAN,
    posting       : SUBSET Request,     \* POSTs without a response
    matchedDriver : Driver \cup {None},
    inbox         : Seq(Message),
    shown         : Request \cup {None},
    abandoned     : BOOLEAN]

Opened == [
    state |-> "idle", pickup |-> FALSE, dropoff |-> FALSE, posting |-> {},
    matchedDriver |-> None, inbox |-> <<>>, shown |-> None, abandoned |-> FALSE]

Deliver(a, r, status, d) ==
    [a EXCEPT !.inbox = Append(@, [request |-> r, status |-> status, driver |-> d])]

ResetState(a) ==
    [a EXCEPT !.state = "idle", !.pickup = FALSE, !.dropoff = FALSE, !.matchedDriver = None,
              !.shown = None]

-----------------------------------------------------------------------------
(***************************************************************************)
(* Booking.                                                                *)
(***************************************************************************)
StartBooking(a) == [a EXCEPT !.state = "selecting_pickup"]

\* A tap on the map, or the rider's own location.
ChoosePlace(a) ==
    IF a.state = "selecting_pickup" THEN [a EXCEPT !.pickup = TRUE]
                                    ELSE [a EXCEPT !.dropoff = TRUE]

ConfirmPickup(a) == [a EXCEPT !.state = "selecting_dropoff"]

RequestOnForm(a, r) == [a EXCEPT !.posting = @ \cup {r}]

RequestRide(a, r) == [a EXCEPT !.state = "searching", !.posting = @ \cup {r}]

\* activeRide, which the response sets, is read by CancelRequest only.
Responded(a, r) == [a EXCEPT !.posting = @ \ {r}]

RequestFails(a, r) ==
    [a EXCEPT !.state = "idle", !.posting = @ \ {r}, !.abandoned = TRUE]

\* The DELETE goes to /rides/undefined: the response of the POST has a
\* requestId and no id, and the backend serves /rides/request/:id only.  So
\* nothing but the screen is reset.
CancelRequest(a) == [ResetState(a) EXCEPT !.abandoned = TRUE]

-----------------------------------------------------------------------------
HandleStatusWithoutReset(a) ==
    LET msg == Head(a.inbox)
        b   == [a EXCEPT !.inbox = Tail(@)]
    IN  CASE msg.status = "matching" -> [b EXCEPT !.state = "searching"]
          [] msg.status = "matched"  -> [b EXCEPT !.state = "matched", !.shown = msg.request,
                                                  !.matchedDriver = msg.driver]
          [] OTHER                   -> b

\* The subscription to riderStatus$.  The backend sends no trip_started and no
\* trip_completed.
HandleStatus(a) ==
    LET msg == Head(a.inbox)
        b   == [a EXCEPT !.inbox = Tail(@)]
    IN  CASE msg.status = "matching"   -> [b EXCEPT !.state = "searching"]
          [] msg.status = "matched"    -> [b EXCEPT !.state = "matched", !.shown = msg.request,
                                                    !.matchedDriver = msg.driver]
          [] msg.status = "no_drivers" -> ResetState(b)
          [] OTHER                     -> b
=============================================================================
