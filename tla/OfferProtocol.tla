--------------------------- MODULE OfferProtocol ---------------------------
(***************************************************************************)
(* What dispatching promises, with the handlers, timers, sockets and        *)
(* failures left out: a request is offered to one driver at a time, to no   *)
(* driver twice, and becomes the trip of the driver that holds the offer    *)
(* or of nobody.  RideDispatch implements it when a driver's app answers    *)
(* an offer at most once.                                                   *)
(***************************************************************************)
CONSTANTS Request, Driver, None

VARIABLES
    asked,      \* drivers that were ever offered the request
    holder,     \* the driver whose answer the request waits for, or None
    assigned    \* the driver that got the trip, or None

vars == <<asked, holder, assigned>>

Init ==
    /\ asked = [r \in Request |-> {}]
    /\ holder = [r \in Request |-> None]
    /\ assigned = [r \in Request |-> None]

Offer(r, d) ==
    /\ holder[r] = None
    /\ assigned[r] = None
    /\ d \notin asked[r]
    /\ asked' = [asked EXCEPT ![r] = @ \cup {d}]
    /\ holder' = [holder EXCEPT ![r] = d]
    /\ UNCHANGED assigned

\* Offers end without a trip: refused, timed out, canceled, or, several at
\* once, forgotten by a server that went down.
Release(R) ==
    /\ holder' = [r \in Request |-> IF r \in R THEN None ELSE holder[r]]
    /\ UNCHANGED <<asked, assigned>>

Assign(r) ==
    /\ holder[r] # None
    /\ assigned[r] = None
    /\ assigned' = [assigned EXCEPT ![r] = holder[r]]
    /\ holder' = [holder EXCEPT ![r] = None]
    /\ UNCHANGED asked

Next ==
    \/ \E r \in Request, d \in Driver : Offer(r, d)
    \/ \E R \in SUBSET Request : Release(R)
    \/ \E r \in Request : Assign(r)

Spec == Init /\ [][Next]_vars
=============================================================================
