--------------------------- MODULE MCRideDispatch ---------------------------
(***************************************************************************)
(* RideDispatch on small instances.  Requests meet only through the        *)
(* drivers' statuses and sockets.                                          *)
(***************************************************************************)
EXTENDS RideDispatch, TLC

CONSTANTS r1, r2, d1, d2, d3

OneRequest  == {r1}
TwoRequests == {r1, r2}
OneDriver   == {d1}
TwoDrivers  == {d1, d2}
ThreeDrivers == {d1, d2, d3}

NoFault   == {}
AllFaults == {"search", "database", "crash"}

OnOff     == {"ONLINE", "OFFLINE"}
NoStatus  == {}
NoRequest == {}
=============================================================================
