----------------------------- MODULE MCRideApps -----------------------------
(***************************************************************************)
(* RideApps with one driver and two requests of one rider: first with the  *)
(* driver's app and any client as the rider, then with the rider's app and *)
(* any client as the driver.                                               *)
(***************************************************************************)
EXTENDS RideApps, TLC

CONSTANTS r1, r2, d1

TwoRequests == {r1, r2}
OneDriver   == {d1}
OnOff       == {"ONLINE", "OFFLINE"}
NoRequest   == {}
NoFault     == {}
EachEnd     == {{"driver"}, {"rider"}}
=============================================================================
