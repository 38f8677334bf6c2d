-------------------------- MODULE MCTripLifecycle --------------------------
(***************************************************************************)
(* TripLifecycle on small instances: trips meet through a driver they      *)
(* share, calls through the trip they update.                              *)
(***************************************************************************)
EXTENDS TripLifecycle, TLC

CONSTANTS t1, t2, d1, rider, driver

OneTrip    == {t1}
TwoTrips   == {t1, t2}
OneDriver  == {d1}
BothSides  == {rider, driver}

NoFault     == {}
AllFaults   == {"create", "update"}
OnOff       == {"ONLINE", "OFFLINE"}
NoStatus    == {}

Symmetric == Permutations(BothSides) \cup Permutations(TwoTrips)
=============================================================================
