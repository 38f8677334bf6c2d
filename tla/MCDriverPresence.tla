-------------------------- MODULE MCDriverPresence --------------------------
(***************************************************************************)
(* DriverPresence on a short road: two steps of one place are throttled     *)
(* one by one and not together, and the last place is one GEOADD refuses.  *)
(***************************************************************************)
EXTENDS DriverPresence

Road   == 0 .. 3
Mapped == 0 .. 2
=============================================================================
