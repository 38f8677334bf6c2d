--------------------------- MODULE TripLifecycle ---------------------------
(***************************************************************************)
(* TripsService: how a trip is created for a driver and moved through its  *)
(* states by concurrent PATCH /trips/:id/state calls, and what that does   *)
(* to the driver's status.                                                 *)
(*                                                                         *)
(* updateState reads the trip, checks the requested state against what it  *)
(* read, frees the driver when the trip ends, and writes: three database   *)
(* calls with nothing holding the row in between.  Calls that are refused  *)
(* (unknown trip, a user who is not of this trip, a transition the table   *)
(* does not have) change nothing and are not steps.                        *)
(***************************************************************************)
EXTENDS Naturals, FiniteSets

CONSTANTS
    Trip,
    Driver,
    Caller,         \* the rider and the driver of a trip, or an admin: one call each at a time
    None,
    StatusWrites,   \* statuses a driver may PATCH onto itself
    Faults          \* which of "create", "update" can fail half-way

ASSUME TripAssumption ==
    /\ None \notin Driver
    /\ StatusWrites \subseteq {"ONLINE", "OFFLINE", "BUSY"}
    /\ Faults \subseteq {"create", "update"}

VARIABLES
    tripState,      \* Trip.state, "NONE" while there is no row
    tripDriver,     \* Trip.driverId, known to create() before the row exists
    completedAt,    \* trips whose completedAt is set
    driverStatus,   \* Driver.status
    creating,       \* TripsService.create of the trip: which write comes next
    updating,       \* updateState calls: what they are about to do
    visited         \* history: the states each trip has had

vars == <<tripState, tripDriver, completedAt, driverStatus, creating, updating, visited>>

TripStates == {"ASSIGNED", "EN_ROUTE", "ARRIVED", "IN_PROGRESS", "COMPLETED", "CANCELED"}
OpenStates == {"ASSIGNED", "EN_ROUTE", "ARRIVED", "IN_PROGRESS"}

\* STATE_TRANSITIONS.  MATCHING, which no trip is ever created in, is left out.
NoTransitions == [s \in TripStates |-> TripStates]
Transitions ==
    [ASSIGNED    |-> {"EN_ROUTE", "CANCELED"},
     EN_ROUTE    |-> {"ARRIVED", "CANCELED"},
     ARRIVED     |-> {"IN_PROGRESS", "CANCELED"},
     IN_PROGRESS |-> {"COMPLETED", "CANCELED"},
     COMPLETED   |-> {},
     CANCELED    |-> {}]

Idle == [stage |-> "idle", to |-> "ASSIGNED"]

TypeOK ==
    /\ tripState \in [Trip -> TripStates \cup {"NONE"}]
    /\ tripDriver \in [Trip -> Driver \cup {None}]
    /\ completedAt \subseteq Trip
    /\ driverStatus \in [Driver -> {"ONLINE", "OFFLINE", "BUSY"}]
    /\ creating \in [Trip -> {"idle", "busy", "create"}]
    /\ updating \in [Trip -> [Caller -> [stage : {"idle", "release", "write"}, to : TripStates]]]
    /\ visited \in [Trip -> SUBSET TripStates]

Init ==
    /\ tripState = [t \in Trip |-> "NONE"]
    /\ tripDriver = [t \in Trip |-> None]
    /\ completedAt = {}
    /\ driverStatus = [d \in Driver |-> "ONLINE"]
    /\ creating = [t \in Trip |-> "idle"]
    /\ updating = [t \in Trip |-> [c \in Caller |-> Idle]]
    /\ visited = [t \in Trip |-> {}]

IsOpen(t) == tripState[t] \in OpenStates

EndsWithCompletion(to) == to = "COMPLETED"
Ends(to)               == to \in {"COMPLETED", "CANCELED"}

-----------------------------------------------------------------------------
(***************************************************************************)
(* create, called by RidesService for the driver that accepted.  The search *)
(* found this driver ONLINE, but what its status is by now nobody checks.  *)
(***************************************************************************)
Create(t, d) ==
    /\ tripState[t] = "NONE"
    /\ tripDriver[t] = None
    /\ tripDriver' = [tripDriver EXCEPT ![t] = d]
    /\ creating' = [creating EXCEPT ![t] = "busy"]
    /\ UNCHANGED <<tripState, completedAt, driverStatus, updating, visited>>

SetDriverBusy(t) ==
    /\ creating[t] = "busy"
    /\ driverStatus' = [driverStatus EXCEPT ![tripDriver[t]] = "BUSY"]
    /\ creating' = [creating EXCEPT ![t] = "create"]
    /\ UNCHANGED <<tripState, tripDriver, completedAt, updating, visited>>

InsertTripWithDefault(t) ==
    /\ creating[t] = "create"
    /\ tripState' = [tripState EXCEPT ![t] = "MATCHING"]
    /\ creating' = [creating EXCEPT ![t] = "idle"]
    /\ UNCHANGED <<tripDriver, completedAt, driverStatus, updating, visited>>

InsertTrip(t) ==
    /\ creating[t] = "create"
    /\ tripState' = [tripState EXCEPT ![t] = "ASSIGNED"]
    /\ visited' = [visited EXCEPT ![t] = {"ASSIGNED"}]
    /\ creating' = [creating EXCEPT ![t] = "idle"]
    /\ UNCHANGED <<tripDriver, completedAt, driverStatus, updating>>

\* A write of create fails, or the process dies between two of them.
CreateFails(t) ==
    /\ "create" \in Faults
    /\ creating[t] # "idle"
    /\ creating' = [creating EXCEPT ![t] = "idle"]
    /\ UNCHANGED <<tripState, tripDriver, completedAt, driverStatus, updating, visited>>

-----------------------------------------------------------------------------
(***************************************************************************)
(* updateState.                                                            *)
(***************************************************************************)
\* findOne, and the check of the transition against the state it returned.
ReadTrip(t, c, to) ==
    /\ updating[t][c].stage = "idle"
    /\ IsOpen(t)
    /\ to \in Transitions[tripState[t]]
    /\ updating' = [updating EXCEPT ![t][c] =
                       [stage |-> IF Ends(to) THEN "release" ELSE "write", to |-> to]]
    /\ UNCHANGED <<tripState, tripDriver, completedAt, driverStatus, creating, visited>>

\* setDriverOnline, whatever the driver's status is by now.
ReleaseDriver(t, c) ==
    /\ updating[t][c].stage = "release"
    /\ driverStatus' = [driverStatus EXCEPT ![tripDriver[t]] = "ONLINE"]
    /\ updating' = [updating EXCEPT ![t][c] = [stage |-> "write", to |-> updating[t][c].to]]
    /\ UNCHANGED <<tripState, tripDriver, completedAt, creating, visited>>

WriteState(t, c) ==
    LET to == updating[t][c].to IN
    /\ updating[t][c].stage = "write"
    /\ tripState' = [tripState EXCEPT ![t] = to]
    /\ completedAt' = IF to = "COMPLETED" THEN completedAt \cup {t} ELSE completedAt
    /\ visited' = [visited EXCEPT ![t] = @ \cup {to}]
    /\ updating' = [updating EXCEPT ![t][c] = Idle]
    /\ UNCHANGED <<tripDriver, driverStatus, creating>>

\* A write of updateState fails, or the process dies before it.
UpdateFails(t, c) ==
    /\ "update" \in Faults
    /\ updating[t][c].stage # "idle"
    /\ updating' = [updating EXCEPT ![t][c] = Idle]
    /\ UNCHANGED <<tripState, tripDriver, completedAt, driverStatus, creating, visited>>

-----------------------------------------------------------------------------
\* PATCH /drivers/:id/status, which does not look at trips.
UpdateDriverStatus(d, status) ==
    /\ status \in StatusWrites
    /\ driverStatus[d] # status
    /\ driverStatus' = [driverStatus EXCEPT ![d] = status]
    /\ UNCHANGED <<tripState, tripDriver, completedAt, creating, updating, visited>>

Next ==
    \/ \E t \in Trip, d \in Driver : Create(t, d)
    \/ \E t \in Trip : SetDriverBusy(t) \/ InsertTrip(t) \/ CreateFails(t)
    \/ \E t \in Trip, c \in Caller, to \in TripStates : ReadTrip(t, c, to)
    \/ \E t \in Trip, c \in Caller : ReleaseDriver(t, c) \/ WriteState(t, c) \/ UpdateFails(t, c)
    \/ \E d \in Driver, status \in StatusWrites : UpdateDriverStatus(d, status)

Spec == Init /\ [][Next]_vars

-----------------------------------------------------------------------------
(***************************************************************************)
(* Properties.                                                             *)
(***************************************************************************)

\* No trip skips a state, even when calls overwrite each other: a ride that
\* was completed had started, and one that started had met its rider.
StagesInOrder ==
    \A t \in Trip :
        /\ "COMPLETED" \in visited[t] => "IN_PROGRESS" \in visited[t]
        /\ "IN_PROGRESS" \in visited[t] => "ARRIVED" \in visited[t]
        /\ "ARRIVED" \in visited[t] => "EN_ROUTE" \in visited[t]

\* No driver is left BUSY when its last trip has ended, however the ends of
\* several trips and the starts of others interleave, and whatever the driver
\* PATCHes.  The one way to a BUSY driver without an open trip is a create()
\* that stopped after its first write.
Abandoned(t) == tripDriver[t] # None /\ tripState[t] = "NONE" /\ creating[t] = "idle"

BusyHasOpenTrip ==
    \A d \in Driver : driverStatus[d] = "BUSY" =>
        \E t \in Trip : tripDriver[t] = d /\ (IsOpen(t) \/ creating[t] = "create" \/ Abandoned(t))

-----------------------------------------------------------------------------
\* "Valid state transitions ... COMPLETED: [], CANCELED: []"
\* (trips.service.ts:13-22): an ended trip stays as it is.
EndedIsFinal ==
    [][\A t \in Trip : tripState[t] \in {"COMPLETED", "CANCELED"} => tripState'[t] = tripState[t]]_vars
=============================================================================
