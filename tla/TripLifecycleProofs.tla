------------------------- MODULE TripLifecycleProofs -------------------------
(***************************************************************************)
(* What holds of TripLifecycle for every set of trips, drivers and         *)
(* callers, and whatever fails.                                            *)
(***************************************************************************)
EXTENDS TripLifecycle, TLAPS

\* A call in flight, and the state it is about to write.
InFlight(t, c) == updating[t][c].stage # "idle"
Target(t, c)   == updating[t][c].to

\* The states a trip has been in before one it is in, or about to be in.
Preceded(t, s) ==
    /\ s = "EN_ROUTE" => "ASSIGNED" \in visited[t]
    /\ s = "ARRIVED" => "EN_ROUTE" \in visited[t]
    /\ s = "IN_PROGRESS" => "ARRIVED" \in visited[t]
    /\ s = "COMPLETED" => "IN_PROGRESS" \in visited[t]

\* A call that has read a trip knows that the state before the one it writes
\* was reached, even if another call has moved the trip on since.
StageInv == \A t \in Trip :
    /\ tripState[t] # "NONE" => tripState[t] \in visited[t]
    /\ \A s \in visited[t] : Preceded(t, s)
    /\ \A c \in Caller : InFlight(t, c) => Preceded(t, Target(t, c))

\* Before its row exists nobody updates a trip, and none of its states is past.
NewTripInv == \A t \in Trip : tripState[t] = "NONE" =>
    /\ \A c \in Caller : ~ InFlight(t, c)
    /\ visited[t] = {}

\* Only a trip that has its row, or a driver, has anything in flight.
CreatingInv == \A t \in Trip : creating[t] # "idle" =>
    /\ tripState[t] = "NONE"
    /\ tripDriver[t] # None

\* The trip a driver is BUSY for, strengthened: no call that will end this trip
\* has freed the driver yet.
Ending(t, c) == updating[t][c].stage = "write" /\ Ends(updating[t][c].to)

KeepsBusy(t, d) ==
    /\ tripDriver[t] = d
    /\ \/ creating[t] = "create"
       \/ Abandoned(t)
       \/ IsOpen(t) /\ \A c \in Caller : ~ Ending(t, c)

BusyInv == \A d \in Driver : driverStatus[d] = "BUSY" => \E t \in Trip : KeepsBusy(t, d)

TripIInv == TypeOK /\ NewTripInv /\ CreatingInv /\ StageInv

-----------------------------------------------------------------------------
\* What the transition table allows.
LEMMA TransitionFacts ==
  /\ Transitions \in [TripStates -> SUBSET TripStates]
  /\ \A s \in TripStates : \A to \in Transitions[s] :
        /\ to # "ASSIGNED"
        /\ to = "EN_ROUTE" => s = "ASSIGNED"
        /\ to = "ARRIVED" => s = "EN_ROUTE"
        /\ to = "IN_PROGRESS" => s = "ARRIVED"
        /\ to = "COMPLETED" => s = "IN_PROGRESS"
  BY DEF Transitions, TripStates

\* Replacing what one call is about to do keeps the type of all.
LEMMA UpdatingType ==
  ASSUME TypeOK, NEW t \in Trip, NEW c \in Caller,
         NEW stage \in {"idle", "release", "write"}, NEW to \in TripStates,
         updating' = [updating EXCEPT ![t][c] = [stage |-> stage, to |-> to]]
  PROVE  updating' \in [Trip -> [Caller -> [stage : {"idle", "release", "write"}, to : TripStates]]]
  BY DEF TypeOK

\* The write follows the release.
LEMMA ReleaseUpdate ==
  ASSUME TypeOK, NEW t \in Trip, NEW c \in Caller, ReleaseDriver(t, c)
  PROVE  updating' = [updating EXCEPT ![t][c] = [stage |-> "write", to |-> updating[t][c].to]]
  BY DEF TypeOK, ReleaseDriver

\* Every step keeps the types.
LEMMA TripNextType == TypeOK /\ [Next]_vars => TypeOK'
<1> SUFFICES ASSUME TypeOK, [Next]_vars PROVE TypeOK'
  OBVIOUS
<1> USE TripAssumption
<1>1. ASSUME NEW t \in Trip, NEW d \in Driver, Create(t, d) PROVE TypeOK'
  BY <1>1 DEF Create, TypeOK
<1>2. ASSUME NEW t \in Trip, SetDriverBusy(t) \/ InsertTrip(t) \/ CreateFails(t) PROVE TypeOK'
  <2>1. CASE SetDriverBusy(t)
    BY <2>1 DEF SetDriverBusy, TypeOK
  <2>2. CASE InsertTrip(t)
    BY <2>2 DEF InsertTrip, TypeOK, TripStates
  <2>3. CASE CreateFails(t)
    BY <2>3 DEF CreateFails, TypeOK
  <2> QED BY <1>2, <2>1, <2>2, <2>3
<1>3. ASSUME NEW t \in Trip, NEW c \in Caller, NEW to \in TripStates, ReadTrip(t, c, to)
      PROVE  TypeOK'
  <2>1. updating' \in [Trip -> [Caller -> [stage : {"idle", "release", "write"}, to : TripStates]]]
    BY <1>3, UpdatingType DEF ReadTrip
  <2> QED BY <1>3, <2>1 DEF ReadTrip, TypeOK
<1>4. ASSUME NEW t \in Trip, NEW c \in Caller, ReleaseDriver(t, c) PROVE TypeOK'
  <2>1. updating[t][c].to \in TripStates
    BY DEF TypeOK
  <2>2. updating' \in [Trip -> [Caller -> [stage : {"idle", "release", "write"}, to : TripStates]]]
    BY <1>4, <2>1, ReleaseUpdate, UpdatingType
  <2> QED BY <1>4, <2>2 DEF ReleaseDriver, TypeOK
<1>5. ASSUME NEW t \in Trip, NEW c \in Caller, WriteState(t, c) \/ UpdateFails(t, c) PROVE TypeOK'
  <2>1. updating' \in [Trip -> [Caller -> [stage : {"idle", "release", "write"}, to : TripStates]]]
    BY <1>5, UpdatingType DEF WriteState, UpdateFails, Idle, TripStates
  <2>2. updating[t][c].to \in TripStates
    BY DEF TypeOK
  <2>3. CASE WriteState(t, c)
    <3>1. /\ tripState' \in [Trip -> TripStates \cup {"NONE"}]
          /\ visited' \in [Trip -> SUBSET TripStates]
      BY <2>2, <2>3 DEF WriteState, TypeOK
    <3>2. completedAt' \subseteq Trip
      BY <2>3 DEF WriteState, TypeOK
    <3> QED BY <2>1, <2>3, <3>1, <3>2 DEF WriteState, TypeOK
  <2>4. CASE UpdateFails(t, c)
    BY <2>1, <2>4 DEF UpdateFails, TypeOK
  <2> QED BY <1>5, <2>3, <2>4
<1>6. ASSUME NEW d \in Driver, NEW status \in StatusWrites, UpdateDriverStatus(d, status)
      PROVE  TypeOK'
  BY <1>6 DEF UpdateDriverStatus, TypeOK
<1>7. CASE UNCHANGED vars
  BY <1>7 DEF TypeOK, vars
<1> QED
  BY <1>1, <1>2, <1>3, <1>4, <1>5, <1>6, <1>7 DEF Next

\* There is no trip at first.
LEMMA TripInit == Init => TypeOK /\ NewTripInv /\ CreatingInv /\ StageInv
  BY TripAssumption DEF Init, TypeOK, NewTripInv, CreatingInv, StageInv, InFlight, Idle, TripStates

\* Type correctness: rows, statuses and calls in flight.
THEOREM TripTypeCorrect == Spec => []TypeOK
  BY TripInit, TripNextType, PTL DEF Spec

-----------------------------------------------------------------------------
\* A step that touches one trip, and only adds to what it has visited.
LEMMA TripNextInv == TripIInv /\ [Next]_vars => TripIInv'
<1> SUFFICES ASSUME TripIInv, [Next]_vars PROVE TripIInv'
  OBVIOUS
<1> USE DEF TripIInv
<1>0. TypeOK'
  BY TripNextType
<1>1. ASSUME NEW t \in Trip, NEW d \in Driver, Create(t, d) PROVE TripIInv'
  BY <1>0, <1>1, TripAssumption DEF Create, TypeOK, NewTripInv, CreatingInv, StageInv, InFlight,
     Target, Preceded
<1>2. ASSUME NEW t \in Trip, SetDriverBusy(t) \/ CreateFails(t) PROVE TripIInv'
  BY <1>0, <1>2 DEF SetDriverBusy, CreateFails, TypeOK, NewTripInv, CreatingInv, StageInv, InFlight,
     Target, Preceded
<1>3. ASSUME NEW t \in Trip, InsertTrip(t) PROVE TripIInv'
  <2>1. tripState[t] = "NONE" /\ visited[t] = {} /\ \A c \in Caller : ~ InFlight(t, c)
    BY <1>3 DEF InsertTrip, CreatingInv, NewTripInv
  <2>2. NewTripInv' /\ CreatingInv'
    BY <1>3, <2>1 DEF InsertTrip, TypeOK, NewTripInv, CreatingInv, InFlight
  <2>3. StageInv'
    BY <1>3, <2>1 DEF InsertTrip, TypeOK, StageInv, InFlight, Target, Preceded
  <2> QED BY <1>0, <2>2, <2>3
<1>4. ASSUME NEW t \in Trip, NEW c \in Caller, NEW to \in TripStates, ReadTrip(t, c, to)
      PROVE  TripIInv'
  <2>1. tripState[t] \in TripStates /\ tripState[t] # "NONE"
    BY <1>4 DEF ReadTrip, IsOpen, OpenStates, TripStates
  <2>2. Preceded(t, to)
    BY <1>4, <2>1, TransitionFacts DEF ReadTrip, StageInv, Preceded
  <2>3. /\ updating'[t][c].to = to
        /\ \A u \in Trip, k \in Caller : u # t \/ k # c => updating'[u][k] = updating[u][k]
    BY <1>4 DEF ReadTrip, TypeOK
  <2>4. StageInv'
    BY <1>4, <2>2, <2>3 DEF ReadTrip, StageInv, InFlight, Target, Preceded
  <2> QED BY <1>0, <1>4, <2>1, <2>3, <2>4 DEF ReadTrip, NewTripInv, CreatingInv, InFlight
<1>5. ASSUME NEW t \in Trip, NEW c \in Caller, ReleaseDriver(t, c) PROVE TripIInv'
  <2>1. \A u \in Trip, k \in Caller :
           /\ updating'[u][k].to = updating[u][k].to
           /\ updating'[u][k].stage # "idle" <=> updating[u][k].stage # "idle"
    BY <1>5 DEF ReleaseDriver, TypeOK
  <2> QED BY <1>0, <1>5, <2>1 DEF ReleaseDriver, NewTripInv, CreatingInv, StageInv, InFlight, Target,
             Preceded
<1>6. ASSUME NEW t \in Trip, NEW c \in Caller, WriteState(t, c) PROVE TripIInv'
  <2> DEFINE to == updating[t][c].to
  <2>1. /\ tripState[t] # "NONE" /\ to \in TripStates /\ to # "NONE" /\ Preceded(t, to)
        /\ creating[t] = "idle"
    BY <1>6 DEF WriteState, TypeOK, TripStates, NewTripInv, CreatingInv, StageInv, InFlight, Target
  <2>2. /\ updating'[t][c] = Idle
        /\ \A u \in Trip, k \in Caller : u # t \/ k # c => updating'[u][k] = updating[u][k]
    BY <1>6 DEF WriteState, TypeOK
  <2>3. /\ visited'[t] = visited[t] \cup {to} /\ tripState'[t] = to
        /\ \A u \in Trip \ {t} : visited'[u] = visited[u] /\ tripState'[u] = tripState[u]
    BY <1>6 DEF WriteState, TypeOK
  <2>4. NewTripInv' /\ CreatingInv'
    BY <1>6, <2>1, <2>2, <2>3 DEF WriteState, NewTripInv, CreatingInv, InFlight
  <2>5. StageInv'
    BY <2>1, <2>2, <2>3 DEF StageInv, InFlight, Target, Preceded, Idle
  <2> QED BY <1>0, <2>4, <2>5
<1>7. ASSUME NEW t \in Trip, NEW c \in Caller, UpdateFails(t, c) PROVE TripIInv'
  <2>1. /\ updating'[t][c] = Idle
        /\ \A u \in Trip, k \in Caller : u # t \/ k # c => updating'[u][k] = updating[u][k]
    BY <1>7 DEF UpdateFails, TypeOK
  <2> QED BY <1>0, <1>7, <2>1 DEF UpdateFails, NewTripInv, CreatingInv, StageInv, InFlight, Target,
             Preceded, Idle
<1>8. CASE \/ \E d \in Driver, status \in StatusWrites : UpdateDriverStatus(d, status)
           \/ UNCHANGED vars
  BY <1>0, <1>8 DEF UpdateDriverStatus, vars, NewTripInv, CreatingInv, StageInv, InFlight, Target,
     Preceded
<1> QED
  BY <1>1, <1>2, <1>3, <1>4, <1>5, <1>6, <1>7, <1>8 DEF Next

\* The inductive invariant holds in every behaviour.
LEMMA TripInvariance == Spec => []TripIInv
<1>1. Init => TripIInv
  BY TripInit DEF TripIInv
<1> QED
  BY <1>1, TripNextInv, PTL DEF Spec

\* No trip skips a state, however many callers update it at once
\* (TripsService.updateState).
THEOREM TripsPassEveryStage == Spec => []StagesInOrder
<1>1. TripIInv => StagesInOrder
  BY DEF TripIInv, StageInv, Preceded, StagesInOrder
<1> QED
  BY <1>1, TripInvariance, PTL

-----------------------------------------------------------------------------
\* A step keeps every BUSY driver a trip that nobody has freed it from.
LEMMA BusyNext ==
  ASSUME "BUSY" \notin StatusWrites
  PROVE  TripIInv /\ BusyInv /\ [Next]_vars => BusyInv'
<1> SUFFICES ASSUME TripIInv, BusyInv, [Next]_vars,
                    NEW d \in Driver, driverStatus'[d] = "BUSY"
             PROVE  \E u \in Trip : KeepsBusy(u, d)'
  BY DEF BusyInv
<1> USE DEF TripIInv
<1>1. ASSUME NEW t \in Trip, SetDriverBusy(t), d = tripDriver[t]
      PROVE  \E u \in Trip : KeepsBusy(u, d)'
  <2>1. KeepsBusy(t, d)'
    BY <1>1 DEF SetDriverBusy, KeepsBusy, TypeOK
  <2> QED BY <2>1
<1>2. CASE driverStatus[d] # "BUSY"
  <2>1. PICK t \in Trip : SetDriverBusy(t) /\ d = tripDriver[t]
    BY <1>2, TripAssumption DEF Next, vars, Create, SetDriverBusy, InsertTrip, CreateFails, ReadTrip,
       ReleaseDriver, WriteState, UpdateFails, UpdateDriverStatus, TypeOK
  <2> QED BY <1>1, <2>1
<1>3. CASE driverStatus[d] = "BUSY"
  <2>1. PICK w \in Trip : KeepsBusy(w, d)
    BY <1>3 DEF BusyInv
  <2> SUFFICES \/ KeepsBusy(w, d)'
               \/ \E t \in Trip : SetDriverBusy(t) /\ d = tripDriver[t]
    BY <1>1
  <2>2. ASSUME NEW t \in Trip, NEW e \in Driver, Create(t, e) PROVE KeepsBusy(w, d)'
    <3>1. t # w
      BY <2>1, <2>2, TripAssumption DEF Create, KeepsBusy
    <3> QED BY <2>1, <2>2, <3>1 DEF Create, KeepsBusy, TypeOK, Abandoned, IsOpen, Ending
  <2>3. ASSUME NEW t \in Trip, SetDriverBusy(t) PROVE KeepsBusy(w, d)'
    BY <2>1, <2>3 DEF SetDriverBusy, KeepsBusy, TypeOK, Abandoned, IsOpen, Ending
  <2>4. ASSUME NEW t \in Trip, InsertTrip(t) PROVE KeepsBusy(w, d)'
    <3>1. CASE t = w
      <4>1. \A c \in Caller : ~ InFlight(w, c)
        BY <2>4, <3>1 DEF InsertTrip, CreatingInv, NewTripInv
      <4>2. tripState'[w] = "ASSIGNED" /\ updating' = updating /\ tripDriver' = tripDriver
        BY <2>4, <3>1 DEF InsertTrip, TypeOK
      <4> QED BY <2>1, <4>1, <4>2 DEF KeepsBusy, IsOpen, OpenStates, Ending, InFlight
    <3>2. CASE t # w
      BY <2>1, <2>4, <3>2 DEF InsertTrip, KeepsBusy, TypeOK, Abandoned, IsOpen, Ending
    <3> QED BY <3>1, <3>2
  <2>5. ASSUME NEW t \in Trip, CreateFails(t) PROVE KeepsBusy(w, d)'
    BY <2>1, <2>5 DEF CreateFails, KeepsBusy, TypeOK, CreatingInv, Abandoned, IsOpen, Ending
  <2>6. ASSUME NEW t \in Trip, NEW c \in Caller, NEW to \in TripStates, ReadTrip(t, c, to)
        PROVE  KeepsBusy(w, d)'
    <3>1. /\ updating'[t][c] = [stage |-> IF Ends(to) THEN "release" ELSE "write", to |-> to]
          /\ \A u \in Trip, k \in Caller : u # t \/ k # c => updating'[u][k] = updating[u][k]
      BY <2>6 DEF ReadTrip, TypeOK
    <3>2. ~ Ending(t, c)'
      BY <3>1 DEF Ending, Ends
    <3> QED BY <2>1, <2>6, <3>1, <3>2 DEF ReadTrip, KeepsBusy, Abandoned, IsOpen, Ending
  <2>7. ASSUME NEW t \in Trip, NEW c \in Caller, ReleaseDriver(t, c) PROVE KeepsBusy(w, d)'
    <3>1. t # w
      BY <2>1, <2>7 DEF ReleaseDriver, KeepsBusy, TypeOK
    <3> QED BY <2>1, <2>7, <3>1 DEF ReleaseDriver, KeepsBusy, TypeOK, Abandoned, IsOpen, Ending
  <2>8. ASSUME NEW t \in Trip, NEW c \in Caller, WriteState(t, c) PROVE KeepsBusy(w, d)'
    <3>1. /\ updating'[t][c] = Idle
          /\ \A u \in Trip, k \in Caller : u # t \/ k # c => updating'[u][k] = updating[u][k]
      BY <2>8 DEF WriteState, TypeOK
    <3>2. CASE t = w
      <4>1. tripState[w] # "NONE" /\ creating[w] = "idle"
        BY <2>8, <3>2 DEF WriteState, NewTripInv, CreatingInv, InFlight, TypeOK
      <4>2. \A k \in Caller : ~ Ending(w, k)
        BY <2>1, <4>1 DEF KeepsBusy, Abandoned
      <4>3. tripState'[w] \in OpenStates
        BY <2>8, <3>2, <4>2 DEF WriteState, Ending, Ends, TypeOK, TripStates, OpenStates
      <4> QED BY <2>1, <2>8, <3>1, <3>2, <4>2, <4>3 DEF WriteState, KeepsBusy, IsOpen, Ending, Idle, Ends
    <3>3. CASE t # w
      BY <2>1, <2>8, <3>1, <3>3 DEF WriteState, KeepsBusy, TypeOK, Abandoned, IsOpen, Ending
    <3> QED BY <3>2, <3>3
  <2>9. ASSUME NEW t \in Trip, NEW c \in Caller, UpdateFails(t, c) PROVE KeepsBusy(w, d)'
    <3>1. /\ updating'[t][c] = Idle
          /\ \A u \in Trip, k \in Caller : u # t \/ k # c => updating'[u][k] = updating[u][k]
      BY <2>9 DEF UpdateFails, TypeOK
    <3> QED BY <2>1, <2>9, <3>1 DEF UpdateFails, KeepsBusy, Abandoned, IsOpen, Ending, Idle, Ends
  <2>10. CASE \/ \E e \in Driver, status \in StatusWrites : UpdateDriverStatus(e, status)
              \/ UNCHANGED vars
    BY <2>1, <2>10 DEF UpdateDriverStatus, vars, KeepsBusy, Abandoned, IsOpen, Ending
  <2> QED
    BY <2>2, <2>3, <2>4, <2>5, <2>6, <2>7, <2>8, <2>9, <2>10 DEF Next
<1> QED
  BY <1>2, <1>3

\* A driver that does not call itself BUSY is BUSY only with a trip that is
\* open, being made, or was abandoned half-made, however its trips begin and end
\* (TripsService.create, updateState).
THEOREM BusyDriversRide == ASSUME "BUSY" \notin StatusWrites PROVE Spec => []BusyHasOpenTrip
<1>1. Init => TripIInv /\ BusyInv
  BY TripInit DEF TripIInv, Init, BusyInv
<1>2. TripIInv /\ BusyInv /\ [Next]_vars => (TripIInv /\ BusyInv)'
  BY TripNextInv, BusyNext
<1>3. TripIInv /\ BusyInv => BusyHasOpenTrip
  BY DEF BusyInv, KeepsBusy, BusyHasOpenTrip
<1> QED
  BY <1>1, <1>2, <1>3, PTL DEF Spec
=============================================================================
