--------------------------- MODULE DriverPresence ---------------------------
(***************************************************************************)
(* What Redis knows of one driver (drivers share no key but the GEO set,   *)
(* each with a member of its own): LocationsService and RedisService,      *)
(* DriversService.updateDriverStatus, and the gateway handlers that call   *)
(* them.                                                                   *)
(*                                                                         *)
(* An action is one Redis or database command with the code that runs on   *)
(* its reply.  All commands go through one connection, so location updates *)
(* never overtake each other.  A pipeline is answered once, but its commands *)
(* succeed or fail one by one.                                             *)
(*                                                                         *)
(* Positions are points of a line, and the haversine distance is theirs.   *)
(***************************************************************************)
EXTENDS Integers, Sequences, FiniteSets

CONSTANTS
    Place,          \* what isValidCoordinate accepts: an interval of integers
    GeoRange,       \* the places GEOADD accepts: it refuses latitudes beyond 85.05
    Threshold,      \* LOCATION_MIN_DISTANCE_M
    Absent,         \* no such key, no such member
    MaxUpdates,     \* location updates handled at once
    MaxSessions,    \* sockets of the driver open at once
    MaxRemovals,    \* sessions whose removal is in flight at once
    MaxFaults       \* failed commands and restarts

ASSUME PresenceAssumption ==
    /\ Place \subseteq Int /\ Place # {}
    /\ GeoRange \subseteq Place
    /\ Threshold \in Nat
    /\ Absent \notin Place
    /\ MaxUpdates \in Nat \ {0} /\ MaxSessions \in Nat \ {0}
    /\ MaxRemovals \in Nat \ {0} /\ MaxFaults \in Nat

VARIABLES
    geo,            \* the member of drivers:geo, which never expires
    online,         \* driver:<id>:online, with its TTL
    lastpos,        \* driver:<id>:lastpos, with its TTL
    sessions,       \* authenticated sockets of the driver
    updates,        \* updateDriverLocation calls in flight, oldest first
    removal,        \* removeDriverLocation calls in flight, one per session ended
    patch,          \* updateDriverStatus in flight
    faults,         \* how often something failed
    reported,       \* history: the last place the app sent
    missed,         \* history: its call failed, or was misled
    torn            \* history: a pipeline left the GEO member and the last
                    \* position apart, and both are still there

Redis   == <<geo, online, lastpos>>
history == <<reported, missed, torn>>
vars    == <<Redis, sessions, updates, removal, patch, faults, history>>

Update == [place : Place, stage : {"geopos", "lastpos", "refresh", "batch"},
           inGeo : BOOLEAN,     \* the reply to GEOPOS, until it is used
           misled : BOOLEAN]    \* history: throttled by a last position that an
                                \* older call was about to replace, or that a
                                \* pipeline left apart from the GEO member

Removals == 1 .. MaxRemovals

TypeOK ==
    /\ geo \in Place \cup {Absent}
    /\ online \in BOOLEAN
    /\ lastpos \in Place \cup {Absent}
    /\ sessions \in 0 .. MaxSessions
    /\ updates \in Seq(Update) /\ Len(updates) <= MaxUpdates
    /\ removal \in [Removals -> {"idle", "zrem", "online", "lastpos"}]
    /\ patch \in {"idle", "setex", "del", "zrem"}
    /\ faults \in 0 .. MaxFaults
    /\ reported \in Place \cup {Absent}
    /\ missed \in BOOLEAN /\ torn \in BOOLEAN

Init ==
    /\ geo = Absent
    /\ online = FALSE
    /\ lastpos = Absent
    /\ sessions = 0
    /\ updates = <<>>
    /\ removal = [i \in Removals |-> "idle"]
    /\ patch = "idle"
    /\ faults = 0
    /\ reported = Absent
    /\ missed = FALSE /\ torn = FALSE

\* getNearbyDrivers returns the driver to a search near enough.
Findable == geo # Absent /\ online

Distance(a, b) == IF a < b THEN b - a ELSE a - b

-----------------------------------------------------------------------------
(***************************************************************************)
(* The driver's app.                                                       *)
(***************************************************************************)
Connect ==
    /\ sessions < MaxSessions
    /\ sessions' = sessions + 1
    /\ UNCHANGED <<Redis, updates, removal, patch, faults, history>>

\* handleDisconnect, which does not await the removal it starts.
Disconnect ==
    /\ sessions > 0
    /\ sessions' = sessions - 1
    /\ \E i \in Removals :
          /\ removal[i] = "idle"
          /\ removal' = [removal EXCEPT ![i] = "zrem"]
    /\ UNCHANGED <<Redis, updates, patch, faults, history>>

SendLocation(place) ==
    /\ sessions > 0
    /\ Len(updates) < MaxUpdates
    /\ updates' = Append(updates, [place |-> place, stage |-> "geopos",
                                   inGeo |-> FALSE, misled |-> FALSE])
    /\ reported' = place
    /\ missed' = FALSE
    /\ UNCHANGED <<Redis, sessions, removal, patch, faults, torn>>

-----------------------------------------------------------------------------
(***************************************************************************)
(* updateDriverLocation of the i-th call in flight.                        *)
(***************************************************************************)
Rank(stage) ==
    CASE stage = "geopos" -> 1 [] stage = "lastpos" -> 2 [] OTHER -> 3

\* The reply to call i comes after the reply call i - 1 got to its command of
\* the same rank.
IsNext(i, stage) ==
    /\ i \in 1 .. Len(updates)
    /\ updates[i].stage = stage
    /\ i > 1 => Rank(updates[i - 1].stage) > Rank(stage)

ReadGeo(i) ==
    /\ IsNext(i, "geopos")
    /\ updates' = [updates EXCEPT ![i].stage = "lastpos", ![i].inGeo = geo # Absent]
    /\ UNCHANGED <<Redis, sessions, removal, patch, faults, history>>

IgnoreGeo(inGeo, place) == lastpos # Absent /\ Distance(lastpos, place) < Threshold
Throttled(inGeo, place) ==
    /\ inGeo
    /\ lastpos # Absent
    /\ Distance(lastpos, place) < Threshold

Misled(i) == i > 1 \/ torn

ReadLastPosition(i) ==
    /\ IsNext(i, "lastpos")
    /\ LET throttled == Throttled(updates[i].inGeo, updates[i].place) IN
       updates' = [updates EXCEPT ![i].stage = IF throttled THEN "refresh" ELSE "batch",
                                  ![i].inGeo = FALSE,
                                  ![i].misled = throttled /\ Misled(i)]
    /\ UNCHANGED <<Redis, sessions, removal, patch, faults, history>>

\* setDriverOnline, which may leave the driver outside the GEO set when
\* somebody took it out since it was read.
RefreshAndMove ==
    /\ online' = TRUE
    /\ lastpos' = updates[1].place
    /\ UNCHANGED geo
Refresh ==
    /\ online' = TRUE
    /\ UNCHANGED <<geo, lastpos>>

\* The oldest call ends.  If no newer one is in flight, the last report is
\* settled, or lost.
CallEnds(lost) ==
    /\ updates' = Tail(updates)
    /\ missed' = IF Len(updates) = 1 THEN lost ELSE missed

RefreshPresence ==
    /\ IsNext(1, "refresh")
    /\ Refresh
    /\ CallEnds(updates[1].misled)
    /\ UNCHANGED <<sessions, removal, patch, faults, reported, torn>>

Apart == Absent \notin {geo, lastpos} /\ geo # lastpos

\* The commands of the pipeline that take effect.  It is no MULTI: the others
\* do not keep them from it.
Commands == {"geoadd", "setex", "set"}
Pipeline(done) ==
    /\ geo' = IF "geoadd" \in done THEN updates[1].place ELSE geo
    /\ online' = (online \/ "setex" \in done)
    /\ lastpos' = IF "set" \in done THEN updates[1].place ELSE lastpos
    /\ torn' = IF ("geoadd" \in done) = ("set" \in done)
               THEN torn /\ "set" \notin done
               ELSE Apart'

\* batchUpdateDriverLocation, when all goes well.
BatchUpdate ==
    /\ IsNext(1, "batch")
    /\ updates[1].place \in GeoRange
    /\ Pipeline(Commands)
    /\ CallEnds(FALSE)
    /\ UNCHANGED <<sessions, removal, patch, faults, reported>>

\* GEOADD refuses the coordinate, SETEX and SET are done, and then it throws.
BatchRefused ==
    /\ IsNext(1, "batch")
    /\ updates[1].place \notin GeoRange
    /\ Pipeline(Commands \ {"geoadd"})
    /\ CallEnds(TRUE)
    /\ UNCHANGED <<sessions, removal, patch, faults, reported>>

-----------------------------------------------------------------------------
(***************************************************************************)
(* removeDriverLocation: three commands, with anything in between.         *)
(***************************************************************************)
\* With one of the two keys gone there is nothing left to be apart.
KeyGone == torn' = FALSE /\ UNCHANGED <<reported, missed>>

RemovalStaysDone(i, stage) ==
    removal' = [removal EXCEPT ![i] = IF stage = "idle" THEN "done" ELSE stage]
RemovalGoesTo(i, stage) == removal' = [removal EXCEPT ![i] = stage]

RemoveFromGeo(i) ==
    /\ removal[i] = "zrem"
    /\ geo' = Absent
    /\ RemovalGoesTo(i, "online")
    /\ KeyGone
    /\ UNCHANGED <<online, lastpos, sessions, updates, patch, faults>>

RemovePresence(i) ==
    /\ removal[i] = "online"
    /\ online' = FALSE
    /\ RemovalGoesTo(i, "lastpos")
    /\ UNCHANGED <<geo, lastpos, sessions, updates, patch, faults, history>>

RemoveLastPosition(i) ==
    /\ removal[i] = "lastpos"
    /\ lastpos' = Absent
    /\ RemovalGoesTo(i, "idle")
    /\ KeyGone
    /\ UNCHANGED <<geo, online, sessions, updates, patch, faults>>

-----------------------------------------------------------------------------
(***************************************************************************)
(* PATCH of the driver's status, from where its row is written: the keys   *)
(* follow.  BUSY has none.  One call is in flight at once.                 *)
(***************************************************************************)
UpdateStatus(to) ==
    /\ patch = "idle"
    /\ patch' = IF to = "ONLINE" THEN "setex" ELSE "del"
    /\ UNCHANGED <<Redis, sessions, updates, removal, faults, history>>

PatchOnline ==
    /\ patch = "setex"
    /\ online' = TRUE
    /\ patch' = "idle"
    /\ UNCHANGED <<geo, lastpos, sessions, updates, removal, faults, history>>

PatchOffline ==
    /\ patch = "del"
    /\ online' = FALSE
    /\ patch' = "zrem"
    /\ UNCHANGED <<geo, lastpos, sessions, updates, removal, faults, history>>

PatchRemoveFromGeo ==
    /\ patch = "zrem"
    /\ geo' = Absent
    /\ patch' = "idle"
    /\ KeyGone
    /\ UNCHANGED <<online, lastpos, sessions, updates, removal, faults>>

-----------------------------------------------------------------------------
(***************************************************************************)
(* Time and failures.                                                      *)
(***************************************************************************)
NeverExpires == UNCHANGED online
Expires      == online /\ online' = FALSE

\* A TTL runs out; which refreshes came in time is left open.
PresenceExpires ==
    /\ Expires
    /\ UNCHANGED <<geo, lastpos, sessions, updates, removal, patch, faults, history>>

LastPositionExpires ==
    /\ lastpos # Absent
    /\ lastpos' = Absent
    /\ KeyGone
    /\ UNCHANGED <<geo, online, sessions, updates, removal, patch, faults>>

\* GEOPOS, GET or SETEX of the oldest update fails: its caller is told.  (A
\* newer one that fails is as good as one that fails when it is the oldest.)
UpdateFails ==
    /\ faults < MaxFaults
    /\ updates # <<>>
    /\ updates[1].stage # "batch"
    /\ CallEnds(TRUE)
    /\ faults' = faults + 1
    /\ UNCHANGED <<Redis, sessions, removal, patch, reported, torn>>

\* Some of the pipeline's commands fail, or its reply is lost.
BatchFails ==
    /\ faults < MaxFaults
    /\ IsNext(1, "batch")
    /\ \E done \in SUBSET Commands :
          /\ "geoadd" \in done => updates[1].place \in GeoRange
          /\ Pipeline(done)
    /\ CallEnds(TRUE)
    /\ faults' = faults + 1
    /\ UNCHANGED <<sessions, removal, patch, reported>>

\* A command of the PATCH fails.
PatchFails ==
    /\ faults < MaxFaults
    /\ patch # "idle"
    /\ patch' = "idle"
    /\ faults' = faults + 1
    /\ UNCHANGED <<Redis, sessions, updates, removal, history>>

\* The process dies, at any time or because the removal nobody awaits was
\* rejected; Redis and the database keep what they have.
Crash ==
    /\ faults < MaxFaults
    /\ sessions' = 0
    /\ updates' = <<>>
    /\ removal' = [i \in Removals |-> "idle"]
    /\ patch' = "idle"
    /\ faults' = faults + 1
    /\ missed' = (missed \/ updates # <<>>)
    /\ UNCHANGED <<Redis, reported, torn>>

-----------------------------------------------------------------------------
UpdateStep == (\E i \in 1 .. MaxUpdates : ReadGeo(i) \/ ReadLastPosition(i))
              \/ RefreshPresence \/ BatchUpdate \/ BatchRefused

RemovalStep(i) == RemoveFromGeo(i) \/ RemovePresence(i) \/ RemoveLastPosition(i)

PatchStep == PatchOnline \/ PatchOffline \/ PatchRemoveFromGeo

Next ==
    \/ Connect
    \/ Disconnect
    \/ \E place \in Place : SendLocation(place)
    \/ UpdateStep
    \/ \E i \in Removals : RemovalStep(i)
    \/ \E to \in {"ONLINE", "OFFLINE"} : UpdateStatus(to)
    \/ PatchStep
    \/ PresenceExpires
    \/ LastPositionExpires
    \/ UpdateFails
    \/ BatchFails
    \/ PatchFails
    \/ Crash

Spec == Init /\ [][Next]_vars

\* Redis answers, and a TTL that nothing renews runs out.  A driver that goes
\* on sending is not promised that its presence ever lapses, or that it lasts.
Fairness ==
    /\ WF_vars(UpdateStep)
    /\ \A i \in Removals : WF_vars(RemovalStep(i))
    /\ WF_vars(PatchStep)
    /\ WF_vars(updates = <<>> /\ patch = "idle" /\ PresenceExpires)

FairSpec == Spec /\ Fairness

\* What gives the last position its TTL anew.  If it is not done again the key
\* lapses; only PositionCatchesUp relies on that.
SetsOrRefreshes  == BatchUpdate \/ BatchRefused \/ BatchFails \/ RefreshPresence
SetsLastPosition == BatchUpdate \/ BatchRefused \/ BatchFails

LastPositionLapses == []<>(lastpos = Absent) \/ []<><<SetsLastPosition>>_vars

-----------------------------------------------------------------------------
(***************************************************************************)
(* Properties.                                                             *)
(***************************************************************************)

\* The place where the driver is found is nearer than the threshold to the one
\* it sent last.
Fresh == geo = reported \/ Distance(geo, reported) < Threshold

\* The position a search sees is that near, however many small moves were
\* throttled, and whatever removals, status changes, lapsed keys, failures and
\* restarts came in between (locations.service.ts:52-76).  The code guards
\* against three things not, which are left out: that the last report failed, in
\* part or all of it; that it was throttled while an older one was still being
\* stored; and that it was throttled by a last position that a pipeline which
\* failed in part had left apart from the GEO member.
PositionIsFresh ==
    geo # Absent /\ updates = <<>> /\ reported # Absent /\ ~ missed => Fresh

\* Nor do those three things last: of a driver that goes on sending, one report
\* at a time, the position becomes fresh and stays so.  If a pipeline left
\* the two keys apart and all reports since were throttled by the wrong one of
\* them, it is the TTL of the last position, which a throttled report
\* does not renew, that ends it (locations.service.ts:67-69, redis.service.ts:222-227).
PositionCatchesUp ==
    /\ LastPositionLapses
    /\ <>[](Len(updates) <= 1)
    /\ []<>(updates # <<>>)
    /\ <>[](reported \in GeoRange)
    => <>[](geo # Absent /\ updates = <<>> => Fresh)

\* "Check if driver is in GEO set - if not, we MUST add them regardless of
\* throttling" (locations.service.ts:52): a driver that goes on sending places
\* GEOADD accepts is found again and again, once no session of it ends and it does
\* not go OFFLINE.  Sessions that ended before, whose late removals took its keys
\* away, do not matter, nor do lapsed keys and pipelines that failed in part.
Removing == patch \in {"del", "zrem"} \/ \E i \in Removals : removal[i] # "idle"

SendingDriverIsFound ==
    <>[](~ Removing) /\ []<>(updates # <<>>) /\ <>[](reported \in GeoRange) => []<>Findable

\* A driver that stopped sending, by logging out, by losing its link or with
\* the server, is eventually found no more: an update that was still in flight
\* when its keys were removed brings it back for one TTL at most.
SilentDriverIsForgotten ==
    <>[](updates = <<>> /\ patch = "idle") => <>[](~ Findable)
=============================================================================
