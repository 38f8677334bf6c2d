------------------------ MODULE DriverPresenceProofs ------------------------
(***************************************************************************)
(* The position a search sees, for every road, every threshold, every      *)
(* number of updates, sockets and removals in flight and of failures.      *)
(*                                                                         *)
(* A throttled update is compared with lastpos, while a search sees the    *)
(* GEO member.  That the comparison is worth something takes three facts:  *)
(* the two keys agree as long as both exist, unless a pipeline left them   *)
(* apart; an update that was throttled, and not misled, stays near the GEO *)
(* member until it ends; and one that was throttled behind another call is *)
(* known to be misled.                                                     *)
(***************************************************************************)
EXTENDS DriverPresence, TLAPS

\* A location update is made of a place and a stage of handleDriverLocation.
LEMMA UpdateFacts ==
  /\ \A place \in Place : [place |-> place, stage |-> "geopos",
                           inGeo |-> FALSE, misled |-> FALSE] \in Update
  /\ \A u \in Update : /\ u.place \in Place /\ u.misled \in BOOLEAN
                       /\ u.stage \in {"geopos", "lastpos", "refresh", "batch"}
  BY DEF Update

\* The two things location updates do to the queue, besides joining it.
LEMMA TailFacts ==
  ASSUME TypeOK, updates # <<>>
  PROVE  /\ Tail(updates) \in Seq(Update) /\ Len(Tail(updates)) = Len(updates) - 1
         /\ Len(updates) \in Nat \ {0}
         /\ \A i \in 1 .. Len(Tail(updates)) : Tail(updates)[i] = updates[i + 1]
  BY DEF TypeOK

\* The reply of a read changes one call in place.
ReadOf(i, after) ==
    /\ after \in Update
    /\ updates' = [updates EXCEPT ![i] = after]

\* Only the update that a command answers moves on.
LEMMA ReadFacts ==
  ASSUME TypeOK, NEW i \in 1 .. Len(updates), NEW after, ReadOf(i, after)
  PROVE  /\ updates' \in Seq(Update) /\ Len(updates') = Len(updates)
         /\ \A j \in 1 .. Len(updates) : updates'[j] = IF j = i THEN after ELSE updates[j]
  BY DEF TypeOK, ReadOf

-----------------------------------------------------------------------------
(***************************************************************************)
(* The inductive invariant.                                                *)
(***************************************************************************)
Near(place) == geo = Absent \/ geo = place \/ Distance(geo, place) < Threshold

\* A pipeline that goes well writes both keys, and nothing else writes one.
KeysAgree == geo # Absent /\ lastpos # Absent /\ ~ torn => geo = lastpos

\* The newest call in flight carries the place the app sent last.
NewestIsReported == updates # <<>> => reported = updates[Len(updates)].place

Throttles(u) == u.stage = "refresh"

\* The oldest call, if it was throttled and not misled, is near the GEO member.
ThrottledIsNear ==
    updates # <<>> /\ Throttles(updates[1]) /\ ~ updates[1].misled => Near(updates[1].place)

\* A call that was throttled behind another one was misled.
OverlapIsKnown == \A i \in 2 .. Len(updates) : Throttles(updates[i]) => updates[i].misled

\* Once no call is in flight, the GEO member is near what was sent last.
QuietIsNear == updates = <<>> /\ reported # Absent /\ ~ missed => Near(reported)

PresenceInv ==
    /\ TypeOK
    /\ KeysAgree
    /\ NewestIsReported
    /\ ThrottledIsNear
    /\ OverlapIsKnown
    /\ QuietIsNear

\* What the steps of removals, of PATCHes, of time and of sockets do to it:
\* keys are taken away, and calls and places stay.
LEMMA KeysTakenAway ==
  ASSUME PresenceInv, TypeOK',
         geo' \in {geo, Absent}, lastpos' \in {lastpos, Absent},
         UNCHANGED <<updates, reported, missed>>,
         torn' = torn \/ geo' = Absent \/ lastpos' = Absent
  PROVE  PresenceInv'
  BY DEF PresenceInv, KeysAgree, NewestIsReported, ThrottledIsNear, OverlapIsKnown, QuietIsNear,
     Near

-----------------------------------------------------------------------------
(***************************************************************************)
(* The steps of a location update.                                         *)
(***************************************************************************)
LEMMA SendKeepsInv ==
  ASSUME PresenceInv, NEW place \in Place, SendLocation(place)
  PROVE  PresenceInv'
<1> DEFINE call == [place |-> place, stage |-> "geopos", inGeo |-> FALSE, misled |-> FALSE]
<1>1. call \in Update /\ call.place = place /\ ~ Throttles(call)
  BY UpdateFacts DEF Throttles
<1>2. updates' = Append(updates, call) /\ reported' = place
  BY DEF SendLocation
<1> HIDE DEF call
<1>3. /\ updates' \in Seq(Update) /\ Len(updates') = Len(updates) + 1
      /\ Len(updates) \in Nat /\ updates' # <<>>
      /\ \A i \in 1 .. Len(updates) : updates'[i] = updates[i]
      /\ updates'[Len(updates) + 1] = call
  BY <1>1, <1>2 DEF PresenceInv, TypeOK
<1>4. UNCHANGED <<geo, online, lastpos, sessions, removal, patch, faults, torn>>
  BY DEF SendLocation, Redis
<1>5. TypeOK'
  <2>1. Len(updates') <= MaxUpdates
    BY <1>3, PresenceAssumption DEF SendLocation
  <2>2. missed' \in BOOLEAN
    BY DEF SendLocation
  <2> QED BY <1>2, <1>3, <1>4, <2>1, <2>2 DEF PresenceInv, TypeOK
<1>6. NewestIsReported' /\ QuietIsNear' /\ KeysAgree'
  BY <1>1, <1>2, <1>3, <1>4 DEF NewestIsReported, QuietIsNear, PresenceInv, KeysAgree
<1>7. OverlapIsKnown'
  <2> SUFFICES ASSUME NEW i \in 2 .. Len(updates'), Throttles(updates'[i])
               PROVE  updates'[i].misled
    BY DEF OverlapIsKnown, Throttles
  <2>1. i \in 2 .. Len(updates)
    BY <1>1, <1>3
  <2> QED BY <1>3, <2>1 DEF PresenceInv, OverlapIsKnown
<1>8. ThrottledIsNear'
  <2>1. CASE updates = <<>>
    BY <1>1, <1>3, <2>1 DEF ThrottledIsNear
  <2>2. CASE updates # <<>>
    <3>1. updates'[1] = updates[1]
      BY <1>3, <2>2 DEF PresenceInv, TypeOK
    <3> QED BY <1>4, <2>2, <3>1 DEF PresenceInv, ThrottledIsNear, Near
  <2> QED BY <2>1, <2>2
<1> QED BY <1>5, <1>6, <1>7, <1>8 DEF PresenceInv

\* GEOPOS is answered: the update learns whether the geo key holds the driver.
LEMMA ReadGeoKeepsInv ==
  ASSUME PresenceInv, NEW i \in 1 .. MaxUpdates, ReadGeo(i)
  PROVE  PresenceInv'
<1> DEFINE after == [updates[i] EXCEPT !.stage = "lastpos", !.inGeo = geo # Absent]
<1>1. i \in 1 .. Len(updates) /\ updates[i] \in Update
  BY DEF ReadGeo, IsNext, PresenceInv, TypeOK
<1>2. /\ after \in Update /\ after.place = updates[i].place
      /\ ~ Throttles(after)
  BY <1>1 DEF Update, Throttles
<1>3. ReadOf(i, after)
  BY <1>1, <1>2 DEF ReadGeo, ReadOf, PresenceInv, TypeOK
<1> HIDE DEF after
<1>4. /\ updates' \in Seq(Update) /\ Len(updates') = Len(updates)
      /\ \A j \in 1 .. Len(updates) : updates'[j] = IF j = i THEN after ELSE updates[j]
  BY <1>1, <1>3, ReadFacts DEF PresenceInv
<1>5. UNCHANGED <<geo, lastpos, online, sessions, removal, patch, faults, reported, missed, torn>>
  BY DEF ReadGeo, Redis, history
<1>6. TypeOK'
  BY <1>4, <1>5 DEF PresenceInv, TypeOK
<1>7. Len(updates) \in Nat \ {0} /\ updates # <<>> /\ updates' # <<>>
  BY <1>1, <1>4 DEF PresenceInv, TypeOK
<1>8. KeysAgree' /\ NewestIsReported' /\ QuietIsNear'
  BY <1>2, <1>4, <1>5, <1>7 DEF PresenceInv, KeysAgree, NewestIsReported, QuietIsNear
<1>9. ThrottledIsNear' /\ OverlapIsKnown'
  BY <1>2, <1>4, <1>5, <1>7 DEF PresenceInv, ThrottledIsNear, OverlapIsKnown, Near, Throttles
<1> QED BY <1>6, <1>8, <1>9 DEF PresenceInv

\* The decision, against a lastpos that agrees with the GEO member if the call
\* is not misled.
LEMMA ReadLastPositionKeepsInv ==
  ASSUME PresenceInv, NEW i \in 1 .. MaxUpdates, ReadLastPosition(i)
  PROVE  PresenceInv'
<1> DEFINE near  == Throttled(updates[i].inGeo, updates[i].place)
           next  == IF near THEN "refresh" ELSE "batch"
           after == [updates[i] EXCEPT !.stage = next, !.inGeo = FALSE,
                                       !.misled = near /\ Misled(i)]
<1>1. i \in 1 .. Len(updates) /\ updates[i] \in Update
  BY DEF ReadLastPosition, IsNext, PresenceInv, TypeOK
<1>2. /\ after \in Update /\ after.place = updates[i].place
      /\ after.stage = next /\ after.misled = (near /\ Misled(i))
  <2>1. next \in {"refresh", "batch"} /\ (near /\ Misled(i)) \in BOOLEAN
    OBVIOUS
  <2> HIDE DEF next, near
  <2> QED BY <1>1, <2>1 DEF Update
<1>3. ReadOf(i, after)
  BY <1>1, <1>2 DEF ReadLastPosition, ReadOf, PresenceInv, TypeOK
<1>4. Throttles(after) => near /\ (after.misled <=> Misled(i))
  <2> HIDE DEF near, after
  <2>1. CASE near
    BY <1>2, <2>1
  <2>2. CASE ~ near
    BY <1>2, <2>2 DEF Throttles
  <2> QED BY <2>1, <2>2
<1>5. Throttles(after) /\ ~ after.misled => Near(after.place)
  BY <1>2, <1>4 DEF Misled, Throttled, PresenceInv, KeysAgree, Near
<1>6. Throttles(after) /\ i > 1 => after.misled
  BY <1>4 DEF Misled
<1> HIDE DEF after, next, near
<1>7. /\ updates' \in Seq(Update) /\ Len(updates') = Len(updates)
      /\ \A j \in 1 .. Len(updates) : updates'[j] = IF j = i THEN after ELSE updates[j]
  BY <1>1, <1>3, ReadFacts DEF PresenceInv
<1>8. UNCHANGED <<geo, lastpos, online, sessions, removal, patch, faults, reported, missed, torn>>
  BY DEF ReadLastPosition, Redis, history
<1>9. TypeOK'
  BY <1>7, <1>8 DEF PresenceInv, TypeOK
<1>10. Len(updates) \in Nat \ {0} /\ updates # <<>> /\ updates' # <<>>
  BY <1>1, <1>7 DEF PresenceInv, TypeOK
<1>11. KeysAgree' /\ NewestIsReported' /\ QuietIsNear'
  BY <1>2, <1>7, <1>8, <1>10 DEF PresenceInv, KeysAgree, NewestIsReported, QuietIsNear
<1>12. ThrottledIsNear'
  BY <1>5, <1>7, <1>8, <1>10 DEF PresenceInv, ThrottledIsNear, Near
<1>13. OverlapIsKnown'
  <2> SUFFICES ASSUME NEW j \in 2 .. Len(updates), Throttles(updates'[j])
               PROVE  updates'[j].misled
    BY <1>7 DEF OverlapIsKnown, Throttles
  <2>1. CASE j = i
    BY <1>6, <1>7, <2>1
  <2>2. CASE j # i
    <3>1. updates'[j] = updates[j]
      BY <1>7, <2>2
    <3> QED BY <3>1 DEF PresenceInv, OverlapIsKnown
  <2> QED BY <2>1, <2>2
<1> QED BY <1>9, <1>11, <1>12, <1>13 DEF PresenceInv

\* The oldest call ends, with the GEO member near its place, or lost.
LEMMA UpdateEnds ==
  ASSUME PresenceInv, TypeOK', KeysAgree', updates # <<>>, UNCHANGED reported,
         NEW lost, CallEnds(lost), NEW place, place = updates[1].place,
         lost \/ Near(place)'
  PROVE  PresenceInv'
<1>0. updates' = Tail(updates)
  BY DEF CallEnds
<1>1. /\ Len(updates') = Len(updates) - 1 /\ Len(updates) \in Nat \ {0}
      /\ \A i \in 1 .. Len(updates') : updates'[i] = updates[i + 1]
  BY <1>0, TailFacts DEF PresenceInv
<1>2. NewestIsReported'
  <2> SUFFICES ASSUME updates' # <<>>
               PROVE  reported' = updates'[Len(updates')].place
    BY DEF NewestIsReported
  <2>1. Len(updates') \in Nat \ {0}
    BY DEF TypeOK
  <2>2. updates'[Len(updates')] = updates[Len(updates)]
    BY <1>1, <2>1
  <2> QED BY <2>2 DEF PresenceInv, NewestIsReported
<1>3. OverlapIsKnown'
  <2> SUFFICES ASSUME NEW i \in 2 .. Len(updates'), Throttles(updates'[i])
               PROVE  updates'[i].misled
    BY DEF OverlapIsKnown, Throttles
  <2>1. i + 1 \in 2 .. Len(updates) /\ updates'[i] = updates[i + 1]
    BY <1>1
  <2> QED BY <2>1 DEF PresenceInv, OverlapIsKnown
<1>4. ThrottledIsNear'
  <2> SUFFICES ASSUME updates' # <<>>, Throttles(updates'[1])
               PROVE  updates'[1].misled
    BY DEF ThrottledIsNear, Throttles
  <2>1. Len(updates') \in Nat \ {0}
    BY DEF TypeOK
  <2>2. updates'[1] = updates[2] /\ 2 \in 2 .. Len(updates)
    BY <1>1, <2>1
  <2> QED BY <2>2 DEF PresenceInv, OverlapIsKnown, Throttles
<1>5. QuietIsNear'
  <2> SUFFICES ASSUME updates' = <<>>, ~ missed'
               PROVE  Near(reported)'
    BY DEF QuietIsNear
  <2>1. Len(updates) = 1
    BY <1>1
  <2>2. reported' = place
    BY <2>1 DEF PresenceInv, NewestIsReported
  <2>3. Near(place)'
    BY <2>1 DEF CallEnds
  <2> QED BY <2>2, <2>3 DEF Near
<1> QED BY <1>2, <1>3, <1>4, <1>5 DEF PresenceInv

\* What the end of the oldest call does to the types.
LEMMA CallEndsFacts ==
  ASSUME TypeOK, updates # <<>>, NEW lost \in BOOLEAN, CallEnds(lost)
  PROVE  /\ updates' \in Seq(Update) /\ Len(updates') <= MaxUpdates
         /\ missed' \in BOOLEAN
         /\ updates[1] \in Update /\ updates[1].place \in Place /\ updates[1].misled \in BOOLEAN
<1>1. updates[1] \in Update
  BY DEF TypeOK
<1> QED BY <1>1, TailFacts, UpdateFacts, PresenceAssumption DEF CallEnds, TypeOK

\* The presence of a throttled driver is refreshed.
LEMMA RefreshKeepsInv ==
  ASSUME PresenceInv, RefreshPresence
  PROVE  PresenceInv'
<1> DEFINE lost == updates[1].misled
<1>1. TypeOK /\ updates # <<>> /\ updates[1].stage = "refresh"
  BY DEF RefreshPresence, IsNext, PresenceInv, TypeOK
<1>2. CallEnds(lost) /\ online' = TRUE
      /\ UNCHANGED <<geo, lastpos, sessions, removal, patch, faults, reported, torn>>
  BY DEF RefreshPresence, Refresh
<1>3. lost \in BOOLEAN
  <2>1. updates[1] \in Update
    BY <1>1 DEF TypeOK
  <2> QED BY <2>1, UpdateFacts
<1> HIDE DEF lost
<1>4. TypeOK'
  BY <1>1, <1>2, <1>3, CallEndsFacts DEF TypeOK
<1>5. KeysAgree'
  BY <1>2 DEF PresenceInv, KeysAgree
<1>6. lost \/ Near(updates[1].place)
  BY <1>1 DEF PresenceInv, ThrottledIsNear, Throttles, lost
<1>7. ASSUME NEW place, place = updates[1].place
      PROVE  lost \/ Near(place)'
  BY <1>2, <1>6, <1>7 DEF Near
<1> QED BY <1>1, <1>2, <1>4, <1>5, <1>7, UpdateEnds

\* Whichever of its commands take effect: two keys that are left apart are known
\* to be so.
LEMMA PipelineKeepsInv ==
  ASSUME PresenceInv, updates # <<>>, UNCHANGED <<sessions, removal, patch, reported>>,
         faults' \in 0 .. MaxFaults, NEW done \in SUBSET Commands, Pipeline(done),
         NEW lost \in BOOLEAN, CallEnds(lost), lost \/ done = Commands
  PROVE  PresenceInv'
<1>1. TypeOK
  BY DEF PresenceInv
<1>2. updates[1].place \in Place
  BY <1>1, CallEndsFacts
<1>3. torn' \in BOOLEAN
  BY <1>1 DEF TypeOK, Pipeline, Apart
<1>4. TypeOK'
  BY <1>1, <1>2, <1>3, CallEndsFacts DEF TypeOK, Pipeline
<1>5. KeysAgree'
  <2>1. CASE "geoadd" \in done /\ "set" \in done
    BY <2>1 DEF KeysAgree, Pipeline
  <2>2. CASE "geoadd" \notin done /\ "set" \notin done
    BY <2>2, <1>1 DEF PresenceInv, KeysAgree, Pipeline, TypeOK
  <2>3. CASE ("geoadd" \in done) # ("set" \in done)
    BY <2>3 DEF KeysAgree, Pipeline, Apart
  <2> QED BY <2>1, <2>2, <2>3
<1>6. ASSUME NEW place, place = updates[1].place
      PROVE  lost \/ Near(place)'
  BY <1>6 DEF Near, Pipeline, Commands
<1> QED BY <1>4, <1>5, <1>6, UpdateEnds

\* Every other command of a location update, and its failure.
LEMMA UpdateStepKeepsInv ==
  ASSUME PresenceInv, UpdateStep \/ UpdateFails \/ BatchFails
  PROVE  PresenceInv'
<1>0. PresenceInv /\ TypeOK
  BY DEF PresenceInv
<1>1. CASE BatchUpdate \/ BatchRefused \/ BatchFails
  <2>1. /\ updates # <<>> /\ UNCHANGED <<sessions, removal, patch, reported>>
        /\ faults' \in 0 .. MaxFaults
    <3>1. IsNext(1, "batch") /\ UNCHANGED <<sessions, removal, patch, reported>>
      BY <1>1 DEF BatchUpdate, BatchRefused, BatchFails
    <3>2. updates # <<>>
      BY <1>0, <3>1 DEF IsNext, TypeOK
    <3>3. faults' = faults \/ (faults < MaxFaults /\ faults' = faults + 1)
      BY <1>1 DEF BatchUpdate, BatchRefused, BatchFails
    <3>4. faults' \in 0 .. MaxFaults
      BY <1>0, <3>3, PresenceAssumption DEF TypeOK
    <3> QED BY <3>1, <3>2, <3>4
  <2>2. \E done \in SUBSET Commands, lost \in BOOLEAN :
           Pipeline(done) /\ CallEnds(lost) /\ (lost \/ done = Commands)
    <3>1. CASE BatchUpdate
      BY <3>1 DEF BatchUpdate
    <3>2. CASE BatchRefused
      BY <3>2 DEF BatchRefused
    <3>3. CASE BatchFails
      BY <3>3 DEF BatchFails
    <3> QED BY <1>1, <3>1, <3>2, <3>3
  <2> QED BY <2>1, <2>2, PipelineKeepsInv
<1>2. CASE UpdateFails
  <2>1. /\ updates # <<>> /\ CallEnds(TRUE) /\ faults' \in 0 .. MaxFaults
        /\ UNCHANGED <<geo, online, lastpos, sessions, removal, patch, reported, torn>>
    <3>1. /\ updates # <<>> /\ CallEnds(TRUE) /\ faults < MaxFaults /\ faults' = faults + 1
          /\ UNCHANGED <<geo, online, lastpos, sessions, removal, patch, reported, torn>>
      BY <1>2 DEF UpdateFails, Redis
    <3>2. faults' \in 0 .. MaxFaults
      BY <1>0, <3>1, PresenceAssumption DEF TypeOK
    <3> QED BY <3>1, <3>2
  <2>2. TypeOK'
    BY <1>0, <2>1, CallEndsFacts DEF TypeOK
  <2>3. KeysAgree'
    BY <2>1 DEF PresenceInv, KeysAgree
  <2> QED BY <2>1, <2>2, <2>3, UpdateEnds
<1> QED
  BY <1>1, <1>2, RefreshKeepsInv, ReadGeoKeepsInv, ReadLastPositionKeepsInv DEF UpdateStep

-----------------------------------------------------------------------------
(***************************************************************************)
(* Everything else.                                                        *)
(***************************************************************************)
LEMMA SocketKeepsInv ==
  ASSUME PresenceInv, Connect \/ Disconnect
  PROVE  PresenceInv'
<1>1. TypeOK'
  BY PresenceAssumption DEF Connect, Disconnect, PresenceInv, TypeOK, Redis, history
<1> QED BY <1>1, KeysTakenAway DEF Connect, Disconnect, Redis, history

\* The commands of removeDriver, which only take keys away.
LEMMA RemovalKeepsInv ==
  ASSUME PresenceInv, NEW i \in Removals, RemovalStep(i)
  PROVE  PresenceInv'
<1>1. TypeOK'
  BY DEF RemovalStep, RemoveFromGeo, RemovePresence, RemoveLastPosition, RemovalGoesTo,
         KeyGone, PresenceInv, TypeOK, history
<1> QED BY <1>1, KeysTakenAway DEF RemovalStep, RemoveFromGeo, RemovePresence,
        RemoveLastPosition, KeyGone, history

\* PATCH me/status at the backend, in both directions, and its failures.
LEMMA PatchKeepsInv ==
  ASSUME PresenceInv,
         PatchStep \/ PatchFails \/ (\E to \in {"ONLINE", "OFFLINE"} : UpdateStatus(to))
  PROVE  PresenceInv'
<1>1. TypeOK'
  <2>1. CASE PatchFails
    BY <2>1, PresenceAssumption DEF PatchFails, PresenceInv, TypeOK, Redis, history
  <2>2. CASE ~ PatchFails
    BY <2>2 DEF PatchStep, PatchOnline, PatchOffline, PatchRemoveFromGeo, UpdateStatus,
       KeyGone, PresenceInv, TypeOK, Redis, history
  <2> QED BY <2>1, <2>2
<1> QED BY <1>1, KeysTakenAway DEF PatchStep, PatchOnline, PatchOffline, PatchRemoveFromGeo,
        PatchFails, UpdateStatus, KeyGone, Redis, history

\* A key of Redis lapses.
LEMMA ExpiryKeepsInv ==
  ASSUME PresenceInv, PresenceExpires \/ LastPositionExpires
  PROVE  PresenceInv'
<1>1. TypeOK'
  BY DEF PresenceExpires, Expires, LastPositionExpires, KeyGone, PresenceInv, TypeOK, history
<1> QED BY <1>1, KeysTakenAway DEF PresenceExpires, LastPositionExpires, KeyGone, history

\* The process dies: its updates and removals are gone, Redis and the row stay.
LEMMA CrashKeepsInv == PresenceInv /\ Crash => PresenceInv'
<1> SUFFICES ASSUME PresenceInv, Crash PROVE PresenceInv'
  OBVIOUS
<1>1. TypeOK'
  BY PresenceAssumption DEF Crash, PresenceInv, TypeOK, Redis
<1>2. updates' = <<>> /\ UNCHANGED <<geo, lastpos, reported, torn>>
  BY DEF Crash, Redis
<1>3. missed \/ updates # <<>> => missed'
  BY DEF Crash
<1>4. KeysAgree' /\ NewestIsReported' /\ ThrottledIsNear'
  BY <1>2 DEF PresenceInv, KeysAgree, NewestIsReported, ThrottledIsNear
<1>5. OverlapIsKnown'
  BY <1>2 DEF OverlapIsKnown
<1>6. QuietIsNear'
  BY <1>2, <1>3 DEF PresenceInv, QuietIsNear, Near
<1> QED BY <1>1, <1>4, <1>5, <1>6 DEF PresenceInv

\* Nothing is in Redis at first.
LEMMA InitPresence == Init => PresenceInv
<1> SUFFICES ASSUME Init PROVE PresenceInv
  OBVIOUS
<1>1. updates \in Seq(Update) /\ Len(updates) = 0 /\ Len(updates) <= MaxUpdates
  BY PresenceAssumption DEF Init
<1>2. /\ geo \in Place \cup {Absent} /\ lastpos \in Place \cup {Absent}
      /\ reported \in Place \cup {Absent} /\ online \in BOOLEAN
      /\ missed \in BOOLEAN /\ torn \in BOOLEAN
      /\ patch \in {"idle", "setex", "del", "zrem"}
  BY DEF Init
<1>3. sessions \in 0 .. MaxSessions /\ faults \in 0 .. MaxFaults
  BY PresenceAssumption DEF Init
<1>4. removal \in [Removals -> {"idle", "zrem", "online", "lastpos"}]
  BY DEF Init
<1>5. TypeOK
  BY <1>1, <1>2, <1>4, <1>3 DEF TypeOK
<1> QED BY <1>1, <1>5 DEF Init, PresenceInv, KeysAgree, NewestIsReported, ThrottledIsNear,
        OverlapIsKnown, QuietIsNear

\* Whatever comes next keeps the invariant.
LEMMA NextPresence == PresenceInv /\ [Next]_vars => PresenceInv'
<1> SUFFICES ASSUME PresenceInv, [Next]_vars PROVE PresenceInv'
  OBVIOUS
<1>1. CASE UNCHANGED vars
  BY <1>1, KeysTakenAway DEF vars, Redis, history, PresenceInv, TypeOK
<1>2. CASE Next
  BY <1>2, SendKeepsInv, UpdateStepKeepsInv, SocketKeepsInv, RemovalKeepsInv, PatchKeepsInv,
     ExpiryKeepsInv, CrashKeepsInv DEF Next
<1> QED BY <1>1, <1>2

\* The inductive invariant holds in every behaviour: a driver that is quiet is near
\* its cached position (locations.service.ts:52-76).
THEOREM PresenceInvariance == Spec => []PresenceInv
  BY InitPresence, NextPresence, PTL DEF Spec

-----------------------------------------------------------------------------
\* What Redis, the handlers and the gateway can hold.
THEOREM PresenceTypeCorrect == Spec => []TypeOK
<1>1. PresenceInv => TypeOK
  BY DEF PresenceInv
<1> QED BY <1>1, PresenceInvariance, PTL

\* When no report is in flight, a search sees a driver nearer than the threshold
\* to the place its app sent last, unless that report failed in part or whole,
\* was throttled while an older one was being stored, or was throttled by a last
\* position that a half-done pipeline had left apart from the GEO member.
\* Throttled moves do not add up, and no removal, PATCH, lapsed key, failure or
\* restart moves the one key away from the other (locations.service.ts:52-76,
\* redis.service.ts:213-243).
THEOREM PositionsAreFresh == Spec => []PositionIsFresh
<1>1. PresenceInv => PositionIsFresh
  BY DEF PresenceInv, QuietIsNear, Near, PositionIsFresh, Fresh
<1> QED BY <1>1, PresenceInvariance, PTL
=============================================================================
