---------------------------- MODULE AccessProofs ----------------------------
(***************************************************************************)
(* What holds of Access for every set of people, submissions, admins and   *)
(* sockets, whatever fails and however often the process restarts.         *)
(***************************************************************************)
EXTENDS Access, TLAPS

-----------------------------------------------------------------------------
(***************************************************************************)
(* The registry.                                                           *)
(***************************************************************************)

\* The life of a socket: it has an owner once it connected, and is validated
\* before it is attached.
LifeInv == \A s \in Socket :
    /\ link[s] = "unused" <=> owner[s] = None
    /\ s \in validating \cup attached => owner[s] # None
    /\ s \in validating => s \notin attached
    /\ s \in validating => link[s] = "open" \/ s \in cutOff

\* What the Map of clients holds was attached.
ClientsInv == ConnectedClientsAreLive /\ connectedClients \subseteq attached

\* A registered socket is not one that was let in without a profile, so its
\* disconnect clears the key.
RegistryInv ==
    /\ RegisteredSocketIsOwn
    /\ \A u \in User : registered[u] # None => registered[u] \notin profileless

\* A user whose sessions follow each other has one at a time.
CleanInv == \A u \in clean :
    /\ \A s, t \in SocketsOf(u) : ~ IsOver(s) /\ ~ IsOver(t) => s = t
    /\ \A s \in SocketsOf(u) : s \in validating => link[s] = "open"

SessionInv ==
    TypeOK /\ LifeInv /\ ClientsInv /\ RegistryInv /\ CleanInv /\ CleanSessionIsReachable

\* Nobody is connected at first.
LEMMA SessionInit == Init => SessionInv
  BY SessionAssumption
  DEF Init, SessionInv, TypeOK, LifeInv, ClientsInv, ConnectedClientsAreLive, RegistryInv,
      RegisteredSocketIsOwn, CleanInv, CleanSessionIsReachable, SocketsOf, IsOver, Live

\* A socket opens.
LEMMA ConnectKeeps ==
  ASSUME SessionInv, NEW s \in Socket, NEW u \in User, Connect(s, u)
  PROVE  SessionInv'
<1> USE SessionAssumption DEF SessionInv, Connect
<1>1. TypeOK'
  BY DEF TypeOK
<1>2. s \notin validating \cup attached \cup connectedClients
  BY DEF TypeOK, LifeInv, ClientsInv
<1>3. LifeInv'
  BY <1>2 DEF TypeOK, LifeInv
<1>4. ClientsInv'
  BY <1>2 DEF TypeOK, ClientsInv, ConnectedClientsAreLive, Live
<1>5. RegistryInv'
  BY <1>2 DEF TypeOK, RegistryInv, RegisteredSocketIsOwn, Live
<1>6. ASSUME NEW v \in clean'
      PROVE  /\ v # u => v \in clean /\ SocketsOf(v)' = SocketsOf(v)
             /\ v = u => \A t \in SocketsOf(u) : IsOver(t)
             /\ SocketsOf(u)' = SocketsOf(u) \cup {s}
  BY <1>2 DEF TypeOK, LifeInv, SocketsOf
<1>7. \A t \in Socket : t # s => link'[t] = link[t] /\ (t \in validating' <=> t \in validating)
  BY DEF TypeOK
<1>8. CleanInv'
  BY <1>2, <1>6, <1>7 DEF TypeOK, CleanInv, IsOver, SocketsOf
<1>9. CleanSessionIsReachable'
  <2> SUFFICES ASSUME NEW v \in clean'
               PROVE  /\ \A t \in SocketsOf(v)' : Live(t)' => registered'[v] = t
                      /\ SocketsOf(v)' \cap validating' = {} =>
                            registered'[v] = None \/ link'[registered'[v]] = "open"
    BY DEF CleanSessionIsReachable
  <2>1. CASE v = u
    BY <1>2, <1>6, <1>7, <2>1 DEF TypeOK, IsOver, Live, SocketsOf
  <2>2. CASE v # u
    <3>1. v \in clean /\ SocketsOf(v)' = SocketsOf(v) /\ s \notin SocketsOf(v)
      BY <1>6, <2>2 DEF SocketsOf, TypeOK, LifeInv
    <3>2. registered[v] # None => registered[v] # s
      BY <1>2, <3>1 DEF TypeOK, RegistryInv, RegisteredSocketIsOwn
    <3> QED BY <1>7, <3>1, <3>2 DEF TypeOK, CleanSessionIsReachable, Live, SocketsOf
  <2> QED BY <2>1, <2>2
<1> QED BY <1>1, <1>3, <1>4, <1>5, <1>8, <1>9

\* The handshake ends: the socket takes the place of an older one.
LEMMA AttachKeeps ==
  ASSUME SessionInv, NEW s \in Socket, Authenticated(s) \/ AuthenticatedWithoutProfile(s)
  PROVE  SessionInv'
<1> USE SessionAssumption DEF SessionInv, Authenticated, AuthenticatedWithoutProfile, Attach, Register
<1>1. owner[s] \in User /\ s \notin attached
  BY DEF TypeOK, LifeInv
<1>2. TypeOK'
  BY <1>1 DEF TypeOK
<1>3. LifeInv'
  BY DEF LifeInv
<1>4. ClientsInv'
  BY DEF ClientsInv, ConnectedClientsAreLive, LifeInv, Live
<1>5. RegistryInv'
  <2>1. CASE Authenticated(s)
    BY <1>1, <2>1 DEF TypeOK, RegistryInv, RegisteredSocketIsOwn, LifeInv, Live
  <2>2. CASE AuthenticatedWithoutProfile(s)
    BY <1>1, <2>2 DEF TypeOK, RegistryInv, RegisteredSocketIsOwn, Live
  <2> QED BY <2>1, <2>2
<1>6. clean' \subseteq clean /\ \A v \in User : SocketsOf(v)' = SocketsOf(v)
  BY DEF SocketsOf
<1>7. CleanInv'
  BY <1>6 DEF TypeOK, CleanInv, IsOver, SocketsOf
<1>8. CleanSessionIsReachable'
  <2> SUFFICES ASSUME NEW v \in clean'
               PROVE  /\ \A t \in SocketsOf(v)' : Live(t)' => registered'[v] = t
                      /\ SocketsOf(v)' \cap validating' = {} =>
                            registered'[v] = None \/ link'[registered'[v]] = "open"
    BY DEF CleanSessionIsReachable
  <2>1. v \in clean /\ v \in User /\ SocketsOf(v)' = SocketsOf(v)
    BY <1>6 DEF TypeOK
  <2>2. CASE v = owner[s]
    <3>1. Authenticated(s) /\ registered'[v] = s
      BY <1>1, <2>2 DEF TypeOK
    <3>2. link[s] = "open" /\ s \in SocketsOf(v)
      BY <2>1, <2>2 DEF CleanInv, SocketsOf
    <3>3. ASSUME NEW t \in SocketsOf(v), link[t] = "open" PROVE t = s
      BY <2>1, <3>2, <3>3 DEF CleanInv, IsOver
    <3> QED BY <2>1, <3>1, <3>2, <3>3 DEF Live
  <2>3. CASE v # owner[s]
    <3>1. registered'[v] = registered[v] /\ s \notin SocketsOf(v)
      BY <2>1, <2>3 DEF TypeOK, SocketsOf
    <3> QED BY <2>1, <3>1 DEF CleanSessionIsReachable, Live, SocketsOf
  <2> QED BY <2>2, <2>3
<1> QED BY <1>2, <1>3, <1>4, <1>5, <1>7, <1>8

\* A close that leaves registered as it is, of a socket that was validating.
LEMMA CutShortKeeps ==
  ASSUME SessionInv, NEW s \in Socket, AuthenticationFails(s) \/ DisconnectEarly(s)
  PROVE  SessionInv'
<1> USE SessionAssumption DEF SessionInv, AuthenticationFails, DisconnectEarly, Closes
<1>1. owner[s] \in User /\ s \notin attached /\ s \in validating
  BY DEF TypeOK, LifeInv
<1>2. TypeOK'
  BY DEF TypeOK
<1>3. LifeInv'
  BY <1>1 DEF TypeOK, LifeInv
<1>4. ClientsInv'
  BY <1>1 DEF TypeOK, ClientsInv, ConnectedClientsAreLive, Live
<1>5. RegistryInv'
  BY <1>1 DEF TypeOK, RegistryInv, RegisteredSocketIsOwn, Live
<1>6. ASSUME NEW v \in clean'
      PROVE  /\ v \in clean
             /\ v \in User
             /\ SocketsOf(v)' = SocketsOf(v)
             /\ s \notin SocketsOf(v)
  BY DEF TypeOK, SocketsOf
<1>7. \A t \in Socket : t # s => link'[t] = link[t] /\ (t \in validating' <=> t \in validating)
  BY DEF TypeOK
<1>8. CleanInv'
  BY <1>6, <1>7 DEF CleanInv, IsOver, SocketsOf
<1>9. ASSUME NEW v \in clean'
      PROVE  /\ \A t \in SocketsOf(v)' : Live(t)' => registered'[v] = t
             /\ SocketsOf(v)' \cap validating' = {} =>
                   registered'[v] = None \/ link'[registered'[v]] = "open"
  <2>1. registered[v] # None => registered[v] \in Socket /\ registered[v] # s
    BY <1>1, <1>6 DEF TypeOK, RegistryInv, RegisteredSocketIsOwn
  <2> QED BY <1>6, <1>7, <2>1 DEF CleanSessionIsReachable, Live, SocketsOf
<1>10. CleanSessionIsReachable'
  BY <1>9 DEF CleanSessionIsReachable
<1> QED BY <1>2, <1>3, <1>4, <1>5, <1>8, <1>10

\* A socket closes, after its place may have been taken.
LEMMA DisconnectKeeps ==
  ASSUME SessionInv, NEW s \in Socket, Disconnect(s)
  PROVE  SessionInv'
<1> USE SessionAssumption
    DEF SessionInv, Disconnect, Closes, KeepRegistered, Unregister, ForgetClient
<1>1. owner[s] \in User /\ s \notin validating /\ s \in attached
  BY DEF TypeOK, LifeInv
<1>2. TypeOK'
  BY <1>1 DEF TypeOK
<1>3. LifeInv'
  BY <1>1 DEF TypeOK, LifeInv
<1>4. ClientsInv'
  BY <1>1 DEF TypeOK, ClientsInv, ConnectedClientsAreLive, Live
<1>5. ASSUME NEW u \in User, registered'[u] # None
      PROVE  registered'[u] = registered[u] /\ registered[u] # s
  BY <1>1, <1>5 DEF TypeOK, RegistryInv, RegisteredSocketIsOwn
<1>6. RegistryInv'
  BY <1>5 DEF TypeOK, RegistryInv, RegisteredSocketIsOwn, Live
<1>7. \A t \in Socket : t # s => link'[t] = link[t]
  BY DEF TypeOK
<1>8. \A v \in User : SocketsOf(v)' = SocketsOf(v)
  BY DEF SocketsOf
<1>9. CleanInv'
  BY <1>1, <1>7, <1>8 DEF TypeOK, CleanInv, IsOver, SocketsOf
<1>10. ASSUME NEW v \in clean
       PROVE  /\ \A t \in SocketsOf(v) : Live(t)' => registered'[v] = t
              /\ SocketsOf(v) \cap validating = {} =>
                    registered'[v] = None \/ link'[registered'[v]] = "open"
  <2>1. v \in User
    BY DEF TypeOK
  <2>2. ASSUME NEW t \in SocketsOf(v), Live(t)' PROVE registered'[v] = t
    <3>1. t # s /\ Live(t) /\ t \in Socket
      BY <1>7, <2>2 DEF Live, SocketsOf, TypeOK
    <3>2. owner[s] # v
      BY <1>1, <3>1 DEF CleanInv, IsOver, Live, SocketsOf
    <3> QED BY <2>1, <3>1, <3>2 DEF CleanSessionIsReachable, TypeOK
  <2>3. registered'[v] # None => registered[v] \in Socket /\ link'[registered'[v]] = link[registered[v]]
    BY <1>5, <1>7, <2>1 DEF TypeOK
  <2> QED BY <1>5, <2>1, <2>2, <2>3 DEF CleanSessionIsReachable
<1>11. CleanSessionIsReachable'
  BY <1>8, <1>10 DEF CleanSessionIsReachable, TypeOK
<1> QED BY <1>2, <1>3, <1>4, <1>6, <1>9, <1>11

\* The process dies with every socket.
LEMMA CrashKeeps == SessionInv /\ Crash => SessionInv'
<1> SUFFICES ASSUME SessionInv, Crash PROVE SessionInv'
  OBVIOUS
<1> USE SessionAssumption DEF SessionInv, Crash
<1>1. TypeOK'
  BY DEF TypeOK
<1>2. LifeInv'
  BY DEF TypeOK, LifeInv
<1>3. ClientsInv' /\ RegistryInv'
  BY DEF TypeOK, ClientsInv, ConnectedClientsAreLive, RegistryInv, RegisteredSocketIsOwn, Live
<1>4. CleanInv' /\ CleanSessionIsReachable'
  BY DEF TypeOK, LifeInv, CleanInv, CleanSessionIsReachable, IsOver, Live, SocketsOf
<1> QED BY <1>1, <1>2, <1>3, <1>4

\* Every step keeps the invariant of sessions.
LEMMA SessionStep == SessionInv /\ [Next]_vars => SessionInv'
<1>1. SessionInv /\ UNCHANGED vars => SessionInv'
  BY DEF vars, SessionInv, TypeOK, LifeInv, ClientsInv, ConnectedClientsAreLive, RegistryInv,
         RegisteredSocketIsOwn, CleanInv, CleanSessionIsReachable, SocketsOf, IsOver, Live
<1> QED
  BY <1>1, ConnectKeeps, AttachKeeps, CutShortKeeps, DisconnectKeeps, CrashKeeps DEF Next

\* Whatever the accounts do, their sockets take the steps of WsSessions.
LEMMA SocketsTakeSessionSteps == [AccessNext]_<<vars, accounts>> => [Next]_vars
  BY DEF AccessNext, Next, OpensSocket, FindsProfile, FindsNoProfile, IsTurnedAway, Restart

\* It holds in every behaviour.
LEMMA SessionInvariance == AccessSpec => []SessionInv
<1>1. AccessInit => SessionInv
  BY SessionInit DEF AccessInit
<1>2. SessionInv /\ [AccessNext]_<<vars, accounts>> => SessionInv'
  BY SessionStep, SocketsTakeSessionSteps
<1> QED BY <1>1, <1>2, PTL DEF AccessSpec

\* An offer goes to a socket of the driver it is for, open unless it closed
\* while handleConnection was waiting (ws.gateway.ts:141-147).
THEOREM RegistryIsOwn == AccessSpec => []RegisteredSocketIsOwn
<1>1. SessionInv => RegisteredSocketIsOwn
  BY DEF SessionInv, RegistryInv
<1> QED BY <1>1, SessionInvariance, PTL

\* The Map of clients holds every live socket and leaks only those that closed
\* while handleConnection was waiting (ws.gateway.ts:136, 176).
THEOREM ClientsAreLive == AccessSpec => []ConnectedClientsAreLive
<1>1. SessionInv => ConnectedClientsAreLive
  BY DEF SessionInv, ClientsInv
<1> QED BY <1>1, SessionInvariance, PTL

\* Sessions that follow each other leave the registry exact
\* (ws.gateway.ts:141-147, 161-174).
THEOREM CleanIsReachable == AccessSpec => []CleanSessionIsReachable
<1>1. SessionInv => CleanSessionIsReachable
  BY DEF SessionInv
<1> QED BY <1>1, SessionInvariance, PTL
-----------------------------------------------------------------------------
(***************************************************************************)
(* The accounts.                                                           *)
(***************************************************************************)
Inserted(h) == registration[h].stage \in {"profile", "done"}

\* A registration that inserted its user did so alone, and the row is what it
\* asked for; the row of a driver's profile comes after.
RegistrationInv ==
    /\ RegisterOnce
    /\ SuccessMeansComplete
    /\ \A h \in Attempt :
          /\ Inserted(h) => account[registration[h].user] = registration[h].role
          /\ Stands(h, "profile") => profile[registration[h].user] = "none"
    /\ \A u \in Person : account[u] = "none" => profile[u] = "none"

\* Whoever holds a token has a row.
TokensInv == \A u \in tokens : account[u] # "none"

\* A review is of a driver with a profile, and of none whose verdict is final.
ReviewInv ==
    /\ \A review \in reviews : profile[review.driver] # "none" /\ review.driver \notin settled
    /\ \A u \in settled : profile[u] \in Verdicts

AccountsInv == AccountsTypeOK /\ RegistrationInv /\ TokensInv /\ ReviewInv

\* No step takes a row, its role or its profile away, or undoes a final verdict.
RowsStay == \A u \in Person :
    /\ account[u] # "none" => account'[u] = account[u]
    /\ profile[u] # "none" => profile'[u] # "none"
    /\ u \in settled => profile'[u] = profile[u]

\* There is no account at first.
LEMMA AccountsStart == AccountsInit => AccountsInv
  BY DEF AccountsInit, AccountsInv, AccountsTypeOK, RegistrationInv, RegisterOnce,
         SuccessMeansComplete, Inserted, Stands, TokensInv, ReviewInv,
         Registration, RegStages, Roles, Review, Verdicts

\* A handler of register moves on to its next stage.
LEMMA StageFacts ==
  ASSUME AccountsTypeOK, NEW h \in Attempt, NEW stage \in RegStages, GoesTo(h, stage)
  PROVE  /\ registration' \in [Attempt -> Registration]
         /\ registration'[h].stage = stage
         /\ \A k \in Attempt :
               /\ k # h => registration'[k] = registration[k]
               /\ registration'[k].user = registration[k].user
               /\ registration'[k].role = registration[k].role
  BY DEF AccountsTypeOK, GoesTo, Registration

\* What a registration carries.
LEMMA FormFacts ==
  ASSUME AccountsTypeOK, NEW h \in Attempt
  PROVE  /\ registration[h].user \in Person
         /\ registration[h].role \in {"RIDER", "DRIVER"}
         /\ registration[h].stage \in RegStages
  BY DEF AccountsTypeOK, Registration, Roles

\* The rows stay as they are: the look-up of the email, or a failure.
LEMMA RegistrationOnlyKeeps ==
  ASSUME AccountsInv, NEW h \in Attempt, CheckEmail(h) \/ RegisterFails(h)
  PROVE  AccountsInv' /\ RowsStay
<1> USE DEF AccountsInv, CheckEmail, RegisterFails, approval
<1>1. PICK stage \in {"hashing", "failed"} : GoesTo(h, stage)
  OBVIOUS
<1>2. stage \in RegStages
  BY DEF RegStages
<1>3. AccountsTypeOK'
  BY <1>1, <1>2, StageFacts DEF AccountsTypeOK
<1>4. \A k \in Attempt : registration'[k].stage \in {"profile", "done"} =>
         registration'[k] = registration[k]
  BY <1>1, <1>2, StageFacts
<1>5. RegistrationInv'
  BY <1>4 DEF RegistrationInv, RegisterOnce, SuccessMeansComplete, Inserted, Stands
<1>6. TokensInv' /\ ReviewInv' /\ RowsStay
  BY DEF TokensInv, ReviewInv, RowsStay
<1> QED BY <1>3, <1>5, <1>6

\* The row of the user is written, and the token given to a rider.
LEMMA CreateUserKeeps ==
  ASSUME AccountsInv, NEW h \in Attempt, CreateUser(h)
  PROVE  AccountsInv' /\ RowsStay
<1> DEFINE u == registration[h].user
           role == registration[h].role
<1> USE DEF AccountsInv, CreateUser, approval
<1>1. PICK stage \in {"profile", "done"} :
         /\ GoesTo(h, stage)
         /\ stage = "profile" <=> role = "DRIVER"
         /\ tokens' \subseteq tokens \cup {u}
  BY DEF SignsIn
<1>2. stage \in RegStages /\ u \in Person /\ role \in {"RIDER", "DRIVER"}
  BY <1>1, FormFacts DEF RegStages
<1>3. /\ account' = [account EXCEPT ![u] = role]
      /\ account[u] = "none"
      /\ profile[u] = "none"
      /\ UNCHANGED <<profile, listed, reviews, settled>>
  BY <1>2 DEF Insert, RegistrationInv
<1>4. AccountsTypeOK'
  BY <1>1, <1>2, <1>3, StageFacts DEF AccountsTypeOK, Roles
<1>5. /\ registration'[h].stage = stage
      /\ registration'[h].user = u
      /\ registration'[h].role = role
      /\ \A k \in Attempt : k # h => registration'[k] = registration[k]
  BY <1>1, <1>2, StageFacts
<1>6. \A k \in Attempt : registration[k].stage \in {"profile", "done"} => registration[k].user # u
  BY <1>2, <1>3, FormFacts DEF RegistrationInv, Inserted
<1>7. \A v \in Person : account'[v] = IF v = u THEN role ELSE account[v]
  BY <1>2, <1>3 DEF AccountsTypeOK
<1>8. RegisterOnce'
  BY <1>5, <1>6 DEF RegistrationInv, RegisterOnce
<1>9. SuccessMeansComplete'
  <2> SUFFICES ASSUME NEW k \in Attempt, registration'[k].stage = "done"
               PROVE  /\ account'[registration'[k].user] = registration'[k].role
                      /\ registration'[k].role = "DRIVER" => profile'[registration'[k].user] # "none"
    BY DEF SuccessMeansComplete, Stands
  <2>1. CASE k = h
    BY <1>1, <1>2, <1>5, <1>7, <2>1
  <2>2. CASE k # h
    BY <1>3, <1>5, <1>6, <1>7, <2>2, FormFacts DEF RegistrationInv, SuccessMeansComplete, Stands
  <2> QED BY <2>1, <2>2
<1>10. ASSUME NEW k \in Attempt
       PROVE  /\ Inserted(k)' => account'[registration'[k].user] = registration'[k].role
              /\ Stands(k, "profile")' => profile'[registration'[k].user] = "none"
  <2>1. CASE k = h
    BY <1>2, <1>3, <1>5, <1>7, <2>1 DEF Inserted, Stands
  <2>2. CASE k # h
    BY <1>3, <1>5, <1>6, <1>7, <2>2, FormFacts DEF RegistrationInv, Inserted, Stands
  <2> QED BY <2>1, <2>2
<1>11. \A v \in Person : account'[v] = "none" => profile'[v] = "none"
  BY <1>2, <1>3, <1>7 DEF RegistrationInv
<1>12. RegistrationInv'
  BY <1>8, <1>9, <1>10, <1>11 DEF RegistrationInv
<1>13. TokensInv'
  BY <1>1, <1>2, <1>7 DEF TokensInv, AccountsTypeOK
<1>14. ReviewInv' /\ RowsStay
  BY <1>3, <1>7 DEF ReviewInv, RowsStay
<1> QED BY <1>4, <1>12, <1>13, <1>14

\* The row of the driver's profile is written.
LEMMA CreateProfileKeeps ==
  ASSUME AccountsInv, NEW h \in Attempt, CreateProfile(h)
  PROVE  AccountsInv' /\ RowsStay
<1> DEFINE u == registration[h].user
<1> USE DEF AccountsInv, CreateProfile, approval
<1>1. "done" \in RegStages /\ u \in Person
  BY FormFacts DEF RegStages
<1>2. /\ profile' = [profile EXCEPT ![u] = "PENDING"]
      /\ profile[u] = "none"
      /\ account[u] = registration[h].role
      /\ account[u] # "none"
      /\ tokens' = tokens \cup {u}
      /\ UNCHANGED <<account, listed, reviews, settled>>
  BY <1>1, FormFacts DEF RegistrationInv, Inserted, Stands, SignsIn
<1>3. AccountsTypeOK'
  BY <1>1, <1>2, StageFacts DEF AccountsTypeOK
<1>4. /\ registration'[h].stage = "done"
      /\ registration'[h].user = u
      /\ registration'[h].role = registration[h].role
      /\ \A k \in Attempt : k # h => registration'[k] = registration[k]
  BY <1>1, StageFacts
<1>5. \A k \in Attempt : k # h /\ Inserted(k) => registration[k].user # u
  BY DEF RegistrationInv, RegisterOnce, Inserted, Stands
<1>6. \A v \in Person : profile'[v] = IF v = u THEN "PENDING" ELSE profile[v]
  BY <1>1, <1>2 DEF AccountsTypeOK
<1>7. RegisterOnce'
  BY <1>4, <1>5 DEF RegistrationInv, RegisterOnce, Inserted
<1>8. SuccessMeansComplete'
  BY <1>1, <1>2, <1>4, <1>6, FormFacts DEF RegistrationInv, SuccessMeansComplete, Stands
<1>9. RegistrationInv'
  BY <1>1, <1>2, <1>4, <1>5, <1>6, <1>7, <1>8, FormFacts DEF RegistrationInv, Inserted, Stands
<1>10. TokensInv'
  BY <1>2 DEF TokensInv
<1>11. ReviewInv' /\ RowsStay
  BY <1>1, <1>2, <1>6 DEF ReviewInv, RowsStay, AccountsTypeOK, Review, Verdicts
<1> QED BY <1>3, <1>9, <1>10, <1>11

\* Steps of the browsers: the rows and the registrations stay as they are.
LEMMA BrowserKeeps ==
  ASSUME AccountsInv,
         \/ \E u \in Person : Login(u) \/ Logout(u)
         \/ \E a \in Admin, filter \in Verdicts \cup {"PENDING"} : LoadDrivers(a, filter)
         \/ \E a \in Admin, u \in Person, verdict \in Verdicts : ReviewDriver(a, u, verdict)
  PROVE  AccountsInv' /\ RowsStay
<1> USE DEF AccountsInv, approval
<1>1. UNCHANGED <<account, profile, registration, settled>>
  BY DEF Login, Logout, LoadDrivers, ReviewDriver, BeginReview
<1>2. RegistrationInv' /\ RowsStay
  BY <1>1 DEF RegistrationInv, RegisterOnce, SuccessMeansComplete, Inserted, Stands, RowsStay
<1>3. ASSUME NEW u \in Person, Login(u) \/ Logout(u) PROVE AccountsInv'
  BY <1>2, <1>3 DEF Login, Logout, SignsIn, SignsOut, AccountsTypeOK, TokensInv, ReviewInv
<1>4. ASSUME NEW a \in Admin, NEW filter \in Verdicts \cup {"PENDING"}, LoadDrivers(a, filter)
      PROVE  AccountsInv'
  BY <1>2, <1>4 DEF LoadDrivers, Pending, AccountsTypeOK, TokensInv, ReviewInv
<1>5. ASSUME NEW a \in Admin, NEW u \in Person, NEW verdict \in Verdicts, ReviewDriver(a, u, verdict)
      PROVE  AccountsInv'
  <2>1. reviews' = reviews \cup {[admin |-> a, driver |-> u, verdict |-> verdict]}
    BY <1>5 DEF ReviewDriver, BeginReview
  <2>2. profile[u] = "PENDING" /\ u \notin settled
    BY <1>5 DEF ReviewDriver, ReviewInv, Verdicts
  <2>3. AccountsTypeOK'
    BY <1>5, <2>1 DEF ReviewDriver, BeginReview, AccountsTypeOK, Review
  <2>4. TokensInv' /\ ReviewInv'
    BY <1>5, <2>1, <2>2 DEF ReviewDriver, BeginReview, TokensInv, ReviewInv
  <2> QED BY <1>2, <2>3, <2>4
<1> QED BY <1>2, <1>3, <1>4, <1>5

\* An admin's verdict is written, or fails.
LEMMA ReviewEndKeeps ==
  ASSUME AccountsInv, NEW review \in reviews, WriteVerdict(review) \/ ReviewFails(review)
  PROVE  AccountsInv' /\ RowsStay
<1> USE DEF AccountsInv, WriteVerdict, ReviewFails
<1>1. review.driver \in Person /\ review.verdict \in Verdicts
  BY DEF AccountsTypeOK, Review
<1>2. /\ profile[review.driver] # "none"
      /\ review.driver \notin settled
      /\ account[review.driver] # "none"
  BY <1>1 DEF ReviewInv, RegistrationInv
<1>3. \A v \in Person : profile'[v] = profile[v] \/ (v = review.driver /\ profile'[v] \in Verdicts)
  BY <1>1 DEF AccountsTypeOK
<1>4. /\ reviews' = reviews \ {review}
      /\ settled' = settled \cup {u \in Person :
            profile'[u] \in Verdicts /\ \A other \in reviews' : other.driver # u}
      /\ UNCHANGED <<account, registration, tokens, listed>>
  BY DEF ReviewEnds
<1>5. "none" \notin Verdicts
  BY DEF Verdicts
<1>6. profile' \in [Person -> Verdicts \cup {"PENDING", "none"}]
  BY <1>1 DEF AccountsTypeOK
<1>7. AccountsTypeOK'
  BY <1>4, <1>6 DEF AccountsTypeOK
<1>8. RowsStay
  BY <1>2, <1>3, <1>4, <1>5 DEF RowsStay
<1>9. \A h \in Attempt : Stands(h, "profile") => registration[h].user # review.driver
  BY <1>2 DEF RegistrationInv
<1>10. RegistrationInv'
  BY <1>2, <1>3, <1>4, <1>5, <1>9, FormFacts
  DEF RegistrationInv, RegisterOnce, SuccessMeansComplete, Inserted, Stands
<1>11. TokensInv'
  BY <1>4 DEF TokensInv
<1>12. ReviewInv'
  <2>1. \A other \in reviews' : profile'[other.driver] # "none" /\ other.driver \notin settled'
    BY <1>3, <1>4, <1>5 DEF ReviewInv, AccountsTypeOK, Review
  <2>2. \A u \in settled' : profile'[u] \in Verdicts
    BY <1>2, <1>3, <1>4 DEF ReviewInv, AccountsTypeOK
  <2> QED BY <2>1, <2>2 DEF ReviewInv
<1> QED BY <1>7, <1>8, <1>10, <1>11, <1>12

\* The process restarts: registrations and reviews are gone, rows stay.
LEMMA RestartKeeps == AccountsInv /\ Restart => AccountsInv' /\ RowsStay
<1> SUFFICES ASSUME AccountsInv, Restart PROVE AccountsInv' /\ RowsStay
  OBVIOUS
<1> USE DEF AccountsInv, Restart
<1>1. registration' \in [Attempt -> Registration]
  BY Zenon DEF AccountsTypeOK, Registration, RegStages
<1>2. \A h \in Attempt : registration'[h] = registration[h] \/ registration'[h].stage = "failed"
  BY DEF AccountsTypeOK, Registration
<1>3. AccountsTypeOK'
  BY <1>1 DEF AccountsTypeOK
<1>4. RegistrationInv'
  BY <1>2 DEF RegistrationInv, RegisterOnce, SuccessMeansComplete, Inserted, Stands
<1>5. TokensInv' /\ ReviewInv' /\ RowsStay
  BY DEF TokensInv, ReviewInv, RowsStay
<1> QED BY <1>3, <1>4, <1>5

\* Every step keeps the invariant of accounts.
LEMMA AccountsStep == AccountsInv /\ [AccessNext]_<<vars, accounts>> => AccountsInv' /\ RowsStay
<1> SUFFICES ASSUME AccountsInv, [AccessNext]_<<vars, accounts>> PROVE AccountsInv' /\ RowsStay
  OBVIOUS
<1>1. CASE AccountsNext
  BY <1>1, RegistrationOnlyKeeps, CreateUserKeeps, CreateProfileKeeps, BrowserKeeps, ReviewEndKeeps
  DEF AccountsNext
<1>2. CASE UNCHANGED accounts
  BY <1>2 DEF accounts, approval, AccountsInv, AccountsTypeOK, RegistrationInv, RegisterOnce,
              SuccessMeansComplete, Inserted, Stands, TokensInv, ReviewInv, RowsStay
<1>3. ASSUME NEW s \in Socket, IsTurnedAway(s) PROVE AccountsInv' /\ RowsStay
  <2>1. tokens' \subseteq tokens /\ UNCHANGED <<account, profile, registration, approval>>
    BY <1>3 DEF IsTurnedAway, SignsOut
  <2> QED
    BY <2>1 DEF approval, AccountsInv, AccountsTypeOK, RegistrationInv, RegisterOnce,
                SuccessMeansComplete, Inserted, Stands, TokensInv, ReviewInv, RowsStay
<1>4. CASE Restart
  BY <1>4, RestartKeeps
<1> QED
  BY <1>1, <1>2, <1>3, <1>4 DEF AccessNext, OpensSocket, FindsProfile, FindsNoProfile

-----------------------------------------------------------------------------
(***************************************************************************)
(* Accounts and sockets together.                                          *)
(***************************************************************************)

\* The sockets were opened with a token, so their owners have rows.
OwnersInv ==
    /\ \A s \in Socket : owner[s] # None => account[owner[s]] # "none"
    /\ DriverSocketNeedsProfile

AccessInv == SessionInv /\ AccountsInv /\ OwnersInv

\* The two together, at first ...
LEMMA AccessStart == AccessInit => AccessInv
  BY SessionInit, AccountsStart
  DEF AccessInit, AccessInv, OwnersInv, DriverSocketNeedsProfile, Init

\* ... of who owns a session ...
LEMMA OwnersStep == AccessInv /\ [AccessNext]_<<vars, accounts>> => OwnersInv'
<1> SUFFICES ASSUME AccessInv, [AccessNext]_<<vars, accounts>> PROVE OwnersInv'
  OBVIOUS
<1> USE AccessAssumption, SessionAssumption DEF AccessInv
<1>1. RowsStay
  BY AccountsStep
<1>2. ASSUME NEW u \in User, account[u] # "none"
      PROVE  account'[u] # "none" /\ (HasProfile(u) => HasProfile(u)')
  BY <1>1, <1>2 DEF RowsStay, HasProfile
<1>3. TypeOK /\ AccountsTypeOK
  BY DEF SessionInv, AccountsInv
<1>4. ASSUME NEW s \in Socket, owner'[s] # None PROVE account'[owner'[s]] # "none"
  <2>1. CASE owner'[s] = owner[s]
    BY <1>2, <1>3, <1>4, <2>1 DEF OwnersInv, TypeOK
  <2>2. CASE owner'[s] # owner[s]
    <3>1. PICK t \in Socket, u \in User : OpensSocket(t, u)
      BY <2>2 DEF AccessNext, vars, FindsProfile, FindsNoProfile, IsTurnedAway, Restart,
                  Authenticated, AuthenticatedWithoutProfile, Attach, AuthenticationFails,
                  Disconnect, DisconnectEarly, Crash
    <3>2. owner'[s] = u /\ u \in tokens
      BY <1>3, <2>2, <3>1 DEF OpensSocket, Connect, TypeOK
    <3> QED BY <1>2, <3>2 DEF AccountsInv, TokensInv
  <2> QED BY <2>1, <2>2
<1>5. ASSUME NEW u \in User, registered'[u] # None
      PROVE  account'[u] # "none" /\ HasProfile(u)'
  <2>1. CASE registered'[u] = registered[u]
    BY <1>2, <1>5, <2>1 DEF OwnersInv, DriverSocketNeedsProfile
  <2>2. CASE registered'[u] # registered[u]
    <3>1. PICK s \in Socket : FindsProfile(s)
      BY <1>3, <1>5, <2>2
      DEF AccessNext, vars, OpensSocket, FindsNoProfile, IsTurnedAway, Restart,
          Connect, AuthenticatedWithoutProfile, AuthenticationFails, Disconnect,
          KeepRegistered, Unregister, DisconnectEarly, Crash, TypeOK
    <3>2. u = owner[s]
      BY <1>3, <2>2, <3>1 DEF FindsProfile, Authenticated, Register, TypeOK
    <3> QED BY <1>2, <3>1, <3>2 DEF FindsProfile, OwnersInv
  <2> QED BY <2>1, <2>2
<1>6. \A u \in User : registered'[u] # None => registered'[u] \notin profileless'
  BY SessionStep, SocketsTakeSessionSteps DEF SessionInv, RegistryInv
<1> QED BY <1>4, <1>5, <1>6 DEF OwnersInv, DriverSocketNeedsProfile

\* ... and in every behaviour.
LEMMA AccessInvariance == AccessSpec => []AccessInv
<1>1. AccessInv /\ [AccessNext]_<<vars, accounts>> => AccessInv'
  BY SessionStep, SocketsTakeSessionSteps, AccountsStep, OwnersStep DEF AccessInv
<1> QED BY <1>1, AccessStart, PTL DEF AccessSpec

\* Type correctness: sockets, rows, handlers and pages.
THEOREM AccessTypeCorrect == AccessSpec => []AccessTypeOK
<1>1. AccessInv => AccessTypeOK
  BY DEF AccessInv, SessionInv, AccountsInv, AccessTypeOK
<1> QED BY <1>1, AccessInvariance, PTL

\* Of all registrations of one email one inserts its user (auth.service.ts:36-48).
THEOREM RegistersOnce == AccessSpec => []RegisterOnce
<1>1. AccessInv => RegisterOnce
  BY DEF AccessInv, AccountsInv, RegistrationInv
<1> QED BY <1>1, AccessInvariance, PTL

\* A registration that succeeded left all of its rows (auth.service.ts:57).
THEOREM SuccessIsComplete == AccessSpec => []SuccessMeansComplete
<1>1. AccessInv => SuccessMeansComplete
  BY DEF AccessInv, AccountsInv, RegistrationInv
<1> QED BY <1>1, AccessInvariance, PTL

\* A driver's registered socket is one of a driver with a profile
\* (ws.gateway.ts:141).
THEOREM RegisteredDriversHaveProfiles == AccessSpec => []DriverSocketNeedsProfile
<1>1. AccessInv => DriverSocketNeedsProfile
  BY DEF AccessInv, OwnersInv
<1> QED BY <1>1, AccessInvariance, PTL

\* A verdict that no review in flight can replace is final
\* (drivers.service.ts:272).
THEOREM VerdictIsFinal == AccessSpec => VerdictStands
<1>1. AccessInv /\ [AccessNext]_<<vars, accounts>> =>
         [\A u \in settled : profile'[u] = profile[u]]_accounts
  BY AccountsStep DEF AccessInv, AccountsInv, AccountsTypeOK, RowsStay
<1> QED BY <1>1, AccessInvariance, PTL DEF AccessSpec, VerdictStands
=============================================================================
