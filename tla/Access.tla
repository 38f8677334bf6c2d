------------------------------- MODULE Access -------------------------------
(***************************************************************************)
(* Accounts and the sockets they open: WsSessions for the people of        *)
(* Accounts.  A socket brings the token of a person that is signed in, and *)
(* handleConnection finds the row, and the driver's profile in it, as they *)
(* are when it reads them, which may be in the middle of a registration.   *)
(***************************************************************************)
EXTENDS WsSessions, Accounts

ASSUME AccessAssumption == Person = User

AccessTypeOK == TypeOK /\ AccountsTypeOK

AccessInit == Init /\ AccountsInit

HasProfile(u) == account[u] = "DRIVER" => profile[u] # "none"

OpensSocket(s, u) == u \in tokens /\ Connect(s, u) /\ UNCHANGED accounts

FindsAnyone(s) == Authenticated(s) /\ UNCHANGED accounts

\* validateUser: the row, with the profile that belongs to it.  The read and
\* its answer are one step.
FindsProfile(s) == Authenticated(s) /\ HasProfile(owner[s]) /\ UNCHANGED accounts

FindsNoProfile(s) ==
    /\ AuthenticatedWithoutProfile(s)
    /\ ~ HasProfile(owner[s])
    /\ UNCHANGED accounts

\* "Authentication failed", whatever the reason was, signs the person out; the
\* message does not arrive at a socket that is closed.
IsTurnedAway(s) ==
    /\ AuthenticationFails(s)
    /\ IF link[s] = "open" THEN SignsOut(owner[s]) ELSE UNCHANGED tokens
    /\ UNCHANGED <<account, profile, registration, approval>>

\* A restart of the process ends the registrations and reviews in flight; what
\* they wrote stays.
Restart ==
    /\ Crash
    /\ registration' = [h \in Attempt |->
          IF registration[h].stage \in {"hashing", "profile"}
          THEN [registration[h] EXCEPT !.stage = "failed"] ELSE registration[h]]
    /\ reviews' = {}
    /\ settled' = {u \in Person : profile[u] \in Verdicts}
    /\ UNCHANGED <<account, profile, tokens, listed>>

AccessNext ==
    \/ AccountsNext /\ UNCHANGED vars
    \/ \E s \in Socket, u \in User : OpensSocket(s, u)
    \/ \E s \in Socket :
          \/ FindsProfile(s) \/ FindsNoProfile(s) \/ IsTurnedAway(s)
          \/ (Disconnect(s) \/ DisconnectEarly(s)) /\ UNCHANGED accounts
    \/ Restart

AccessSpec == AccessInit /\ [][AccessNext]_<<vars, accounts>>

-----------------------------------------------------------------------------
\* Offers go to a driver's registered socket, and the gateway registered it for
\* a driver that has a profile; so does a socket that was let in without one
\* never stand in the registry (ws.gateway.ts:141).
DriverSocketNeedsProfile ==
    \A u \in User : registered[u] # None =>
        /\ account[u] # "none"
        /\ HasProfile(u)
        /\ registered[u] \notin profileless
=============================================================================
