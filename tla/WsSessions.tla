----------------------------- MODULE WsSessions -----------------------------
(***************************************************************************)
(* The socket registry of the WebSocket gateway: which socket a driver's   *)
(* offers and a rider's statuses go to.  driverSockets and riderSockets    *)
(* have the same life and different keys, so both are `registered` here.   *)
(*                                                                         *)
(* handleConnection awaits the user's row before it registers the socket;  *)
(* handleDisconnect deletes the user's key whichever socket is in it.  A   *)
(* client that lost its link connects again before the server has noticed, *)
(* and a client may be gone before its row arrives.                        *)
(***************************************************************************)
EXTENDS Naturals, FiniteSets

CONSTANTS User, Socket, None

ASSUME SessionAssumption == None \notin User \cup Socket

VARIABLES
    link,               \* each socket as the server sees it
    owner,              \* the user whose token the socket brought
    validating,         \* sockets whose handleConnection awaits validateUser
    attached,           \* sockets with client.user set
    profileless,        \* those whose user is a driver without a driverId
    connectedClients,   \* keys of the Map
    registered,         \* driverSockets and riderSockets
    clean,              \* history: users whose last session began after all
                        \* others were over, and got or still may get registered
    cutOff              \* history: sockets that closed while validating

vars == <<link, owner, validating, attached, profileless, connectedClients, registered,
          clean, cutOff>>

TypeOK ==
    /\ link \in [Socket -> {"unused", "open", "closed"}]
    /\ owner \in [Socket -> User \cup {None}]
    /\ validating \subseteq Socket
    /\ attached \subseteq Socket
    /\ profileless \subseteq attached
    /\ connectedClients \subseteq Socket
    /\ registered \in [User -> Socket \cup {None}]
    /\ clean \subseteq User
    /\ cutOff \subseteq Socket

Init ==
    /\ link = [s \in Socket |-> "unused"]
    /\ owner = [s \in Socket |-> None]
    /\ validating = {}
    /\ attached = {}
    /\ profileless = {}
    /\ connectedClients = {}
    /\ registered = [u \in User |-> None]
    /\ clean = User
    /\ cutOff = {}

SocketsOf(u) == {s \in Socket : owner[s] = u}
IsOver(s)    == link[s] = "closed" /\ s \notin validating

Closes(s) == link' = [link EXCEPT ![s] = "closed"]

-----------------------------------------------------------------------------
\* handleConnection up to its await: the token is there and verifies.
Connect(s, u) ==
    /\ link[s] = "unused"
    /\ link' = [link EXCEPT ![s] = "open"]
    /\ owner' = [owner EXCEPT ![s] = u]
    /\ validating' = validating \cup {s}
    /\ clean' = IF \A t \in SocketsOf(u) : IsOver(t) THEN clean \cup {u} ELSE clean \ {u}
    /\ UNCHANGED <<attached, profileless, connectedClients, registered, cutOff>>

\* The user's row arrives: the socket is registered, still open or not.
RegisterFirstOnly(s) ==
    registered' = [registered EXCEPT ![owner[s]] = IF @ = None THEN s ELSE @]
RegisterUser(s) == registered' = [registered EXCEPT ![owner[s]] = owner[s]]
Register(s) == registered' = [registered EXCEPT ![owner[s]] = s]

Attach(s) ==
    /\ s \in validating
    /\ validating' = validating \ {s}
    /\ attached' = attached \cup {s}
    /\ connectedClients' = connectedClients \cup {s}
    /\ UNCHANGED <<link, owner, cutOff>>

Authenticated(s) ==
    /\ Attach(s)
    /\ Register(s)
    /\ UNCHANGED <<profileless, clean>>

\* A driver whose row came without a profile is let in and not registered.
AuthenticatedWithoutProfile(s) ==
    /\ Attach(s)
    /\ profileless' = profileless \cup {s}
    /\ clean' = clean \ {owner[s]}
    /\ UNCHANGED registered

\* There is no such user, or the query fails: the gateway disconnects the
\* socket, and handleDisconnect finds no client.user on it.
AuthenticationFails(s) ==
    /\ s \in validating
    /\ validating' = validating \ {s}
    /\ Closes(s)
    /\ clean' = clean \ {owner[s]}
    /\ UNCHANGED <<owner, attached, profileless, connectedClients, registered, cutOff>>

KeepRegistered(s) == UNCHANGED registered
Unregister(s)     == registered' = [registered EXCEPT ![owner[s]] = None]

KeepClient(s)   == UNCHANGED connectedClients
ForgetClient(s) == connectedClients' = connectedClients \ {s}

\* handleDisconnect of a socket with client.user.
Disconnect(s) ==
    /\ link[s] = "open"
    /\ s \in attached
    /\ Closes(s)
    /\ IF s \in profileless THEN KeepRegistered(s) ELSE Unregister(s)
    /\ ForgetClient(s)
    /\ UNCHANGED <<owner, validating, attached, profileless, clean, cutOff>>

\* handleDisconnect of a socket without client.user: there is nothing to
\* delete yet, and handleConnection goes on.
DisconnectEarly(s) ==
    /\ link[s] = "open"
    /\ s \in validating
    /\ Closes(s)
    /\ clean' = clean \ {owner[s]}
    /\ cutOff' = cutOff \cup {s}
    /\ UNCHANGED <<owner, validating, attached, profileless, connectedClients, registered>>

\* The process restarts: every socket is closed and every Map is empty.
Crash ==
    /\ link' = [s \in Socket |-> IF link[s] = "open" THEN "closed" ELSE link[s]]
    /\ validating' = {}
    /\ attached' = {}
    /\ profileless' = {}
    /\ connectedClients' = {}
    /\ registered' = [u \in User |-> None]
    /\ UNCHANGED <<owner, clean, cutOff>>

Next ==
    \/ \E s \in Socket, u \in User : Connect(s, u)
    \/ \E s \in Socket :
          \/ Authenticated(s) \/ AuthenticatedWithoutProfile(s) \/ AuthenticationFails(s)
          \/ Disconnect(s) \/ DisconnectEarly(s)
    \/ Crash

Spec == Init /\ [][Next]_vars

-----------------------------------------------------------------------------
(***************************************************************************)
(* Properties.                                                             *)
(***************************************************************************)
Live(s) == link[s] = "open" /\ s \in attached

\* Sessions of one user that follow each other keep the registry exact, even
\* after a tangle of overlapping ones: the user is sent to the live socket, and
\* when it closed there is no socket an offer could be wasted on
\* (ws.gateway.ts:141-147, 161-174).
CleanSessionIsReachable ==
    \A u \in clean :
        /\ \A s \in SocketsOf(u) : Live(s) => registered[u] = s
        /\ SocketsOf(u) \cap validating = {} =>
              registered[u] = None \/ link[registered[u]] = "open"

\* connectedClients, which getConnectionStats counts, holds every live socket,
\* and leaks only those that closed while handleConnection was waiting.
ConnectedClientsAreLive ==
    /\ \A s \in Socket : Live(s) => s \in connectedClients
    /\ \A s \in connectedClients : link[s] = "open" \/ s \in cutOff

\* Whatever sessions overlap, a registered socket is one that authenticated as
\* this user and, unless it closed while it did so, is still open: an offer is
\* never sent to another user's socket or to one whose close was handled.
RegisteredSocketIsOwn ==
    \A u \in User : registered[u] # None =>
        /\ owner[registered[u]] = u
        /\ registered[u] \in attached
        /\ Live(registered[u]) \/ registered[u] \in cutOff
=============================================================================
