------------------------------ MODULE Matching ------------------------------
(***************************************************************************)
(* The order in which MatchingService proposes drivers for one request,    *)
(* while the drivers around it stay as they are: findMatches as the        *)
(* pipeline of lists it is, the wider second search, and the next          *)
(* candidate after each driver that declined.                              *)
(*                                                                         *)
(* Drivers are numbered by their distance from the pickup, so the GEO      *)
(* search, nearest first, returns 1, 2, ... up to the radius.              *)
(***************************************************************************)
EXTENDS Naturals, Sequences, FiniteSets

CONSTANTS
    Members,        \* how many drivers the GEO set holds within MAX_RADIUS_M
    MaxCandidates,  \* DEFAULT_MAX_CANDIDATES
    MaxScore,       \* scores are 1 .. MaxScore
    None            \* no candidate

ASSUME MatchingAssumption ==
    /\ Members \in Nat /\ MaxCandidates \in Nat \ {0} /\ MaxScore \in Nat \ {0}
    /\ None \notin 1 .. Members

Driver == 1 .. Members

VARIABLES
    offline,        \* no presence key
    unavailable,    \* the row is not ONLINE or not APPROVED
    unroutable,     \* OSRM finds no route for this driver, or does not answer
    score,          \* 0.7 pickup + 0.3 trip duration
    radius,         \* drivers within DEFAULT_RADIUS_M, and within twice that
    declined,       \* declinedDrivers of the request
    expanded,       \* whether the first search had to be widened
    candidate,      \* the driver proposed, or None
    phase           \* "start", "offered", "none" or "failed"

world == <<offline, unavailable, unroutable, score, radius>>
vars  == <<world, declined, expanded, candidate, phase>>

\* What is the matter with a driver, first come first filtered.
Profiles == {"offline", "unavailable", "unroutable", "fine"}

TypeOK ==
    /\ offline \cup unavailable \cup unroutable \subseteq Driver
    /\ score \in [Driver -> 1 .. MaxScore]
    /\ radius \in [{"default", "double"} -> 0 .. Members]
    /\ declined \subseteq Driver
    /\ expanded \in BOOLEAN
    /\ candidate \in Driver \cup {None}
    /\ phase \in {"start", "offered", "none", "failed"}

Init ==
    /\ \E profile \in [Driver -> Profiles] :
          /\ offline = {d \in Driver : profile[d] = "offline"}
          /\ unavailable = {d \in Driver : profile[d] = "unavailable"}
          /\ unroutable = {d \in Driver : profile[d] = "unroutable"}
          /\ score \in {s \in [Driver -> 1 .. MaxScore] :
                           \A d \in Driver : profile[d] # "fine" => s[d] = 1}
    /\ radius \in {r \in [{"default", "double"} -> 0 .. Members] : r["default"] <= r["double"]}
    /\ declined = {}
    /\ expanded = FALSE
    /\ candidate = None
    /\ phase = "start"

-----------------------------------------------------------------------------
(***************************************************************************)
(* findMatches, step by step.                                              *)
(***************************************************************************)
FirstOf(n, list) == SubSeq(list, 1, IF Len(list) < n THEN Len(list) ELSE n)

\* Array.filter: the n-th element that is kept is the one with n - 1 of them
\* before it.
Kept(list, good) ==
    LET at == {i \in 1 .. Len(list) : list[i] \in good}
    IN  [n \in 1 .. Cardinality(at) |->
            list[CHOOSE i \in at : Cardinality({j \in at : j < i}) = n - 1]]

\* getNearbyDrivers: COUNT applies to the GEO search, the presence filter to
\* what it returned.
SearchCountOne == MaxCandidates
SearchCount    == 2 * MaxCandidates
Nearby(r) ==
    Kept(FirstOf(SearchCount, [i \in 1 .. radius[r] |-> i]), Driver \ offline)

FilterAvailable(list) == Kept(list, Driver \ unavailable)

\* The sort is stable, so the nearer driver wins a tie.
NearerFirst(d, e) == d < e
Before(d, e)      == score[d] < score[e] \/ (score[d] = score[e] /\ d < e)

\* Array.sort: the n-th element is the one with n - 1 that go before it.
Sorted(list) ==
    LET at == 1 .. Len(list)
    IN  [n \in at |->
            list[CHOOSE i \in at : Cardinality({j \in at : Before(list[j], list[i])}) = n - 1]]

ScoreAndRank(list) == FirstOf(MaxCandidates, Sorted(list))

FindMatches(r) == ScoreAndRank(FilterAvailable(Nearby(r)))

\* getRoute turns every failure, "No route found" included, into the one
\* exception scoreAndRankCandidates throws on: one driver without a route fails
\* the search of all.  (Its branch that drops such a driver is never taken.)
Throws(r) == \E i \in DOMAIN FilterAvailable(Nearby(r)) :
                FilterAvailable(Nearby(r))[i] \in unroutable

-----------------------------------------------------------------------------
ProposesIndex(list) ==
    /\ candidate' = IF list = <<>> THEN None ELSE Head(list) - 1
    /\ phase' = IF list = <<>> THEN "none" ELSE "offered"

\* bestMatch, or the first candidate that is left.
Proposes(list) ==
    /\ candidate' = IF list = <<>> THEN None ELSE Head(list)
    /\ phase' = IF list = <<>> THEN "none" ELSE "offered"

\* findMatchesWithExpansion, for a new request.
FirstSearch ==
    /\ phase = "start"
    /\ ~ Throws("default")
    /\ FindMatches("default") # <<>>
    /\ Proposes(FindMatches("default"))
    /\ UNCHANGED <<world, declined, expanded>>

WiderSearch ==
    /\ phase = "start"
    /\ ~ Throws("default")
    /\ FindMatches("default") = <<>>
    /\ ~ Throws("double")
    /\ Proposes(FindMatches("double"))
    /\ expanded' = TRUE
    /\ UNCHANGED <<world, declined>>

\* getNextCandidate, after the driver declined, timed out or had no socket.
Exclude(list) == Kept(list, Driver \ declined')

NextCandidate ==
    /\ phase = "offered"
    /\ ~ Throws("default")
    /\ declined' = declined \cup {candidate}
    /\ Proposes(Exclude(FindMatches("default")))
    /\ UNCHANGED <<world, expanded>>

SearchFails ==
    /\ \/ phase \in {"start", "offered"} /\ Throws("default")
       \/ phase = "start" /\ FindMatches("default") = <<>> /\ Throws("double")
    /\ phase' = "failed"
    /\ candidate' = None
    /\ declined' = declined \cup ({candidate} \ {None})
    /\ UNCHANGED <<world, expanded>>

Next == FirstSearch \/ WiderSearch \/ NextCandidate \/ SearchFails

Spec == Init /\ [][Next]_vars

-----------------------------------------------------------------------------
(***************************************************************************)
(* What the pipeline should come to, without lists.                        *)
(***************************************************************************)

\* Drivers a search of this radius may propose: one of the nearest, in range,
\* present and free.
Pool(r) ==
    {d \in Driver : d <= radius[r] /\ d <= 2 * MaxCandidates}
        \ (offline \cup unavailable)

\* The driver proposed is the best of those that have not declined: no other
\* has a lower score, or the same and less way to go (matching.service.ts:223-236,
\* 139-143).
ProposalIsBest ==
    phase = "offered" =>
        LET r == IF expanded THEN "double" ELSE "default" IN
        /\ candidate \in Pool(r) \ declined
        /\ \A d \in Pool(r) \ (declined \cup {candidate}) :
              /\ score[candidate] <= score[d]
              /\ score[candidate] = score[d] => candidate < d

\* A search gives up when every driver of the pool declined, or MaxCandidates
\* of them did: the list is cut before those that declined are taken out of it.
\* A request that needed the wider search gives up after one driver, because
\* the next candidate is sought within the default radius only
\* (matching.service.ts:122-125, 137-141).
GivesUpWhenExhausted ==
    phase = "none" =>
        IF expanded
        THEN Pool("default") = {} /\ (declined = {} => Pool("double") = {})
        ELSE \/ declined = Pool("default")
             \/ declined \subseteq Pool("default") /\ Cardinality(declined) = MaxCandidates
=============================================================================
