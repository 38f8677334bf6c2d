------------------------------ MODULE Accounts ------------------------------
(***************************************************************************)
(* Who may do what: registration and login (AuthService, the login and the *)
(* register page), and the approval of drivers by an admin (DriversService *)
(* and the admin's dashboard).                                             *)
(*                                                                         *)
(* A person is known by an email and has at most one row in `users`.  A    *)
(* registration waits for the look-up of the email, the hash, the insert   *)
(* of the user and that of the driver's profile, one after the other and   *)
(* without a transaction; an approval for a read and then a write.         *)
(***************************************************************************)
EXTENDS FiniteSets

CONSTANTS
    Person,     \* people, with one email each
    Attempt,    \* submissions of the register form
    Admin       \* admins with the dashboard open

VARIABLES
    account,        \* role in the person's row, or "none"
    profile,        \* approvalStatus in the driver's row, or "none"
    registration,   \* the handler of each submission
    tokens,         \* people whose browser holds a token
    listed,         \* rows with buttons on each admin's page
    reviews,        \* updateApprovalStatus between its read and its write
    settled         \* history: drivers with a verdict and no review that could
                    \* still replace it

approval == <<listed, reviews, settled>>
accounts == <<account, profile, registration, tokens, approval>>

Roles      == {"RIDER", "DRIVER"}
Verdicts   == {"APPROVED", "REJECTED"}
RegStages  == {"unused", "hashing", "profile", "failed", "done"}
Registration == [stage : RegStages, user : Person, role : Roles]
Review     == [admin : Admin, driver : Person, verdict : Verdicts]

AccountsTypeOK ==
    /\ account \in [Person -> Roles \cup {"none"}]
    /\ profile \in [Person -> Verdicts \cup {"PENDING", "none"}]
    /\ registration \in [Attempt -> Registration]
    /\ tokens \subseteq Person
    /\ listed \in [Admin -> SUBSET Person]
    /\ reviews \subseteq Review
    /\ settled \subseteq Person

AccountsInit ==
    /\ account = [u \in Person |-> "none"]
    /\ profile = [u \in Person |-> "none"]
    /\ registration \in [Attempt -> [stage : {"unused"}, user : Person, role : Roles]]
    /\ tokens = {}
    /\ listed = [a \in Admin |-> {}]
    /\ reviews = {}
    /\ settled = {}

-----------------------------------------------------------------------------
(***************************************************************************)
(* AuthService.register.                                                   *)
(***************************************************************************)
Stands(h, stage) == registration[h].stage = stage
GoesTo(h, stage) == registration' = [registration EXCEPT ![h].stage = stage]

SignsIn(u)  == tokens' = tokens \cup {u}
SignsOut(u) == tokens' = tokens \ {u}

\* The row of this email is looked up.
CheckEmail(h) ==
    /\ Stands(h, "unused")
    /\ GoesTo(h, IF account[registration[h].user] = "none" THEN "hashing" ELSE "failed")
    /\ UNCHANGED <<account, profile, tokens, approval>>

\* user.create, for an email that is still free.
Insert(h) == account' = [account EXCEPT ![registration[h].user] = registration[h].role]

CreateUserUnchecked(h) ==
    /\ Stands(h, "hashing")
    /\ Insert(h)
    /\ IF registration[h].role = "DRIVER"
       THEN GoesTo(h, "profile") /\ UNCHANGED tokens
       ELSE GoesTo(h, "done") /\ SignsIn(registration[h].user)
    /\ UNCHANGED <<profile, approval>>

CreateUserOnly(h) ==
    /\ Stands(h, "hashing")
    /\ account[registration[h].user] = "none"
    /\ Insert(h)
    /\ GoesTo(h, "done")
    /\ SignsIn(registration[h].user)
    /\ UNCHANGED <<profile, approval>>

CreateUser(h) ==
    /\ Stands(h, "hashing")
    /\ account[registration[h].user] = "none"
    /\ Insert(h)
    /\ IF registration[h].role = "DRIVER"
       THEN GoesTo(h, "profile") /\ UNCHANGED tokens
       ELSE GoesTo(h, "done") /\ SignsIn(registration[h].user)
    /\ UNCHANGED <<profile, approval>>

CreateProfile(h) ==
    /\ Stands(h, "profile")
    /\ profile' = [profile EXCEPT ![registration[h].user] = "PENDING"]
    /\ GoesTo(h, "done")
    /\ SignsIn(registration[h].user)
    /\ UNCHANGED <<account, approval>>

\* A write fails: the email was taken meanwhile, or the database is away.
\* Nothing that was written before is undone.
RegisterFails(h) ==
    /\ Stands(h, "hashing") \/ Stands(h, "profile")
    /\ GoesTo(h, "failed")
    /\ UNCHANGED <<account, profile, tokens, approval>>

-----------------------------------------------------------------------------
Login(u) ==
    /\ account[u] # "none"
    /\ SignsIn(u)
    /\ UNCHANGED <<account, profile, registration, approval>>

Logout(u) ==
    /\ u \in tokens
    /\ SignsOut(u)
    /\ UNCHANGED <<account, profile, registration, approval>>

-----------------------------------------------------------------------------
(***************************************************************************)
(* Approval.  The page shows what it loaded, until it loads again.         *)
(***************************************************************************)
Pending == {u \in Person : profile[u] = "PENDING"}

\* On the other tabs no row has buttons.
LoadDrivers(a, filter) ==
    /\ listed' = [listed EXCEPT ![a] = IF filter = "PENDING" THEN Pending ELSE {}]
    /\ UNCHANGED <<account, profile, registration, tokens, reviews, settled>>

BeginReview(a, u, verdict) ==
    /\ reviews' = reviews \cup {[admin |-> a, driver |-> u, verdict |-> verdict]}
    /\ UNCHANGED <<account, profile, registration, tokens, listed, settled>>

ReviewListed(a, u, verdict) ==
    /\ u \in listed[a]
    /\ BeginReview(a, u, verdict)

\* A click on Approve, or a rejection confirmed with a note, and the read of
\* updateApprovalStatus.  Of any other driver the answer is 400.
ReviewDriver(a, u, verdict) ==
    /\ u \in listed[a]
    /\ profile[u] = "PENDING"
    /\ BeginReview(a, u, verdict)

ReviewEnds(review) ==
    /\ reviews' = reviews \ {review}
    /\ settled' = settled \cup {u \in Person :
          profile'[u] \in Verdicts /\ \A other \in reviews' : other.driver # u}

\* The write asks for nothing.  The page then loads its tab again.
WriteVerdict(review) ==
    /\ review \in reviews
    /\ profile' = [profile EXCEPT ![review.driver] = review.verdict]
    /\ ReviewEnds(review)
    /\ UNCHANGED <<account, registration, tokens, listed>>

ReviewFails(review) ==
    /\ review \in reviews
    /\ UNCHANGED <<account, profile, registration, tokens, listed>>
    /\ ReviewEnds(review)

AccountsNext ==
    \/ \E h \in Attempt :
          CheckEmail(h) \/ CreateUser(h) \/ CreateProfile(h) \/ RegisterFails(h)
    \/ \E u \in Person : Login(u) \/ Logout(u)
    \/ \E a \in Admin, filter \in Verdicts \cup {"PENDING"} : LoadDrivers(a, filter)
    \/ \E a \in Admin, u \in Person, verdict \in Verdicts : ReviewDriver(a, u, verdict)
    \/ \E review \in reviews : WriteVerdict(review) \/ ReviewFails(review)

-----------------------------------------------------------------------------
(***************************************************************************)
(* Properties.                                                             *)
(***************************************************************************)

\* However many registrations of one email pass the check together, one of them
\* gets beyond the insert of the user (auth.service.ts:36-48).
RegisterOnce ==
    \A h, k \in Attempt :
        /\ registration[h].stage \in {"profile", "done"}
        /\ registration[k].stage \in {"profile", "done"}
        /\ registration[h].user = registration[k].user
        => h = k

\* A registration that succeeded is complete: the row has the role that was
\* asked for and a driver has a profile an admin can find.  One that failed may
\* have left a driver without a profile (auth.service.ts:57).
SuccessMeansComplete ==
    \A h \in Attempt : Stands(h, "done") =>
        /\ account[registration[h].user] = registration[h].role
        /\ registration[h].role = "DRIVER" => profile[registration[h].user] # "none"

\* Two reviews that both found the driver pending both write, and the second
\* verdict replaces the first.  Once the last of them has been written the
\* verdict is final: no page with an old list, however late, decides again
\* (drivers.service.ts:272).
VerdictStands ==
    [][\A u \in settled : profile'[u] = profile[u]]_accounts
=============================================================================
