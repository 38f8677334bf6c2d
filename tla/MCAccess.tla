------------------------------ MODULE MCAccess ------------------------------
(***************************************************************************)
(* Access with two people, two submissions of the register form, and as    *)
(* many sockets as overlapping, cut off and clean sessions need.  One      *)
(* admin, whose Approve and Reject can be in flight together, and whose    *)
(* list can be old, does what two would do.                                *)
(***************************************************************************)
EXTENDS Access, TLC

CONSTANTS u1, u2, h1, h2, a1, s1, s2, s3

TwoUsers     == {u1, u2}
TwoAttempts  == {h1, h2}
OneAdmin     == {a1}
ThreeSockets == {s1, s2, s3}

Symmetric ==
    Permutations(TwoUsers) \cup Permutations(TwoAttempts) \cup Permutations(ThreeSockets)
=============================================================================
