----------------------------- MODULE MCMatching -----------------------------
(***************************************************************************)
(* Matching over every neighbourhood of a few drivers: one more than a     *)
(* GEO search returns.                                                     *)
(***************************************************************************)
EXTENDS Matching, TLC

\* What Kept returns is what filter does, on every short list.
ASSUME KeptIsFilter ==
    \A n \in 0 .. 4 : \A list \in [1 .. n -> Driver] : \A good \in SUBSET Driver :
        LET Good(d) == d \in good IN Kept(list, good) = SelectSeq(list, Good)
=============================================================================
