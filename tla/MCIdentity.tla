----------------------------- MODULE MCIdentity -----------------------------
(* Four pairs: a genuine crawler verified by reverse DNS, an impostor      *)
(* whose PTR name borrows the operator's domain without confirming, a      *)
(* crawler outside its published ranges, and a generic HTTP library.       *)
EXTENDS Identity

CONSTANTS genuine, borrowed, ranged, library

MCMethod == [k \in Keys |-> IF k = ranged THEN "cidr" ELSE "rdns"]
MCRanges == [k \in Keys |-> "outside"]

=============================================================================
