-------------------------- MODULE MCUniqueLinkStore --------------------------
(* The store with three requests and limits below, at and above their number. *)
EXTENDS UniqueLinkStore
CONSTANTS r1, r2, r3
MCRequests == {r1, r2, r3}
MCLimits == {-1, 0, 1, 2}
=============================================================================
