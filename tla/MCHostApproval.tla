--------------------------- MODULE MCHostApproval ---------------------------
(* Three interchangeable works: a head and a queue of two, or a work that   *)
(* asks again once its first request is answered.                           *)
EXTENDS HostApproval, TLC

Symmetry == Permutations(Work)
=============================================================================
