------------------------ MODULE MCConnectionManager ------------------------
(* Bounds for model checking ConnectionManager. *)
EXTENDS ConnectionManager

CONSTANTS r1, r2

TwoRequests == {r1, r2}
=============================================================================
