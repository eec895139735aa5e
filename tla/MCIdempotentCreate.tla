------------------------ MODULE MCIdempotentCreate -------------------------
(* Instances of IdempotentCreate for TLC. *)
EXTENDS IdempotentCreate

CONSTANTS k1, k2, c1, c2, c3

TwoKeys == {k1, k2}
ThreeCalls == {c1, c2, c3}
=============================================================================
