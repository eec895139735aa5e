------------------------- MODULE MCAsyncOperations -------------------------
(* Instances of AsyncOperations for TLC. *)
EXTENDS AsyncOperations

CONSTANTS o1, h1, h2

OneOp == {o1}
OneHandler == {h1}
TwoHandlers == {h1, h2}

\* max_retries = 1 is the least value createOperation accepts.
OneRetry == [o \in Ops |-> 1]
=============================================================================
