------------------------- MODULE MCWebhookMasterKey -------------------------
(* Instances of WebhookMasterKey for TLC: a legacy key k1 and a canonical   *)
(* key k2, a full cycle of requests, and a second rotation that reuses the  *)
(* rotation identifier of the first.                                        *)
EXTENDS WebhookMasterKey, TLC

CONSTANTS k1, k2, old, new, s1, s2, p1, p2, j1, j2

KeyMaterial == k1 :> old @@ k2 :> new

Call(action, request, rotation, source, target, window) ==
    [action |-> action, request |-> request, rotation |-> rotation,
     source |-> source, target |-> target, window |-> window]

AdoptCall == Call("adopt", "a", NoRotation, NoKey, k1, 0)
RotateCall == Call("rotate", "r", "t1", k1, k2, 1)
ReusedCall == Call("rotate", "u", "t1", k1, k2, 1)
RecoverCall == Call("recover", "b", "t2", k2, k1, 1)
FinalizeCall == Call("finalize", "f", NoRotation, k1, k2, 0)

CycleCalls == {AdoptCall, RotateCall, RecoverCall, FinalizeCall}
AllCalls == CycleCalls \cup {ReusedCall}

\* One operator runs the cycle.
OneCycle == j1 :> CycleCalls
\* One operator runs the cycle, another repeats its rotation.
CycleAndRetry == j1 :> CycleCalls @@ j2 :> {RotateCall}
\* One operator runs everything.
OneOperator == j1 :> AllCalls

\* One operator adopts k1, rotates to k2, finalizes, and rotates back to k1,
\* whose material also parses as a canonical key.
ReturnCall == Call("rotate", "u", "t2", k2, k1, 1)
ReturnCalls == {AdoptCall, RotateCall, FinalizeCall, ReturnCall}
RotateAndReturn == j1 :> ReturnCalls
=============================================================================
