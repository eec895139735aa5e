------------------------ MODULE IdempotencyContract ------------------------
(***************************************************************************)
(* What an idempotency key promises to the callers of                      *)
(* async-operation-create.mjs, without transactions or locks: while a      *)
(* key's window is live no second operation is created for it, and every   *)
(* call is bound, once, to the newest operation of its key.                *)
(***************************************************************************)
CONSTANTS Keys, Calls, NoCall

VARIABLES
    latest,   \* the newest operation created for the key (named by its call)
    live,     \* the key's window has not expired
    bound     \* the operation each call is bound to

vars == <<latest, live, bound>>

Init ==
    /\ latest = [k \in Keys |-> NoCall]
    /\ live = [k \in Keys |-> FALSE]
    /\ bound = [c \in Calls |-> NoCall]

Create(c, k) ==
    /\ bound[c] = NoCall
    /\ ~live[k]
    /\ latest' = [latest EXCEPT ![k] = c]
    /\ live' = [live EXCEPT ![k] = TRUE]
    /\ bound' = [bound EXCEPT ![c] = c]

Replay(c, k) ==
    /\ bound[c] = NoCall
    /\ latest[k] # NoCall
    /\ bound' = [bound EXCEPT ![c] = latest[k]]
    /\ UNCHANGED <<latest, live>>

Expire(k) ==
    /\ live[k]
    /\ live' = [live EXCEPT ![k] = FALSE]
    /\ UNCHANGED <<latest, bound>>

Next ==
    \/ \E c \in Calls, k \in Keys : Create(c, k) \/ Replay(c, k)
    \/ \E k \in Keys : Expire(k)

Spec == Init /\ [][Next]_vars
=============================================================================
