--------------------------- MODULE MCScheduling ----------------------------
(* Instances of Scheduling for TLC. *)
EXTENDS Scheduling

CONSTANTS j1, t1, t2, w1, h1

NoJobs == {}
OneJob == {j1}
OneTrigger == {t1}
TwoTriggers == {t1, t2}
OneRunner == {w1}
NoHandler == {}
OneHandler == {h1}

\* An expression that matches every slot.
EverySlot == {Slots}

LimitOne == {1}

\* Jobs that are errored by their second or third failure in a row.
SecondFailure == [j \in Jobs |-> 2]
ThirdFailure == [j \in Jobs |-> 3]
=============================================================================
