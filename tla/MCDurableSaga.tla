--------------------------- MODULE MCDurableSaga ---------------------------
(* Instances of DurableSaga for TLC. *)
EXTENDS DurableSaga, TLC

CONSTANTS r1, r2, n1, n2

OneRun == {r1}
TwoRuns == {r1, r2}
OneReplica == {n1}
TwoReplicas == {n1, n2}

\* createTenant undoes its first and its insertTenant step; the steps between
\* them carry no descriptor.
CreateTenantSteps == {1, 3}
\* provisionWorkspaceDatabase undoes both of its steps.
ProvisionDatabaseSteps == {1, 2}

Symmetry == Permutations(TwoRuns) \cup Permutations(TwoReplicas)
=============================================================================
