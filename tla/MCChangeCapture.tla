--------------------------- MODULE MCChangeCapture ---------------------------
EXTENDS ChangeCapture

Msg(k, n) == [kind |-> k, lsn |-> n]

\* Transactions one after the other, then two that overlapped (the one that
\* wrote at 5 commits after the one that wrote at 6), then one more.
MixedWal ==
    << Msg("mine", 1), Msg("mine", 2), Msg("commit", 3), Msg("opaque", 4),
       Msg("other", 6), Msg("commit", 7), Msg("mine", 5), Msg("commit", 8),
       Msg("other", 9), Msg("commit", 10) >>

\* Only the two transactions that overlapped.
OverlappingWal ==
    << Msg("other", 2), Msg("commit", 3), Msg("mine", 1), Msg("commit", 4) >>

\* No two transactions overlapped.
SerialWal ==
    << Msg("other", 1), Msg("commit", 2), Msg("mine", 3), Msg("commit", 4) >>
=============================================================================
