----------------------------- MODULE MCJobRace -----------------------------
\* Small instances of JobRace.
EXTENDS JobRace, TLC

CONSTANTS j1, j2, r1, r2, k1, scanner

\* Every job needs the one key.
OneKeyOf == [j \in Jobs |-> {k1}]
=============================================================================
