---------------------------- MODULE MCJobRuntime ----------------------------
\* Small instances of JobRuntime.
EXTENDS JobRuntime, TLC

CONSTANTS j1, j2, j3, n1, n2, k1, k2

\* Two jobs that contend for k1 on one node; one of them needs k2 as well.
ContendNodeOf == [j \in Jobs |-> n1]
ContendKeysOf == [j \in Jobs |-> IF j = j1 THEN {k1, k2} ELSE {k1}]
=============================================================================
