----------------------------- MODULE MCApproval -----------------------------
\* A small instance of SessionSystem.
EXTENDS SessionSystem

CONSTANTS r1, r2, c1, n1, n2, n3

\* One answer searches and invokes a node's capability.
SearchAndInvoke == {<<Search, n1>>}

\* n1 reads, n2 writes, n3 takes an artifact as input.
Effects == [n \in {n1, n2, n3} |-> IF n = n2 THEN 2 ELSE 0]
ForArtifacts == <<n3>>

\* Two capabilities, each on a node of its own.
TwoTools == {[cap |-> "a", node |-> n1], [cap |-> "b", node |-> n2]}

\* Two errors of one code, one of which a corrected call may repair.
CodeOfErrors ==
    [e \in {"denied", "broken", "invalid_input"} |-> IF e = "invalid_input" THEN e ELSE "failed"]
=============================================================================
