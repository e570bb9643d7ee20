------------------------ MODULE MCCapabilityRegistry ------------------------
EXTENDS CapabilityRegistry

CONSTANTS n1, n2, c1, c2

\* What n1 offered it drops, for c2 or for nothing; n2 offers both, and meets
\* n1 on c2, which n1 holds before it writes that c1 is dropped.
MCManifests == [n \in Nodes |-> IF n = n1 THEN {<<>>, <<c2>>} ELSE {<<c1, c2>>}]

MCRegistered == [n \in Nodes |-> IF n = n1 THEN {c1} ELSE {}]
=============================================================================
