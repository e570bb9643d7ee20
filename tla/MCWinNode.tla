----------------------------- MODULE MCWinNode -----------------------------
\* Small instances of WinNode.
EXTENDS WinNode, TLC

CONSTANTS j1, j2, n1, k1

OneKeyOf == [j \in Jobs |-> {k1}]
NoKeyOf == [j \in Jobs |-> {}]
=============================================================================
