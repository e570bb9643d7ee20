---------------------------- MODULE MCLinuxNode ----------------------------
\* Small instances of LinuxNode.
EXTENDS LinuxNode, TLC

CONSTANTS j1, j2, n1, k1

OneKeyOf == [j \in Jobs |-> {k1}]
=============================================================================
