---------------------------- MODULE MCOperation ----------------------------
\* Small instances of Operation.
EXTENDS Operation, TLC
=============================================================================
