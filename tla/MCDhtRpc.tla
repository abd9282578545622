------------------------------ MODULE MCDhtRpc ------------------------------
\* Small instances of DhtRpc for TLC.
EXTENDS DhtRpc, TLC
==============================================================================
