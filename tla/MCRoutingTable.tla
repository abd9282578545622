--------------------------- MODULE MCRoutingTable ---------------------------
\* Small instances of RoutingTable for TLC.
EXTENDS RoutingTable, TLC

MCOurId == <<0, 1, 0>>

AddrSymmetry == Permutations(Addrs)
==============================================================================
