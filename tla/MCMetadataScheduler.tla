------------------------- MODULE MCMetadataScheduler -------------------------
\* Small instances of MetadataScheduler for TLC.
EXTENDS MetadataScheduler, TLC

CONSTANTS h1, h2, p1, p2, p3

\* h1 has metadata that can be indexed; h2 has metadata that cannot.
ContentMixed == (h1 :> "ok") @@ [h \in Hashes \ {h1} |-> "oversized"]
ContentInvalid == (h1 :> "ok") @@ [h \in Hashes \ {h1} |-> "invalid"]

PeerSymmetry == Permutations(Peers)
==============================================================================
