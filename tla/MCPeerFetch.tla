---------------------------- MODULE MCPeerFetch ----------------------------
(* PeerFetch on small sizes and timeouts.                                   *)
EXTENDS PeerFetch
=============================================================================
