----------------------------- MODULE MCWebService -----------------------------
(* Two torrents and two requests.  A document with name and paths is larger *)
(* than the smaller packet limit for one of the hashes, and larger than the *)
(* batching target together with the other's.                               *)
EXTENDS WebService

MCNameBytes == <<1, 1>>
MCPathBytes == <<2, 1>>
==============================================================================
