--------------------------- MODULE MCAudioReceive ---------------------------
(***************************************************************************)
(* A stream whose sequence numbers wrap around and whose source changes;   *)
(* the peer's packets and the player's reads are of different sizes.       *)
(***************************************************************************)
EXTENDS AudioReceive
=============================================================================
