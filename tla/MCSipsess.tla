----------------------------- MODULE MCSipsess -----------------------------
(***************************************************************************)
(* One session: two re-INVITEs of the peer beyond the first INVITE, two    *)
(* answers waiting for their ACK at once, two INFOs under way.             *)
(***************************************************************************)
EXTENDS Sipsess
=============================================================================
