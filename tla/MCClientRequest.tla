-------------------------- MODULE MCClientRequest --------------------------
(***************************************************************************)
(* Three attempts over two addresses and two SRV records, with the timers  *)
(* scaled down (they keep their order: T1 < T2 < T4 < deadlines = 8 * T1). *)
(***************************************************************************)
EXTENDS ClientRequest
=============================================================================
