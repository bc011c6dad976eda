------------------------------ MODULE MCSipreg ------------------------------
(***************************************************************************)
(* Two registrations in turn.  Leases are refreshed after 0.9 of them, as  *)
(* in the code, with room for two transactions: one challenge at a refresh *)
(* may let them run out.  The longest one's refresh overflows.             *)
(***************************************************************************)
EXTENDS Sipreg
=============================================================================
