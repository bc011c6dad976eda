------------------------------ MODULE MCPhone ------------------------------
(***************************************************************************)
(* Two calls, either way.  MAX_CALLS is 1 and keeps an incoming call off,  *)
(* never one that the user places: the two may be there at once.           *)
(***************************************************************************)
EXTENDS Phone
=============================================================================
