----------------------------- MODULE MCMainLoop -----------------------------
(***************************************************************************)
(* Two timers besides the network's; the GUI thread starts and cancels     *)
(* them at any time, and closes the phone at any time.                     *)
(***************************************************************************)
EXTENDS MainLoop
=============================================================================
