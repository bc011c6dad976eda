---------------------------- MODULE MCInviteCall ----------------------------
(***************************************************************************)
(* One call with the timers scaled down (two units of time are SIP_T1, the *)
(* deadlines are 16 = 8 * T1, so the INVITE is sent three or four times)   *)
(* and datagrams that live for one unit, less than T1.                     *)
(***************************************************************************)
EXTENDS InviteCall
=============================================================================
