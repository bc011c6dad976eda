--------------------------- MODULE MCServerTrans ---------------------------
(***************************************************************************)
(* One request, handed up at most twice, with the source's timer values in *)
(* units of SIP_T1 (500 ms).                                               *)
(***************************************************************************)
EXTENDS ServerTrans
=============================================================================
