--------------------------- MODULE MCClientTrans ---------------------------
(***************************************************************************)
(* One request and its CANCEL, with the source's own timer values counted  *)
(* in units of SIP_T1 (500 ms).                                            *)
(***************************************************************************)
EXTENDS ClientTrans

=============================================================================
