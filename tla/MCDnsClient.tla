---------------------------- MODULE MCDnsClient ----------------------------
(***************************************************************************)
(* Three queries over either transport, two servers, and as many           *)
(* transmissions over UDP as go round them twice.                          *)
(***************************************************************************)
EXTENDS DnsClient
=============================================================================
