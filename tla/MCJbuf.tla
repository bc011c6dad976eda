------------------------------- MODULE MCJbuf -------------------------------
(***************************************************************************)
(* A buffer that holds three frames back and has five, with 64 sequence    *)
(* numbers that wrap around in the middle of the stream.                   *)
(***************************************************************************)
EXTENDS Jbuf
=============================================================================
