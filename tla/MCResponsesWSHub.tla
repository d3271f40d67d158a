-------------------------- MODULE MCResponsesWSHub --------------------------
(* Small instances of ResponsesWSHub for TLC.                              *)
EXTENDS ResponsesWSHub
=============================================================================
