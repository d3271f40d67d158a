------------------------ MODULE MCResponsesWSSession ------------------------
(* Small instances of ResponsesWSSession for TLC.                          *)
EXTENDS ResponsesWSSession, TLC

\* Accounts are interchangeable where all of them are dialled natively or
\* none is.
AccountSymmetry == Permutations(Accounts)
=============================================================================
