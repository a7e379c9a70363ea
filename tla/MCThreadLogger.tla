---------------------------- MODULE MCThreadLogger ----------------------------
(* ThreadLogger for TLC.                                                     *)
EXTENDS ThreadLogger
=============================================================================
