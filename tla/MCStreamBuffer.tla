---------------------------- MODULE MCStreamBuffer ----------------------------
(* StreamBuffer for TLC.                                                     *)
EXTENDS StreamBuffer
=============================================================================
