---------------------------- MODULE MCFrameChannel ----------------------------
(* FrameChannel for TLC: an empty frame, and one with both delimiters within *)
(* and a command that reads as a negative length when misaligned.            *)
EXTENDS FrameChannel

SomeFrames == {[cmd |-> 1, block |-> <<>>], [cmd |-> -253, block |-> <<2>>]}
=============================================================================
