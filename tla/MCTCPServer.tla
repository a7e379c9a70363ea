------------------------------ MODULE MCTCPServer ------------------------------
(* A server with three connections, its owner, and another sender. *)
EXTENDS TCPServer
=============================================================================
