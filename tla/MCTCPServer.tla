---------------------------- MODULE MCTCPServer -----------------------------
(* The server on a small set of connections (MCTCPServer.cfg).             *)
EXTENDS TCPServer
=============================================================================
