------------------------------ MODULE MCClient ------------------------------
(* The SDK on small sets of goroutines and clients (MCClient.cfg).         *)
EXTENDS Client
=============================================================================
