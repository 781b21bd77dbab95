------------------------------ MODULE MCQueue -------------------------------
(* The queue on small sets of threads and envelopes (MCQueue.cfg).         *)
EXTENDS Queue
=============================================================================
