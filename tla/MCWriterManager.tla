-------------------------- MODULE MCWriterManager --------------------------
(* The manager over Kafka and the fallback files, on small instances.      *)
EXTENDS WriterManager
=============================================================================
